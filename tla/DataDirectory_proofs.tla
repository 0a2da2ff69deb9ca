-------------------------- MODULE DataDirectory_proofs --------------------------
(* The data directory, for any number of packages, keys and secrets: what is   *)
(* served, archived and exchanged, whatever dies when.                         *)
EXTENDS DataDirectory, TLAPS

Serving == {"up", "placed", "publish", "retry", "change", "unlink", "drop"}

\* The points of a start from which on the key is exported.
Exported == {"recover", "settle", "reconcile"} \cup Serving

\* Points at which each program holds publish.lock.
ServiceHolds == {"migrate", "version", "account", "key", "record", "export",
                 "placed", "publish", "retry", "change", "unlink", "drop"}
BackupHolds == {"snapshot", "archive", "check"}

\* The lock files at the path never change, so that whoever opened them locks
\* against everybody else.
InodeInv ==
    /\ SharesService \/ svc.pc = "flock" => svc.fd = disk.inode
    /\ bak.pc # "idle" => bak.fd = disk.inode
    /\ res.pc # "idle" => res.fd = disk.inode
    /\ res.pc = "exchange" => res.staged.inode = disk.inode

\* Restore excludes the others; publish.lock has one holder.
LockInv ==
    /\ Excludes => ~SharesService /\ ~SharesBackup
    /\ Publishes("service") <=> svc.pc \in ServiceHolds
    /\ Publishes("backup") <=> bak.pc \in BackupHolds
    /\ Publishes("restore") <=> Excludes

\* A key on record is the key in the ring; an index bears its signature and, if
\* no publish is due, lists the packages on offer.
DirectoryInv(d) ==
    /\ d.fp # None => d.fp = d.key
    /\ d.index # None => d.key # None /\ d.index.by = d.key
    /\ d.index # None /\ ~d.dirty => d.index.has = Active(d)

\* What a backup has staged is the directory, which its lock keeps as it is.
BackupInv ==
    /\ bak.pc \in {"archive", "check"} =>
          /\ bak.staged \in Archive
          /\ bak.staged.rows = disk.rows /\ bak.staged.fp = disk.fp
    /\ bak.pc = "check" =>
          bak.staged.pool = disk.pool /\ bak.staged.key = disk.key

RestoreInv ==
    /\ res.pc # "idle" => archive # None
    /\ res.pc \in {"link", "exchange"} =>
          /\ res.staged \in Directory
          /\ DirectoryInv(res.staged)

\* What the start has got done by the point at which it stands.
StartInv ==
    /\ svc.pc = "version" => disk.schema < SCHEMA_VERSION
    /\ svc.pc \in {"account", "key", "record", "export"} \cup Exported =>
          disk.schema = SCHEMA_VERSION /\ ~disk.half
    /\ svc.pc = "account" => disk.user = None /\ disk.boot
    /\ svc.pc \in {"key", "record", "export"} \cup Exported => disk.user # None
    /\ svc.pc \in {"record", "export"} \cup Exported => disk.key # None
    /\ svc.pc \in {"export"} \cup Exported => disk.fp = disk.key
    /\ svc.pc \in Exported => disk.pub = disk.key
    /\ svc.pc \in Serving => disk.dirty \/ disk.index # None

\* The handler's package, and what its publish has left.
HandlerInv ==
    /\ svc.pc \in {"placed", "unlink", "drop"} => svc.package \in Package
    /\ svc.pc \in {"unlink", "drop"} => disk.rows[svc.package] # "active"

\* Unless a restore came in between, the secret in memory is the one on disk.
SecretInv ==
    ~raced =>
        /\ svc.pc = "secret" => disk.secret = Empty
        /\ svc.pc \notin {"down", "secret"} => svc.secret = disk.secret

Inv ==
    /\ TypeOK
    /\ InodeInv /\ LockInv
    /\ DirectoryInv(disk)
    /\ BackupInv /\ RestoreInv
    /\ StartInv /\ HandlerInv /\ SecretInv
    /\ BackupWhole
    /\ FirstPasswordKnown

USE NoneAssumption, ChanceAssumption DEF SCHEMA_VERSION

-----------------------------------------------------------------------------
(* Facts about the types.                                                      *)

ServiceType ==
    [pc : {"down", "secret", "open", "flock", "initialize", "migrate", "version",
           "account", "key", "record", "export", "recover", "settle", "reconcile", "up",
           "placed", "publish", "retry", "change", "unlink", "drop"},
     secret : Secret \cup {Empty, None}, fd : Inode \cup {None},
     package : Package \cup {None}]

Holders == {"service", "backup", "restore", None}

\* What chance makes is a key, a secret and an inode.
LEMMA Chance ==
    ASSUME TypeOK
    PROVE  NewKey \in Key /\ NewSecret \in Secret /\ NewInode \in Inode
<1>1. \E k \in Key : archive = None \/ archive.key # k
      OBVIOUS
<1>2. \E s \in Secret : archive = None \/ archive.secret # s
      OBVIOUS
<1>3. \E i \in Inode : i # disk.inode
      BY DEF TypeOK, Directory
<1> QED BY <1>1, <1>2, <1>3 DEF NewKey, NewSecret, NewInode

\* The service and a backup do not both hold publish.lock of the directory.
LEMMA HolderIsOne ==
    ASSUME Inv
    PROVE  /\ svc.pc \in ServiceHolds => bak.pc \notin BackupHolds
           /\ publishing[disk.inode] = None =>
                 svc.pc \notin ServiceHolds /\ bak.pc \notin BackupHolds
BY DEF Inv, LockInv, Publishes

\* Taking publish.lock keeps its type.
LEMMA TakeType ==
    ASSUME TypeOK, NEW who \in {"service", "backup", "restore"}, Take(who)
    PROVE  /\ publishing' \in [Inode -> Holders]
           /\ publishing'[disk.inode] = who
BY DEF Take, TypeOK, Directory, Holders

\* Leaving publish.lock keeps its type.
LEMMA DropType ==
    ASSUME TypeOK, NEW who \in {"service", "backup", "restore"}, publishing' = Drop(who)
    PROVE  /\ publishing' \in [Inode -> Holders]
           /\ publishing'[disk.inode]
                 = IF publishing[disk.inode] = who THEN None ELSE publishing[disk.inode]
BY DEF Drop, TypeOK, Directory, Holders

(* What a step of the service owes to the invariant.                           *)
LEMMA ServiceStep ==
    ASSUME Inv, UNCHANGED <<archive, bak, res>>,
           raced' \in BOOLEAN, inherited' \in BOOLEAN,
           disk' \in Directory, disk'.inode = disk.inode,
           svc' \in ServiceType, publishing' \in [Inode -> Holders],
           SharesService' \/ svc'.pc = "flock" => svc'.fd = disk.inode,
           LockInv',
           bak.pc \in BackupHolds => /\ disk'.rows = disk.rows /\ disk'.fp = disk.fp
                                     /\ disk'.pool = disk.pool /\ disk'.key = disk.key,
           DirectoryInv(disk'), StartInv', HandlerInv', SecretInv', FirstPasswordKnown'
    PROVE  Inv'
<1>1. TypeOK'
      BY DEF Inv, TypeOK, ServiceType, Holders
<1>2. InodeInv'
      BY DEF Inv, InodeInv
<1>3. BackupInv' /\ RestoreInv' /\ BackupWhole'
      BY DEF Inv, BackupInv, RestoreInv, BackupWhole, BackupHolds
<1> QED BY <1>1, <1>2, <1>3 DEF Inv

\* ... if it leaves publish.lock alone.
LEMMA QuietStep ==
    ASSUME Inv, UNCHANGED <<publishing, bak, res>>, disk'.inode = disk.inode,
           svc.pc \in ServiceHolds <=> svc'.pc \in ServiceHolds,
           SharesService' => SharesService
    PROVE  LockInv' /\ publishing' \in [Inode -> Holders]
BY DEF Inv, TypeOK, LockInv, Publishes, Holders, SharesBackup, Excludes

\* A migration, script or version, keeps the invariant.
LEMMA MigrateStep ==
    ASSUME Inv, RunScript \/ SetVersion
    PROVE  Inv'
<1> USE DEF Inv, TypeOK, Go
<1>1. Quiet /\ svc' \in ServiceType
      BY DEF RunScript, SetVersion, ServiceType
<1>2. /\ svc'.pc \in {"migrate", "version"} /\ svc.pc \in {"migrate", "version"}
      /\ svc'.fd = svc.fd /\ svc'.secret = svc.secret
      BY DEF RunScript, SetVersion
<1>3. /\ disk' \in Directory
      /\ disk'.inode = disk.inode /\ disk'.rows = disk.rows /\ disk'.fp = disk.fp
      /\ disk'.pool = disk.pool /\ disk'.key = disk.key /\ disk'.index = disk.index
      /\ disk'.dirty = disk.dirty /\ disk'.user = disk.user /\ disk'.boot = disk.boot
      /\ disk'.secret = disk.secret
  <2>1. CASE RunScript
        BY <2>1 DEF RunScript, Directory
  <2>2. CASE SetVersion
    <3>1. disk.schema \in 0 .. 1
          BY <2>2 DEF SetVersion, StartInv, Directory, Exported, Serving
    <3>2. disk.schema + 1 \in 0 .. 2
          BY <3>1
    <3> QED BY <2>2, <3>2 DEF SetVersion, Directory
  <2> QED BY <2>1, <2>2
<1>4. LockInv' /\ publishing' \in [Inode -> Holders]
      BY <1>1, <1>2, <1>3, QuietStep DEF ServiceHolds, SharesService, Starting, Quiet,
                                         Others
<1>5. DirectoryInv(disk') /\ FirstPasswordKnown'
      BY <1>1, <1>3 DEF DirectoryInv, Active, FirstPasswordKnown, Quiet, Others
<1>6. HandlerInv' /\ SecretInv'
      BY <1>1, <1>2, <1>3 DEF HandlerInv, SecretInv, Quiet, Others
<1>7. svc'.pc = "version" => disk'.schema < SCHEMA_VERSION
      BY <1>2 DEF RunScript, SetVersion, Directory
<1>8. StartInv'
      BY <1>2, <1>7 DEF StartInv, Serving, Exported
<1> QED BY <1>1, <1>2, <1>3, <1>4, <1>5, <1>6, <1>8, ServiceStep
        DEF Quiet, InodeInv, SharesService, Starting, Others

\* Before the lock: only the secret and its file change.
LEMMA SecretStep ==
    ASSUME Inv, Launch \/ WriteSecret
    PROVE  Inv'
<1> USE DEF Inv, TypeOK, Go
<1> DEFINE Created == /\ svc' = [svc EXCEPT !.pc = "secret"] /\ svc.pc = "down"
                      /\ disk' = [disk EXCEPT !.secret = Empty]
           Found == /\ svc' = [svc EXCEPT !.pc = "open", !.secret = disk.secret]
                    /\ svc.pc = "down" /\ disk' = disk
           Written == /\ svc' = [svc EXCEPT !.pc = "open", !.secret = NewSecret]
                      /\ svc.pc = "secret"
                      /\ disk' = [disk EXCEPT !.secret = IF @ = Empty THEN NewSecret ELSE @]
<1>1. Created \/ Found \/ Written
      BY DEF Launch, WriteSecret
<1>2. disk.secret \in Secret \cup {Empty, None} /\ NewSecret \in Secret
      BY Chance DEF Directory
<1>3. svc' \in ServiceType /\ svc'.fd = svc.fd
  <2>1. CASE Created
        BY <2>1 DEF ServiceType
  <2>2. CASE Found
        BY <1>2, <2>2 DEF ServiceType
  <2>3. CASE Written
        BY <1>2, <2>3 DEF ServiceType
  <2> QED BY <1>1, <2>1, <2>2, <2>3
<1>4. /\ Quiet
      /\ svc.pc \in {"down", "secret"} /\ svc'.pc \in {"secret", "open"}
  <2>1. Quiet
        BY DEF Launch, WriteSecret
  <2>2. svc.pc \in {"down", "secret"}
        BY <1>1
  <2>3. svc'.pc \in {"secret", "open"}
    <3>1. svc \in ServiceType
          BY DEF ServiceType
    <3>2. \/ svc' = [svc EXCEPT !.pc = "secret"]
          \/ \E x : svc' = [svc EXCEPT !.pc = "open", !.secret = x]
          BY <1>1
    <3> HIDE DEF Inv, TypeOK, Created, Found, Written
    <3> QED BY <3>1, <3>2 DEF ServiceType
  <2> QED BY <2>1, <2>2, <2>3
<1>5. /\ disk' \in Directory
      /\ disk'.inode = disk.inode /\ disk'.rows = disk.rows /\ disk'.fp = disk.fp
      /\ disk'.pool = disk.pool /\ disk'.key = disk.key /\ disk'.index = disk.index
      /\ disk'.dirty = disk.dirty /\ disk'.user = disk.user /\ disk'.boot = disk.boot
      BY <1>1, <1>2 DEF Directory
<1>6. LockInv' /\ publishing' \in [Inode -> Holders]
      BY <1>4, <1>5, QuietStep DEF ServiceHolds, SharesService, Starting, Quiet, Others
<1>7. DirectoryInv(disk') /\ FirstPasswordKnown'
      BY <1>4, <1>5 DEF DirectoryInv, Active, FirstPasswordKnown, Quiet, Others
<1>8. StartInv' /\ HandlerInv'
      BY <1>4 DEF StartInv, HandlerInv, Serving, Exported
<1>9. /\ svc'.pc = "secret" => disk'.secret = Empty
      /\ svc'.pc = "open" /\ (svc.pc = "secret" => disk.secret = Empty) =>
            svc'.secret = disk'.secret
  <2>1. CASE Created
        BY <2>1 DEF Directory
  <2>2. CASE Found
        BY <2>2
  <2>3. CASE Written
        BY <2>3 DEF Directory
  <2> QED BY <1>1, <2>1, <2>2, <2>3
<1>10. SecretInv'
      BY <1>4, <1>9 DEF SecretInv, Quiet, Others
<1> QED BY <1>3, <1>4, <1>5, <1>6, <1>7, <1>8, <1>10, ServiceStep
        DEF Quiet, SharesService, Starting, Others

\* The lock file opened is the one at the path, so that a restore is seen.
LEMMA ServiceLockStep ==
    ASSUME Inv, OpenServiceLock \/ LockService
    PROVE  Inv'
<1> USE DEF Inv, TypeOK, Go
<1>1. /\ UNCHANGED <<disk, publishing, archive, bak, res, inherited>>
      /\ disk.inode \in Inode /\ raced' \in BOOLEAN
      /\ svc'.pc # "down" => raced' = raced
  <2>1. CASE OpenServiceLock
        BY <2>1 DEF OpenServiceLock, Quiet, Others, Directory
  <2>2. CASE LockService /\ SharedFree(svc.fd)
        BY <2>2 DEF LockService, Others, Directory
  <2>3. CASE LockService /\ ~SharedFree(svc.fd)
    <3>1. /\ UNCHANGED <<disk, publishing, archive, bak, res, inherited>>
          /\ raced' = FALSE /\ svc' = Down
          BY <2>3 DEF LockService, GoDown
    <3>2. svc'.pc = "down"
          BY <3>1 DEF Down
    <3> QED BY <3>1, <3>2 DEF Directory
  <2> QED BY <2>1, <2>2, <2>3
<1>2. /\ svc' \in ServiceType
      /\ svc.pc \in {"open", "flock"} /\ svc'.pc \in {"down", "flock", "initialize"}
      /\ svc'.pc # "down" => svc'.fd = disk.inode /\ svc'.secret = svc.secret
      /\ svc'.pc = "initialize" => SharedFree(disk.inode)
  <2>1. CASE OpenServiceLock
        BY <1>1, <2>1 DEF OpenServiceLock, ServiceType
  <2>2. CASE LockService /\ SharedFree(svc.fd)
        BY <2>2 DEF LockService, ServiceType, InodeInv
  <2>3. CASE LockService /\ ~SharedFree(svc.fd)
        BY <2>3 DEF LockService, GoDown, ServiceType, Down
  <2> QED BY <2>1, <2>2, <2>3
<1>3. svc'.pc = "initialize" => ~Excludes
      BY <1>2 DEF InodeInv, SharedFree, Excludes
<1>4. LockInv' /\ publishing' \in [Inode -> Holders]
      BY <1>1, <1>2, <1>3 DEF LockInv, Publishes, Holders, SharesBackup, SharesService,
                              Starting, Excludes, ServiceHolds
<1>5. DirectoryInv(disk') /\ FirstPasswordKnown'
      BY <1>1 DEF DirectoryInv, Active, FirstPasswordKnown
<1>6. StartInv' /\ HandlerInv' /\ SecretInv'
      BY <1>1, <1>2 DEF StartInv, HandlerInv, Serving, SecretInv, Exported
<1> QED BY <1>1, <1>2, <1>4, <1>5, <1>6, ServiceStep DEF SharesService, Starting

\* A step that takes publish.lock: nobody else had it.
LEMMA TakeStep ==
    ASSUME Inv, Others, Take("service"), disk'.inode = disk.inode,
           svc'.pc \in ServiceHolds, SharesService
    PROVE  /\ LockInv' /\ publishing' \in [Inode -> Holders]
           /\ bak.pc \notin BackupHolds
<1>1. /\ publishing' \in [Inode -> Holders]
      /\ publishing'[disk.inode] = "service" /\ publishing[disk.inode] = None
      BY TakeType DEF Inv, Take
<1>2. bak.pc \notin BackupHolds /\ ~Excludes
      BY <1>1, HolderIsOne DEF Inv, LockInv
<1> QED BY <1>1, <1>2 DEF LockInv, Others, Publishes, SharesBackup, Excludes

\* One that gives it back.
LEMMA DropStep ==
    ASSUME Inv, UNCHANGED <<bak, res>>, publishing' = Drop("service"),
           disk'.inode = disk.inode,
           svc'.pc \notin ServiceHolds, SharesService' => SharesService
    PROVE  LockInv' /\ publishing' \in [Inode -> Holders]
<1>1. /\ publishing' \in [Inode -> Holders]
      /\ publishing'[disk.inode]
            = IF publishing[disk.inode] = "service" THEN None ELSE publishing[disk.inode]
      BY DropType DEF Inv
<1> QED BY <1>1 DEF Inv, LockInv, Publishes, SharesBackup, Excludes

\* Taking publish.lock for the start keeps the invariant.
LEMMA InitializeStep == ASSUME Inv, Initialize PROVE Inv'
<1> USE DEF Inv, TypeOK, Go
<1>1. /\ Others /\ disk' = disk /\ svc' \in ServiceType
      /\ svc.pc = "initialize" /\ svc'.pc = "migrate" /\ svc'.fd = svc.fd
      /\ svc'.secret = svc.secret
      BY DEF Initialize, ServiceType
<1>2. LockInv' /\ publishing' \in [Inode -> Holders]
      BY <1>1, TakeStep DEF Initialize, ServiceHolds, SharesService, Starting
<1>3. DirectoryInv(disk') /\ FirstPasswordKnown'
      BY <1>1 DEF DirectoryInv, Active, FirstPasswordKnown, Quiet, Others
<1>4. StartInv' /\ HandlerInv' /\ SecretInv'
      BY <1>1 DEF StartInv, HandlerInv, Serving, SecretInv, Others, Exported
<1> QED BY <1>1, <1>2, <1>3, <1>4, ServiceStep
        DEF InodeInv, SharesService, Starting, Quiet, Others

\* The death of the service, at any point, keeps the invariant.
LEMMA DeathStep == ASSUME Inv, Crash \/ ScriptFails PROVE Inv'
<1> USE DEF Inv, TypeOK
<1>1. /\ UNCHANGED <<archive, bak, res, inherited, disk>> /\ svc' = Down
      /\ raced' = FALSE /\ publishing' = Drop("service")
      BY DEF Crash, ScriptFails, Dies, GoDown
<1>2. svc' \in ServiceType /\ svc'.pc = "down"
      BY <1>1 DEF Down, ServiceType
<1>3. LockInv' /\ publishing' \in [Inode -> Holders]
      BY <1>1, <1>2, DropStep DEF ServiceHolds, SharesService, Starting
<1>4. DirectoryInv(disk') /\ FirstPasswordKnown'
      BY <1>1 DEF DirectoryInv, Active, FirstPasswordKnown
<1>5. StartInv' /\ HandlerInv' /\ SecretInv'
      BY <1>2 DEF StartInv, HandlerInv, Serving, SecretInv, Exported
<1> QED BY <1>1, <1>2, <1>3, <1>4, <1>5, ServiceStep DEF SharesService, Starting

\* The password's file is there before the account.
LEMMA AccountStep ==
    ASSUME Inv, WriteBootstrap \/ InsertUser
    PROVE  Inv'
<1> USE DEF Inv, TypeOK, Go
<1>1. /\ Quiet /\ svc' \in ServiceType
      /\ svc.pc \in {"migrate", "account"} /\ svc'.pc \in {"account", "key"}
      /\ svc'.fd = svc.fd /\ svc'.secret = svc.secret
      BY DEF WriteBootstrap, InsertUser, ServiceType
<1>2. /\ disk' \in Directory
      /\ disk'.inode = disk.inode /\ disk'.rows = disk.rows /\ disk'.fp = disk.fp
      /\ disk'.pool = disk.pool /\ disk'.key = disk.key /\ disk'.index = disk.index
      /\ disk'.dirty = disk.dirty /\ disk'.secret = disk.secret
      /\ disk'.schema = disk.schema /\ disk'.half = disk.half
  <2>1. CASE WriteBootstrap /\ disk.user = None
    <3>1. disk \in Directory /\ disk' = [disk EXCEPT !.boot = TRUE]
          BY <2>1 DEF WriteBootstrap
    <3> HIDE DEF Inv, TypeOK
    <3> QED BY <3>1 DEF Directory
  <2>3. CASE WriteBootstrap /\ disk.user # None
        BY <2>3 DEF WriteBootstrap
  <2>2. CASE InsertUser
        BY <2>2 DEF InsertUser, Directory
  <2> QED BY <2>1, <2>2, <2>3
<1>3. LockInv' /\ publishing' \in [Inode -> Holders]
      BY <1>1, <1>2, QuietStep DEF ServiceHolds, SharesService, Starting, Quiet, Others
<1>4. DirectoryInv(disk')
      BY <1>2 DEF DirectoryInv, Active
<1>5. /\ svc'.pc = "account" => disk'.user = None /\ disk'.boot
      /\ svc'.pc = "key" => disk'.user # None
      /\ FirstPasswordKnown'
      BY DEF WriteBootstrap, InsertUser, StartInv, FirstPasswordKnown, Directory,
             Quiet, Others, Exported, Serving
<1>6. disk'.schema = SCHEMA_VERSION /\ ~disk'.half
      BY <1>2 DEF WriteBootstrap, InsertUser, StartInv, Exported, Serving
<1>7. StartInv' /\ HandlerInv' /\ SecretInv'
      BY <1>1, <1>2, <1>5, <1>6 DEF StartInv, HandlerInv, Serving, SecretInv, Quiet,
                                    Others, Exported
<1> QED BY <1>1, <1>2, <1>3, <1>4, <1>5, <1>7, ServiceStep
        DEF Quiet, InodeInv, SharesService, Starting, Others

\* A key is made where there is none, and recorded and exported in any case.
LEMMA KeyStep ==
    ASSUME Inv, ensure_key \/ RecordKey \/ ExportKey
    PROVE  Inv'
<1> USE DEF Inv, TypeOK, Go
<1>1. /\ Others /\ svc' \in ServiceType
      /\ svc'.fd = svc.fd /\ svc'.secret = svc.secret
      /\ svc.pc \in {"key", "record", "export"}
      /\ svc'.pc = CASE svc.pc = "key" -> "record" [] svc.pc = "record" -> "export"
                     [] svc.pc = "export" -> IF disk.pending THEN "recover" ELSE "reconcile"
  <2>1. CASE ensure_key
        BY <2>1 DEF ensure_key, ServiceType, Quiet
  <2>2. CASE RecordKey
        BY <2>2 DEF RecordKey, ServiceType, Quiet
  <2>3. CASE ExportKey
        BY <2>3 DEF ExportKey, ServiceType
  <2> QED BY <2>1, <2>2, <2>3
<1>2. /\ disk' \in Directory
      /\ disk'.inode = disk.inode /\ disk'.rows = disk.rows /\ disk'.pool = disk.pool
      /\ disk'.index = disk.index /\ disk'.dirty = disk.dirty
      /\ disk'.secret = disk.secret /\ disk'.schema = disk.schema
      /\ disk'.half = disk.half /\ disk'.user = disk.user /\ disk'.boot = disk.boot
  <2>1. CASE ensure_key
        BY <2>1, Chance DEF ensure_key, Directory
  <2>2. CASE RecordKey
        BY <2>2 DEF RecordKey, Directory
  <2>3. CASE ExportKey
        BY <2>3 DEF ExportKey, Directory
  <2> QED BY <2>1, <2>2, <2>3
<1>3. LockInv' /\ publishing' \in [Inode -> Holders]
  <2>1. CASE ensure_key \/ RecordKey
        BY <1>1, <1>2, <2>1, QuietStep
        DEF ensure_key, RecordKey, ServiceHolds, SharesService, Starting, Quiet, Others
  <2>2. CASE ExportKey
        BY <1>1, <1>2, <2>2, DropStep
        DEF ExportKey, ServiceHolds, SharesService, Starting, Others
  <2> QED BY <2>1, <2>2
<1>4. /\ disk'.key # None
      /\ disk.key # None => disk'.key = disk.key
      /\ disk'.fp = IF svc.pc = "record" THEN disk'.key ELSE disk.fp
      /\ disk'.pub = IF svc.pc = "export" THEN disk.fp ELSE disk.pub
      BY <1>1, Chance DEF ensure_key, RecordKey, ExportKey, Directory, StartInv,
                          Exported, Serving
<1>5. DirectoryInv(disk') /\ FirstPasswordKnown'
      BY <1>1, <1>2, <1>4 DEF DirectoryInv, Active, FirstPasswordKnown, Others
<1>6. StartInv' /\ HandlerInv' /\ SecretInv'
      BY <1>1, <1>2, <1>4 DEF StartInv, HandlerInv, Serving, SecretInv, Others, Exported
<1>7. bak.pc \notin BackupHolds
      BY <1>1, HolderIsOne DEF ServiceHolds
<1> QED BY <1>1, <1>2, <1>3, <1>5, <1>6, <1>7, ServiceStep
        DEF InodeInv, SharesService, Starting, Quiet, Others

-----------------------------------------------------------------------------
(* A publish, a recovery, the steps of a handler.                              *)

\* Two directories that differ in packages, index and what is due only.
Alike(d, e) ==
    /\ e \in Directory
    /\ e.schema = d.schema /\ e.half = d.half /\ e.fp = d.fp /\ e.user = d.user
    /\ e.key = d.key /\ e.secret = d.secret /\ e.boot = d.boot /\ e.pub = d.pub
    /\ e.inode = d.inode

\* ... where the second has an index of what the first has on offer.
Listed(d, e) ==
    /\ Alike(d, e)
    /\ e.index = [has |-> Active(d), by |-> d.fp] /\ e.index # None
    /\ Active(e) = Active(d)

\* A publish changes the index and what is due, and no package on offer; so it does
\* when it settles a change of settings, too.
LEMMA PublishedLists ==
    ASSUME NEW d \in Directory, d.fp \in Key
    PROVE  /\ Listed(d, Published(d)) /\ Published(d).rows = d.rows
           /\ Listed(d, [Published(d) EXCEPT !.pending = FALSE])
<1> DEFINE index == [has |-> Active(d), by |-> d.fp]
<1>1. Published(d) = [d EXCEPT !.index = index, !.dirty = FALSE, !.success = TRUE]
      BY DEF Published
<1>2. index \in Index /\ index # None
      BY DEF Index, Active
<1> HIDE DEF index
<1>3. Published(d) \in Directory /\ Published(d).rows = d.rows
      BY <1>1, <1>2 DEF Directory
<1>4. Alike(d, Published(d)) /\ Published(d).index = index
      BY <1>1, <1>3 DEF Alike, Directory
<1> DEFINE e == Published(d)
           settled == [e EXCEPT !.pending = FALSE]
<1> HIDE DEF e
<1>5. e \in Directory /\ settled \in Directory
      /\ settled.index = e.index /\ settled.rows = e.rows /\ Alike(e, settled)
  <2>1. e \in Directory
        BY <1>3 DEF e
  <2>2. settled \in Directory
        BY <2>1 DEF Directory
  <2> QED BY <2>1, <2>2 DEF Directory, Alike
<1>6. Alike(d, settled) /\ settled.index = index /\ settled.rows = d.rows
      BY <1>3, <1>4, <1>5 DEF Alike, e
<1> QED BY <1>2, <1>3, <1>4, <1>6 DEF Listed, Active, index, e

\* A publish that fails leaves another one due.
LEMMA FailedAlike ==
    ASSUME NEW d \in Directory
    PROVE  /\ Alike(d, Failed(d))
           /\ Failed(d).index = d.index /\ Failed(d).dirty
           /\ Active(Failed(d)) = Active(d)
BY DEF Failed, Alike, Active, Directory

\* Other rows and another pool make a directory of a directory.
LEMMA NewContents ==
    ASSUME NEW d \in Directory, NEW pool \in SUBSET Package,
           NEW rows \in [Package -> {"none", "active", "pending_delete"}]
    PROVE  [d EXCEPT !.rows = rows, !.pool = pool] \in Directory
BY DEF Directory

\* Finishing deletes changes no package on offer.
LEMMA FinishedAlike ==
    ASSUME NEW d \in Directory
    PROVE  /\ Alike(d, Finished(d))
           /\ Finished(d).index = d.index /\ Finished(d).dirty = d.dirty
           /\ Active(Finished(d)) = Active(d)
<1>1. CASE d.dirty \/ ~d.success
      BY <1>1 DEF Alike, Finished, Active
<1>2. CASE ~(d.dirty \/ ~d.success)
  <2> DEFINE kept == [p \in Package |-> IF p \in Pending(d) THEN "none" ELSE d.rows[p]]
  <2>1. Finished(d) = [d EXCEPT !.rows = kept, !.pool = d.pool \ Pending(d)]
        BY <1>2 DEF Finished, Directory
  <2>2. kept \in [Package -> {"none", "active", "pending_delete"}]
        BY DEF Directory
  <2>3. \A p \in Package : kept[p] = "active" <=> d.rows[p] = "active"
        BY DEF Directory, Pending
  <2> HIDE DEF kept
  <2>4. Finished(d) \in Directory /\ Finished(d).rows = kept
    <3>1. d.pool \ Pending(d) \in SUBSET Package
          BY DEF Directory
    <3>2. Finished(d) \in Directory
      <4>1. [d EXCEPT !.rows = kept, !.pool = d.pool \ Pending(d)] \in Directory
            BY <2>2, <3>1, NewContents, Zenon
      <4> QED BY <2>1, <4>1, Zenon
    <3>3. Finished(d).rows = kept
          BY <2>1 DEF Directory
    <3> QED BY <3>2, <3>3
  <2>5. Active(Finished(d)) = Active(d)
        BY <2>3, <2>4 DEF Active
  <2> QED BY <2>1, <2>4, <2>5 DEF Alike, Directory
<1> QED BY <1>1, <1>2

\* So they leave listed what is.
LEMMA FinishedLists ==
    ASSUME NEW d \in Directory, NEW e \in Directory, Listed(d, e)
    PROVE  Listed(d, Finished(e))
BY FinishedAlike DEF Listed, Alike

\* Quarantine takes away files that no row names.
LEMMA QuarantinedAlike ==
    ASSUME NEW d \in Directory
    PROVE  /\ Alike(d, Quarantined(d))
           /\ Quarantined(d).index = d.index
           /\ d.dirty => Quarantined(d).dirty
           /\ Active(Quarantined(d)) = Active(d)
<1> DEFINE orphans == {p \in d.pool : d.rows[p] = "none"}
<1>1. Quarantined(d) = [d EXCEPT !.pool = d.pool \ orphans,
                                 !.dirty = d.dirty \/ orphans # {}]
      BY DEF Quarantined, Directory
<1> HIDE DEF orphans
<1>2. (d.dirty \/ orphans # {}) \in BOOLEAN /\ d.pool \ orphans \in SUBSET Package
      BY DEF Directory
<1>3. Quarantined(d) \in Directory /\ Quarantined(d).rows = d.rows
  <2>1. Quarantined(d) \in Directory
        BY <1>1, <1>2 DEF Directory
  <2>2. Quarantined(d).rows = d.rows
        BY <1>1 DEF Directory
  <2> QED BY <2>1, <2>2
<1> QED BY <1>1, <1>3 DEF Alike, Active, Directory

\* What all the steps of this section owe: in a service whose key is exported, a
\* directory that is alike and whose index, if nothing is due, lists what is on offer.
LEMMA WorkStep ==
    ASSUME Inv, Others, svc.pc \in Exported, svc'.pc \in Exported,
           svc' \in ServiceType, svc'.fd = svc.fd, svc'.secret = svc.secret,
           Alike(disk, disk'), DirectoryInv(disk'),
           svc'.pc \in Serving => disk'.dirty \/ disk'.index # None,
           LockInv', publishing' \in [Inode -> Holders], bak.pc \notin BackupHolds,
           HandlerInv'
    PROVE  Inv'
<1> USE DEF Inv, TypeOK
<1>1. FirstPasswordKnown'
      BY DEF Alike, FirstPasswordKnown, Others
<1>2. /\ svc.pc \notin Starting \cup {"version", "account"}
      /\ svc'.pc \notin Starting \cup {"version", "account"}
      BY DEF Exported, Serving, Starting
<1>3. StartInv'
      BY <1>2 DEF Alike, StartInv, Starting, Exported, Serving
<1>4. SecretInv'
      BY <1>2 DEF Alike, SecretInv, Starting, Others
<1> QED BY <1>1, <1>2, <1>3, <1>4, ServiceStep
        DEF Alike, InodeInv, SharesService, Others

\* What is so in such a service.
LEMMA ExportedFacts ==
    ASSUME Inv, svc.pc \in Exported
    PROVE  /\ disk \in Directory /\ DirectoryInv(disk)
           /\ disk.fp \in Key /\ disk.fp = disk.key
           /\ svc.pc \in Serving => disk.dirty \/ disk.index # None
<1>1. disk \in Directory /\ disk.key # None /\ disk.fp = disk.key
      BY DEF Inv, TypeOK, StartInv, Exported
<1> QED BY <1>1 DEF Inv, StartInv, Directory

\* The index of a successful publish is good, with the flag or without it.
LEMMA ListedInv ==
    ASSUME NEW e \in Directory, DirectoryInv(disk), disk.fp = disk.key, disk.fp # None,
           Listed(disk, e)
    PROVE  Alike(disk, e) /\ DirectoryInv(e) /\ e.index # None
BY DEF Listed, Alike, DirectoryInv

\* The publish of a pending change of settings at the start, and its settlement.
LEMMA RecoverStep ==
    ASSUME Inv, RecoverSettings \/ SettleSettings
    PROVE  Inv'
<1> USE DEF Go
<1>1. /\ Quiet /\ svc.pc \in {"recover", "settle"} /\ svc'.pc \in {"settle", "reconcile"}
      /\ svc' \in ServiceType /\ svc'.fd = svc.fd /\ svc'.secret = svc.secret
      BY DEF RecoverSettings, SettleSettings, ServiceType, Inv, TypeOK
<1>2. svc.pc \in Exported /\ svc'.pc \in Exported /\ svc'.pc \notin Serving
      BY <1>1 DEF Exported, Serving
<1>3. /\ disk \in Directory /\ DirectoryInv(disk)
      /\ disk.fp \in Key /\ disk.fp = disk.key
      BY <1>2, ExportedFacts
<1>4. Alike(disk, disk') /\ DirectoryInv(disk')
  <2>1. CASE RecoverSettings
    <3>1. disk' = Published(disk) /\ Listed(disk, Published(disk))
          BY <1>3, <2>1, PublishedLists DEF RecoverSettings
    <3> QED BY <1>3, <3>1, ListedInv DEF Listed, Alike
  <2>2. CASE SettleSettings
    <3>1. disk' = [disk EXCEPT !.pending = FALSE]
          BY <2>2 DEF SettleSettings
    <3>2. disk' \in Directory
          BY <1>3, <3>1 DEF Directory
    <3>3. /\ disk'.schema = disk.schema /\ disk'.half = disk.half /\ disk'.fp = disk.fp
          /\ disk'.user = disk.user /\ disk'.key = disk.key /\ disk'.pub = disk.pub
          /\ disk'.secret = disk.secret /\ disk'.boot = disk.boot
          /\ disk'.inode = disk.inode /\ disk'.index = disk.index
          /\ disk'.dirty = disk.dirty /\ disk'.rows = disk.rows
          BY <1>3, <3>1 DEF Directory
    <3> QED BY <1>3, <3>2, <3>3 DEF Alike, DirectoryInv, Active
  <2> QED BY <2>1, <2>2
<1>5. LockInv' /\ publishing' \in [Inode -> Holders]
      BY <1>1, <1>4, QuietStep
      DEF Quiet, Others, Alike, ServiceHolds, SharesService, Starting
<1>6. bak.pc \in BackupHolds => disk'.rows = disk.rows /\ disk'.pool = disk.pool
  <2>1. CASE RecoverSettings
        BY <2>1, HolderIsOne DEF RecoverSettings
  <2>2. CASE SettleSettings
        BY <1>3, <2>2 DEF SettleSettings, Directory
  <2> QED BY <2>1, <2>2
<1>7. HandlerInv'
      BY <1>1 DEF HandlerInv
<1>8. StartInv' /\ SecretInv' /\ FirstPasswordKnown'
  <2> USE DEF Inv
  <2>1. StartInv'
        BY <1>1, <1>4 DEF StartInv, Alike, Exported, Serving
  <2>2. SecretInv' /\ FirstPasswordKnown'
        BY <1>1, <1>4 DEF SecretInv, FirstPasswordKnown, Alike, Quiet, Others
  <2> QED BY <2>1, <2>2
<1> QED BY <1>1, <1>4, <1>5, <1>6, <1>7, <1>8, ServiceStep
        DEF Alike, Quiet, Others, InodeInv, SharesService, Starting, Inv, TypeOK

\* If that publish fails, the service goes down and a publish is due.
LEMMA RecoveryFailsStep == ASSUME Inv, RecoveryFails PROVE Inv'
<1>1. /\ UNCHANGED <<archive, bak, res, inherited, publishing>> /\ svc' = Down
      /\ raced' = FALSE /\ disk' = Failed(disk) /\ svc.pc = "recover"
      /\ publishing[disk.inode] = None
      BY DEF RecoveryFails, GoDown
<1>2. svc' \in ServiceType /\ svc'.pc = "down"
      BY <1>1 DEF Down, ServiceType
<1>3. Alike(disk, disk') /\ disk'.index = disk.index /\ disk'.dirty
      BY <1>1, FailedAlike DEF Inv, TypeOK
<1>4. LockInv' /\ publishing' \in [Inode -> Holders]
      BY <1>1, <1>2, <1>3, QuietStep DEF Alike, ServiceHolds, SharesService, Starting
<1>5. bak.pc \notin BackupHolds
      BY <1>1, HolderIsOne
<1>6. DirectoryInv(disk') /\ FirstPasswordKnown'
      BY <1>1, <1>3 DEF Inv, Alike, DirectoryInv, FirstPasswordKnown
<1>7. StartInv' /\ HandlerInv' /\ SecretInv'
      BY <1>2 DEF StartInv, HandlerInv, SecretInv, Exported, Serving
<1> QED BY <1>1, <1>2, <1>3, <1>4, <1>5, <1>6, <1>7, ServiceStep
        DEF Inv, TypeOK, Alike, SharesService, Starting

\* Start-up recovery leaves an index, or a publish due.
LEMMA RebuildStep ==
    ASSUME Inv, startup_reconcile
    PROVE  Inv'
<1> USE DEF Go
<1>1. /\ Quiet /\ publishing[disk.inode] = None
      /\ svc' \in ServiceType /\ svc.pc = "reconcile" /\ svc'.pc = "up"
      /\ svc'.fd = svc.fd /\ svc'.secret = svc.secret
      BY DEF startup_reconcile, ServiceType, Inv, TypeOK
<1>2. svc.pc \in Exported /\ svc'.pc \in Exported
      BY <1>1 DEF Exported, Serving
<1>3. /\ disk \in Directory /\ DirectoryInv(disk)
      /\ disk.fp \in Key /\ disk.fp = disk.key
      BY <1>2, ExportedFacts
<1>4. /\ Alike(disk, disk') /\ DirectoryInv(disk')
      /\ disk'.dirty \/ disk'.index # None
  <2> DEFINE d == Finished(Quarantined(disk))
  <2>1. /\ Alike(disk, d) /\ d.index = disk.index /\ Active(d) = Active(disk)
        /\ disk.dirty => d.dirty
        BY <1>3, QuarantinedAlike, FinishedAlike DEF Alike
  <2>2. \/ disk' = Published(d)
        \/ disk' = Failed(d)
        \/ disk' = d /\ ~d.dirty /\ d.index # None
        BY DEF startup_reconcile, Rebuilt
  <2> HIDE DEF d
  <2>3. d \in Directory /\ d.fp \in Key /\ d.fp = disk.key /\ d.key = disk.key
        BY <1>3, <2>1 DEF Alike
  <2>4. CASE disk' = Published(d)
    <3>1. Listed(d, disk')
          BY <2>3, <2>4, PublishedLists
    <3>2. Listed(disk, disk')
          BY <1>3, <2>1, <2>3, <3>1 DEF Listed, Alike
    <3> QED BY <1>3, <3>2, ListedInv DEF Listed, Alike
  <2>5. CASE disk' = Failed(d)
        BY <1>3, <2>1, <2>3, <2>5, FailedAlike DEF Alike, DirectoryInv
  <2>6. CASE disk' = d /\ ~d.dirty /\ d.index # None
        BY <1>3, <2>1, <2>6 DEF DirectoryInv, Alike
  <2> QED BY <2>2, <2>4, <2>5, <2>6
<1>5. LockInv' /\ publishing' \in [Inode -> Holders] /\ bak.pc \notin BackupHolds
      BY <1>1, <1>4, QuietStep, HolderIsOne
      DEF Quiet, Others, Alike, ServiceHolds, SharesService, Starting
<1>6. HandlerInv'
      BY <1>1 DEF HandlerInv
<1> QED BY <1>1, <1>2, <1>4, <1>5, <1>6, WorkStep DEF Quiet

\* Whatever begins a publish takes the lock; an upload and a delete set the flag with
\* the row.
LEMMA BeginStep ==
    ASSUME Inv,
           \/ \E p \in Package : BeginUpload(p) \/ BeginDelete(p)
           \/ BeginPublish \/ retry_pending_publish \/ BeginChange
    PROVE  Inv'
<1> USE DEF Go
<1>1. Others /\ Take("service") /\ svc.pc = "up"
      BY DEF BeginUpload, BeginDelete, BeginPublish, retry_pending_publish, BeginChange
<1>2. svc \in ServiceType
      BY DEF Inv, TypeOK, ServiceType
<1>3. /\ svc' \in ServiceType /\ svc'.fd = svc.fd /\ svc'.secret = svc.secret
      /\ svc'.pc \in {"placed", "publish", "retry", "change"}
      /\ svc'.pc = "placed" => svc'.package \in Package
  <2>1. CASE \E p \in Package : BeginUpload(p) \/ BeginDelete(p)
        BY <1>2, <2>1 DEF BeginUpload, BeginDelete, ServiceType
  <2>2. CASE BeginPublish \/ retry_pending_publish \/ BeginChange
        BY <1>2, <2>2 DEF BeginPublish, retry_pending_publish, BeginChange, ServiceType
  <2> QED BY <2>1, <2>2
<1>4. svc.pc \in Exported /\ svc'.pc \in Exported /\ svc.pc \in Serving
      BY <1>1, <1>3 DEF Exported, Serving
<1>5. disk \in Directory /\ DirectoryInv(disk) /\ (disk.dirty \/ disk.index # None)
      BY <1>4, ExportedFacts
<1>6. /\ Alike(disk, disk') /\ disk'.index = disk.index
      /\ disk'.dirty \/ (disk'.dirty = disk.dirty /\ disk'.rows = disk.rows)
  <2>1. ASSUME NEW p \in Package, BeginUpload(p)
        PROVE  /\ Alike(disk, disk') /\ disk'.index = disk.index
               /\ disk'.dirty = disk.dirty /\ disk'.rows = disk.rows
    <3>1. disk' = [disk EXCEPT !.pool = @ \cup {p}]
          BY <2>1 DEF BeginUpload
    <3> QED BY <1>5, <3>1 DEF Alike, Directory
  <2>2. ASSUME NEW p \in Package, BeginDelete(p)
        PROVE  Alike(disk, disk') /\ disk'.index = disk.index /\ disk'.dirty
    <3>1. disk' = [disk EXCEPT !.rows[p] = "pending_delete", !.dirty = TRUE,
                               !.success = FALSE]
          BY <2>2 DEF BeginDelete
    <3> QED BY <1>5, <3>1 DEF Alike, Directory
  <2>3. CASE BeginPublish \/ retry_pending_publish \/ BeginChange
    <3>1. \/ disk' = [disk EXCEPT !.success = FALSE]
          \/ disk' = [disk EXCEPT !.pending = TRUE, !.success = FALSE]
          BY <2>3 DEF BeginPublish, retry_pending_publish, BeginChange
    <3>2. CASE disk' = [disk EXCEPT !.success = FALSE]
          BY <1>5, <3>2 DEF Alike, Directory
    <3>3. CASE disk' = [disk EXCEPT !.pending = TRUE, !.success = FALSE]
          BY <1>5, <3>3 DEF Alike, Directory
    <3> QED BY <3>1, <3>2, <3>3
  <2> QED BY <2>1, <2>2, <2>3
<1>7. DirectoryInv(disk')
      BY <1>5, <1>6 DEF Alike, DirectoryInv, Active
<1>8. LockInv' /\ publishing' \in [Inode -> Holders] /\ bak.pc \notin BackupHolds
      BY <1>1, <1>3, <1>6, TakeStep DEF Alike, ServiceHolds, SharesService, Starting
<1>9. HandlerInv'
      BY <1>3 DEF HandlerInv
<1> QED BY <1>1, <1>3, <1>4, <1>5, <1>6, <1>7, <1>8, <1>9, WorkStep

\* The end of an upload or a delete: the service is up and the lock is free.
LEMMA EndOfHandlerType ==
    ASSUME svc \in ServiceType, EndOfHandler
    PROVE  /\ svc' \in ServiceType /\ svc'.fd = svc.fd /\ svc'.secret = svc.secret
           /\ svc'.pc = "up" /\ publishing' = Drop("service")
BY DEF EndOfHandler, ServiceType

\* An upload's row, and the publish of a handler.
LEMMA HandlerPublishStep ==
    ASSUME Inv, InsertRow \/ Publish \/ Retry \/ SaveSettings \/ PublishFails
    PROVE  Inv'
<1> USE DEF Go
<1>1. svc.pc \in {"placed", "publish", "retry", "change"} /\ Others
      BY DEF InsertRow, Publish, Retry, SaveSettings, PublishFails, Quiet
<1>2. svc.pc \in Exported /\ svc.pc \in Serving /\ svc \in ServiceType
      BY <1>1 DEF Exported, Serving, Inv, TypeOK, ServiceType
<1>3. /\ disk \in Directory /\ DirectoryInv(disk)
      /\ disk.fp \in Key /\ disk.fp = disk.key
      BY <1>2, ExportedFacts
<1>4. /\ Alike(disk, disk') /\ DirectoryInv(disk') /\ (disk'.dirty \/ disk'.index # None)
      /\ Publish /\ svc.package # None => disk'.rows = disk.rows
  <2>1. CASE InsertRow
    <3>1. disk' = [disk EXCEPT !.rows[svc.package] = "active", !.dirty = TRUE,
                               !.success = FALSE]
          BY <2>1 DEF InsertRow
    <3>2. Alike(disk, disk') /\ disk'.index = disk.index /\ disk'.dirty
          BY <1>3, <3>1 DEF Alike, Directory
    <3>3. ~Publish
          BY <2>1 DEF InsertRow, Publish
    <3> QED BY <1>3, <3>2, <3>3 DEF Alike, DirectoryInv
  <2>2. CASE Publish \/ Retry \/ SaveSettings
    <3> DEFINE settled == [Published(disk) EXCEPT !.pending = FALSE]
    <3>1. /\ Listed(disk, Published(disk)) /\ Published(disk).rows = disk.rows
          /\ Listed(disk, settled)
          BY <1>3, PublishedLists
    <3>2. \/ /\ disk' = Finished(Published(disk)) /\ svc.pc = "publish"
             /\ svc.package = None
          \/ disk' = Published(disk)
          \/ /\ disk' = Finished(settled) \/ disk' = settled
             /\ svc.pc \in {"retry", "change"}
          BY <2>2 DEF Publish, Retry, SaveSettings
    <3> HIDE DEF settled
    <3>3. Listed(disk, disk')
          BY <1>3, <3>1, <3>2, FinishedLists DEF Listed, Alike
    <3>4. Publish /\ svc.package # None => disk'.rows = disk.rows
          BY <3>1, <3>2 DEF Publish
    <3> QED BY <1>3, <3>3, <3>4, ListedInv DEF Listed, Alike
  <2>3. CASE PublishFails
    <3>1. disk' = Failed(disk)
          BY <2>3 DEF PublishFails
    <3>2. Alike(disk, disk') /\ disk'.index = disk.index /\ disk'.dirty
          BY <1>3, <3>1, FailedAlike
    <3>3. ~Publish \/ disk'.rows = disk.rows
          BY <1>3, <3>1 DEF Failed, Directory
    <3> QED BY <1>3, <3>2, <3>3 DEF Alike, DirectoryInv
  <2> QED BY <2>1, <2>2, <2>3
<1>5. /\ svc' \in ServiceType /\ svc'.fd = svc.fd /\ svc'.secret = svc.secret
      /\ \/ svc'.pc = "publish" /\ UNCHANGED publishing
         \/ /\ svc'.pc = "unlink" /\ svc'.package \in Package
            /\ disk'.rows[svc'.package] # "active"
            /\ UNCHANGED publishing
         \/ svc'.pc = "up" /\ publishing' = Drop("service")
  <2>1. CASE InsertRow
        BY <1>2, <2>1 DEF InsertRow, ServiceType, Quiet
  <2>2. CASE EndOfHandler
        BY <1>2, <2>2, EndOfHandlerType
  <2>3. CASE Publish /\ svc.package # None /\ disk.rows[svc.package] # "active"
    <3>1. svc' = [svc EXCEPT !.pc = "unlink"] /\ UNCHANGED publishing
          BY <2>3 DEF Publish
    <3>2. svc.package \in Package
          BY <1>2, <2>3 DEF ServiceType
    <3> QED BY <1>2, <1>4, <2>3, <3>1, <3>2 DEF ServiceType
  <2> QED BY <2>1, <2>2, <2>3 DEF Publish, Retry, SaveSettings, PublishFails
<1>6. LockInv' /\ publishing' \in [Inode -> Holders]
  <2>1. CASE UNCHANGED publishing /\ svc'.pc \in {"publish", "unlink"}
        BY <1>1, <1>4, <2>1, QuietStep
        DEF Alike, Others, ServiceHolds, SharesService, Starting
  <2>2. CASE publishing' = Drop("service") /\ svc'.pc = "up"
        BY <1>1, <1>4, <2>2, DropStep
        DEF Alike, Others, ServiceHolds, SharesService, Starting
  <2> QED BY <1>5, <2>1, <2>2
<1>7. bak.pc \notin BackupHolds
      BY <1>1, HolderIsOne DEF ServiceHolds
<1>8. svc'.pc \in Exported /\ HandlerInv'
      BY <1>5 DEF Exported, Serving, HandlerInv
<1> QED BY <1>1, <1>2, <1>4, <1>5, <1>6, <1>7, <1>8, WorkStep

\* The file and the row of a package that is not on offer.
LEMMA RemoveStep ==
    ASSUME Inv, Unlink \/ DropRow
    PROVE  Inv'
<1> USE DEF Inv, TypeOK, Go
<1>1. /\ Others /\ svc.pc \in {"unlink", "drop"}
      /\ \/ svc.pc = "unlink" /\ svc' = [svc EXCEPT !.pc = "drop"] /\ UNCHANGED publishing
         \/ /\ svc' = [svc EXCEPT !.pc = "up", !.package = None]
            /\ publishing' = Drop("service")
      BY DEF Unlink, DropRow, EndOfHandler, Quiet
<1>2. svc.package \in Package /\ disk.rows[svc.package] # "active"
      BY <1>1 DEF HandlerInv
<1>3. /\ svc' \in ServiceType /\ svc'.pc \in {"drop", "up"}
      /\ svc'.fd = svc.fd /\ svc'.secret = svc.secret
      /\ svc'.pc = "drop" => svc'.package = svc.package /\ svc.pc = "unlink"
  <2>1. CASE svc.pc = "unlink" /\ svc' = [svc EXCEPT !.pc = "drop"]
        BY <2>1 DEF ServiceType
  <2>2. CASE svc' = [svc EXCEPT !.pc = "up", !.package = None]
        BY <2>2 DEF ServiceType
  <2> QED BY <1>1, <2>1, <2>2
<1>4. /\ Alike(disk, disk') /\ disk'.index = disk.index /\ disk'.dirty = disk.dirty
      /\ Active(disk') = Active(disk)
      /\ svc.pc = "unlink" => disk'.rows = disk.rows
  <2>1. CASE Unlink
        BY <2>1 DEF Unlink, Alike, Directory, Active
  <2>2. CASE DropRow
    <3>1. disk' = [disk EXCEPT !.rows[svc.package] = "none"] /\ svc.pc = "drop"
          BY <2>2 DEF DropRow
    <3>2. Alike(disk, disk') /\ disk'.index = disk.index /\ disk'.dirty = disk.dirty
          BY <3>1 DEF Alike, Directory
    <3>3. \A p \in Package : disk'.rows[p] = "active" <=> disk.rows[p] = "active"
          BY <1>2, <3>1 DEF Directory
    <3> QED BY <3>1, <3>2, <3>3 DEF Active
  <2> QED BY <2>1, <2>2
<1>5. LockInv' /\ publishing' \in [Inode -> Holders]
  <2>1. CASE UNCHANGED publishing /\ svc'.pc = "drop"
        BY <1>1, <1>4, <2>1, QuietStep
        DEF Alike, Quiet, ServiceHolds, SharesService, Starting, Others
  <2>2. CASE publishing' = Drop("service") /\ svc'.pc = "up"
        BY <1>1, <1>4, <2>2, DropStep DEF Alike, ServiceHolds, SharesService, Starting,
                                          Quiet, Others
  <2> QED BY <1>1, <2>1, <2>2
<1>6. bak.pc \notin BackupHolds
      BY <1>1, HolderIsOne DEF ServiceHolds
<1>7. DirectoryInv(disk') /\ FirstPasswordKnown'
      BY <1>1, <1>4 DEF Alike, DirectoryInv, FirstPasswordKnown, Others
<1>8. StartInv' /\ HandlerInv' /\ SecretInv'
      BY <1>1, <1>2, <1>3, <1>4
      DEF Alike, StartInv, HandlerInv, Serving, SecretInv, Others, Exported
<1> QED BY <1>1, <1>3, <1>4, <1>5, <1>6, <1>7, <1>8, ServiceStep
        DEF Alike, InodeInv, SharesService, Starting, Quiet, Others

\* Whoever changes the password needs the account, which the start makes first.
LEMMA PasswordStep == ASSUME Inv, change_password PROVE Inv'
<1> USE DEF Inv, TypeOK
<1>1. /\ UNCHANGED <<archive, publishing, svc, bak, res, raced>> /\ inherited' = FALSE
      /\ disk' = [disk EXCEPT !.user = "other", !.boot = FALSE]
      BY DEF change_password
<1>2. /\ disk' \in Directory /\ disk'.user = "other" /\ disk'.inode = disk.inode
      /\ disk'.schema = disk.schema /\ disk'.half = disk.half /\ disk'.fp = disk.fp
      /\ disk'.key = disk.key /\ disk'.secret = disk.secret /\ disk'.pub = disk.pub
      /\ disk'.rows = disk.rows /\ disk'.pool = disk.pool /\ disk'.index = disk.index
      /\ disk'.dirty = disk.dirty
  <2> HIDE DEF Inv
  <2>1. disk \in Directory
        BY DEF Inv
  <2> QED BY <1>1, <2>1 DEF Directory
<1>3. LockInv' /\ publishing' \in [Inode -> Holders]
      BY <1>1, <1>2, QuietStep DEF SharesService
<1>4. DirectoryInv(disk') /\ FirstPasswordKnown'
      BY <1>2 DEF DirectoryInv, Active, FirstPasswordKnown
<1>5. svc.pc # "account"
      BY DEF change_password, StartInv, Exported, Serving
<1>6. StartInv' /\ HandlerInv' /\ SecretInv'
      BY <1>1, <1>2, <1>5 DEF StartInv, HandlerInv, Serving, SecretInv, Exported
<1>7. svc' \in ServiceType /\ raced' \in BOOLEAN /\ inherited' \in BOOLEAN
      BY <1>1 DEF ServiceType
<1>8. SharesService' \/ svc'.pc = "flock" => svc'.fd = disk.inode
      BY <1>1 DEF InodeInv, SharesService
<1> QED BY <1>1, <1>2, <1>3, <1>4, <1>6, <1>7, <1>8, ServiceStep

-----------------------------------------------------------------------------
(* Backup.                                                                     *)

BackupType == [pc : {"idle", "flock", "lock", "snapshot", "archive", "check"},
               fd : Inode \cup {None}, staged : Archive \cup {None}]

WholeArchive(a) ==
    /\ a \in Archive
    /\ Active(a) \subseteq a.pool
    /\ a.fp \in {None, a.key}

\* What a step of a backup may do that leaves the service and restores alone.
LEMMA BackupStep ==
    ASSUME Inv, RestOfBackup, bak' \in BackupType, publishing' \in [Inode -> Holders],
           archive' = archive \/ WholeArchive(archive'),
           bak'.pc # "idle" => bak'.fd = disk.inode,
           LockInv', BackupInv'
    PROVE  Inv'
<1>1. TypeOK'
      BY DEF Inv, TypeOK, RestOfBackup, BackupType, Holders, WholeArchive
<1>2. InodeInv' /\ StartInv' /\ HandlerInv' /\ SecretInv'
      BY DEF Inv, InodeInv, StartInv, HandlerInv, SecretInv, RestOfBackup, SharesService
<1>3. RestoreInv'
      BY DEF Inv, RestoreInv, RestOfBackup, WholeArchive, DirectoryInv, Active
<1>4. BackupWhole'
      BY DEF Inv, BackupWhole, WholeArchive, Active
<1>5. DirectoryInv(disk)' /\ FirstPasswordKnown'
      BY DEF Inv, DirectoryInv, Active, FirstPasswordKnown, RestOfBackup
<1> QED BY <1>1, <1>2, <1>3, <1>4, <1>5 DEF Inv

\* The end of a backup, whether it succeeded or not, gives publish.lock back.
LEMMA BackupEndStep ==
    ASSUME Inv, RestOfBackup, bak' = Idle, publishing' = Drop("backup"),
           archive' = archive \/ WholeArchive(archive')
    PROVE  Inv'
<1>1. bak' \in BackupType /\ bak'.pc = "idle"
      BY DEF Idle, BackupType
<1>2. /\ publishing' \in [Inode -> Holders]
      /\ publishing'[disk.inode]
            = IF publishing[disk.inode] = "backup" THEN None ELSE publishing[disk.inode]
      BY DropType DEF Inv
<1>3. LockInv'
      BY <1>1, <1>2 DEF Inv, LockInv, RestOfBackup, Publishes, SharesBackup, SharesService,
                        Excludes, BackupHolds
<1>4. BackupInv'
      BY <1>1 DEF BackupInv
<1> QED BY <1>1, <1>2, <1>3, <1>4, BackupStep

\* What a backup packs while it holds publish.lock is whole.
LEMMA PackedWhole ==
    ASSUME NEW d \in Directory, DirectoryInv(d)
    PROVE  /\ Packed(d) \in Archive
           /\ Packed(d).rows = d.rows /\ Packed(d).fp = d.fp
BY DEF Packed, Archive, Directory

\* A backup that begins and takes its locks keeps the invariant.
LEMMA BackupLockStep ==
    ASSUME Inv, BeginBackup \/ ShareService \/ LockPublish
    PROVE  Inv'
<1> USE DEF Inv, TypeOK, BackupGo
<1>1. RestOfBackup /\ archive' = archive /\ disk.inode \in Inode
      BY DEF BeginBackup, ShareService, LockPublish, Directory
<1>2. /\ bak' \in BackupType /\ bak'.fd = disk.inode
      /\ bak'.pc \in {"flock", "lock", "snapshot"}
      BY <1>1 DEF BeginBackup, ShareService, LockPublish, BackupType, InodeInv
<1>3. LockInv' /\ publishing' \in [Inode -> Holders]
  <2>1. CASE BeginBackup
        BY <2>1 DEF BeginBackup, RestOfBackup, LockInv, Publishes, SharesBackup,
                    SharesService, Excludes, BackupHolds, Holders
  <2>2. CASE ShareService
        BY <2>2 DEF ShareService, RestOfBackup, LockInv, InodeInv, SharedFree, Publishes,
                    SharesBackup, SharesService, Excludes, BackupHolds, Holders
  <2>3. CASE LockPublish
    <3>1. /\ publishing' \in [Inode -> Holders]
          /\ publishing'[disk.inode] = "backup" /\ publishing[disk.inode] = None
          BY <2>3, TakeType DEF LockPublish, Take
    <3>2. bak.pc = "lock" /\ bak'.pc = "snapshot"
          BY <2>3 DEF LockPublish
    <3> QED BY <1>1, <3>1, <3>2 DEF RestOfBackup, LockInv, Publishes, SharesBackup,
                                    SharesService, Excludes, BackupHolds
  <2> QED BY <2>1, <2>2, <2>3
<1>4. BackupInv'
      BY <1>2 DEF BackupInv
<1> QED BY <1>1, <1>2, <1>3, <1>4, BackupStep

\* Under publish.lock, the rows and the files stay as they are.
LEMMA BackupWorkStep ==
    ASSUME Inv, Snapshot \/ ArchiveFiles \/ CheckFiles \/ BackupDies
    PROVE  Inv'
<1> USE DEF Inv, TypeOK
<1>1. CASE BackupFails
      BY <1>1, BackupEndStep DEF BackupFails
<1>2. CASE CheckFiles /\ Active(bak.staged) \subseteq disk.pool
  <2>1. /\ archive' = bak.staged /\ bak' = Idle /\ publishing' = Drop("backup")
        /\ RestOfBackup /\ bak.pc = "check"
        BY <1>2 DEF CheckFiles
  <2>2. WholeArchive(bak.staged)
        BY <1>2, <2>1 DEF BackupInv, WholeArchive, DirectoryInv
  <2> QED BY <2>1, <2>2, BackupEndStep
<1>3. CASE Snapshot /\ ~BackupFails
  <2>1. /\ bak' = [pc |-> "archive", fd |-> bak.fd, staged |-> Packed(disk)]
        /\ UNCHANGED <<archive, publishing>> /\ RestOfBackup /\ bak.pc = "snapshot"
        BY <1>3 DEF Snapshot, BackupGo
  <2>2. bak' \in BackupType /\ bak'.fd = disk.inode
        BY <2>1, PackedWhole DEF BackupType, InodeInv
  <2>3. LockInv' /\ publishing' \in [Inode -> Holders]
        BY <2>1 DEF LockInv, RestOfBackup, Publishes, SharesBackup, SharesService, Excludes,
                    BackupHolds, Holders
  <2>4. BackupInv'
        BY <2>1, PackedWhole DEF BackupInv, RestOfBackup
  <2> QED BY <2>1, <2>2, <2>3, <2>4, BackupStep
<1>4. CASE ArchiveFiles /\ ~BackupFails
  <2> DEFINE a == [bak.staged EXCEPT !.pool = disk.pool, !.key = disk.key,
                                     !.secret = disk.secret]
  <2>1. /\ bak' = [pc |-> "check", fd |-> bak.fd, staged |-> a]
        /\ UNCHANGED <<archive, publishing>> /\ RestOfBackup /\ bak.pc = "archive"
        BY <1>4 DEF ArchiveFiles, BackupGo
  <2>2. bak.staged \in Archive /\ disk \in Directory
        BY <2>1 DEF BackupInv
  <2>3. /\ a \in Archive /\ a.rows = bak.staged.rows /\ a.fp = bak.staged.fp
        /\ a.pool = disk.pool /\ a.key = disk.key
    <3> HIDE DEF Inv
    <3> QED BY <2>2 DEF Archive, Directory
  <2> HIDE DEF a
  <2>4. bak' \in BackupType /\ bak'.fd = disk.inode
        BY <2>1, <2>3 DEF BackupType, InodeInv
  <2>5. LockInv' /\ publishing' \in [Inode -> Holders]
        BY <2>1 DEF LockInv, RestOfBackup, Publishes, SharesBackup, SharesService, Excludes,
                    BackupHolds, Holders
  <2>6. BackupInv'
        BY <2>1, <2>3 DEF BackupInv, RestOfBackup
  <2> QED BY <2>1, <2>4, <2>5, <2>6, BackupStep
<1> QED BY <1>1, <1>2, <1>3, <1>4 DEF CheckFiles, BackupDies

-----------------------------------------------------------------------------
(* Restore.                                                                    *)

RestoreType == [pc : {"idle", "extract", "link", "exchange", "exchanged"},
                fd : Inode \cup {None}, staged : Directory \cup {None}]

\* A step that leaves the directory at the path alone.
LEMMA RestoreStep ==
    ASSUME Inv, RestOfRestore, UNCHANGED <<disk, raced, inherited>>,
           res' \in RestoreType, publishing' \in [Inode -> Holders],
           res'.pc # "idle" => res'.fd = disk.inode,
           res'.pc = "exchange" => res'.staged.inode = disk.inode,
           LockInv', RestoreInv'
    PROVE  Inv'
<1>1. TypeOK'
      BY DEF Inv, TypeOK, RestOfRestore, RestoreType, Holders
<1>2. InodeInv' /\ BackupInv' /\ StartInv' /\ HandlerInv' /\ SecretInv'
      BY DEF Inv, InodeInv, BackupInv, StartInv, HandlerInv, SecretInv, RestOfRestore,
             SharesService
<1>3. BackupWhole' /\ DirectoryInv(disk)' /\ FirstPasswordKnown'
      BY DEF Inv, BackupWhole, DirectoryInv, Active, FirstPasswordKnown, RestOfRestore
<1> QED BY <1>1, <1>2, <1>3 DEF Inv, RestOfRestore

\* A restore that gives up keeps the invariant.
LEMMA RestoreFailsStep == ASSUME Inv, RestoreFails PROVE Inv'
<1>1. res' \in RestoreType /\ res'.pc = "idle"
      BY DEF RestoreFails, Idle, RestoreType
<1>2. /\ publishing' \in [Inode -> Holders]
      /\ publishing'[disk.inode]
            = IF publishing[disk.inode] = "restore" THEN None ELSE publishing[disk.inode]
      BY DropType DEF Inv, RestoreFails
<1>3. LockInv'
      BY <1>1, <1>2 DEF Inv, LockInv, RestOfRestore, RestoreFails, Publishes, SharesBackup,
                        SharesService, Excludes
<1>4. RestoreInv'
      BY <1>1 DEF RestoreInv, RestoreFails
<1> QED BY <1>1, <1>2, <1>3, <1>4, RestoreStep DEF RestoreFails

\* A restore that takes its locks keeps the invariant.
LEMMA RestoreLockStep ==
    ASSUME Inv, LockAll
    PROVE  Inv'
<1> USE DEF Inv, TypeOK
<1>1. /\ res' = [pc |-> "extract", fd |-> disk.inode, staged |-> None]
      /\ Take("restore") /\ RestOfRestore
      /\ UNCHANGED <<disk, raced, inherited>> /\ res.pc = "idle"
      /\ ExclusiveFree(disk.inode) /\ archive # None /\ disk.inode \in Inode
      BY DEF LockAll, Directory
<1>2. /\ publishing' \in [Inode -> Holders]
      /\ publishing'[disk.inode] = "restore" /\ publishing[disk.inode] = None
      BY <1>1, TakeType DEF Take
<1>3. ~SharesService /\ ~SharesBackup
      BY <1>1 DEF ExclusiveFree, InodeInv, SharesBackup
<1>4. LockInv'
      BY <1>1, <1>2, <1>3 DEF RestOfRestore, LockInv, Publishes, SharesBackup,
                              SharesService, Excludes
<1>5. res' \in RestoreType /\ RestoreInv'
      BY <1>1 DEF RestOfRestore, RestoreType, RestoreInv
<1> QED BY <1>1, <1>2, <1>4, <1>5, RestoreStep

\* A whole archive unpacks to a directory a start can take over.
LEMMA UnpackedWhole ==
    ASSUME NEW a \in Archive, NEW i \in Inode, a.fp \in {None, a.key}
    PROVE  /\ Unpacked(a, i, TRUE) \in Directory
           /\ DirectoryInv(Unpacked(a, i, TRUE))
<1>1. Unpacked(a, i, TRUE) \in Directory
      BY DEF Unpacked, Archive, Directory
<1>2. DirectoryInv(Unpacked(a, i, TRUE))
      BY DEF Unpacked, DirectoryInv, Archive
<1> QED BY <1>1, <1>2

\* What is unpacked is an archive, and it is given the lock files of the path.
LEMMA RestoreWorkStep ==
    ASSUME Inv, Extract \/ LinkLocks
    PROVE  Inv'
<1> USE DEF Inv, TypeOK
<1>1. RestOfRestore
      BY DEF Extract, LinkLocks, RestoreFails
<1>2. CASE Extract /\ RestoreFails
      BY <1>1, <1>2, RestoreFailsStep
<1>3. ASSUME NEW s \in Directory, NEW pc \in {"link", "exchange"}, Excludes,
             res' = [pc |-> pc, fd |-> res.fd, staged |-> s],
             UNCHANGED <<disk, publishing, raced, inherited>>,
             pc = "exchange" => s.inode = disk.inode,
             DirectoryInv(s)
      PROVE  Inv'
  <2>1. res' \in RestoreType /\ res'.fd = disk.inode
        BY <1>3 DEF RestoreType, InodeInv, Excludes
  <2>2. LockInv' /\ publishing' \in [Inode -> Holders]
        BY <1>1, <1>3 DEF RestOfRestore, LockInv, Publishes, SharesBackup, SharesService,
                          Excludes, Holders
  <2>3. RestoreInv'
        BY <1>1, <1>3 DEF RestOfRestore, RestoreInv, Excludes, DirectoryInv, Active
  <2> QED BY <1>1, <1>3, <2>1, <2>2, <2>3, RestoreStep
<1>4. CASE Extract /\ ~RestoreFails
  <2>1. /\ res' = [pc |-> "link", fd |-> res.fd,
                   staged |-> Unpacked(archive, NewInode, TRUE)]
        /\ UNCHANGED <<disk, publishing, raced, inherited>> /\ Excludes /\ archive # None
        BY <1>4 DEF Extract, RestoreGo, Excludes, RestoreInv
  <2>2. archive \in Archive /\ archive.fp \in {None, archive.key}
        BY <2>1 DEF BackupWhole
  <2>3. /\ Unpacked(archive, NewInode, TRUE) \in Directory
        /\ DirectoryInv(Unpacked(archive, NewInode, TRUE))
        BY <2>1, <2>2, Chance, UnpackedWhole
  <2> QED BY <1>3, <2>1, <2>3
<1>5. CASE LinkLocks
  <2> DEFINE s == [res.staged EXCEPT !.inode = disk.inode]
  <2>1. /\ res' = [pc |-> "exchange", fd |-> res.fd, staged |-> s]
        /\ UNCHANGED <<disk, publishing, raced, inherited>> /\ Excludes /\ res.pc = "link"
        BY <1>5 DEF LinkLocks, RestoreGo, Excludes
  <2>2. res.staged \in Directory /\ disk \in Directory /\ DirectoryInv(res.staged)
        BY <2>1 DEF RestoreInv
  <2>3. s \in Directory /\ s.inode = disk.inode /\ DirectoryInv(s)
    <3> HIDE DEF Inv
    <3> QED BY <2>2 DEF Directory, DirectoryInv, Active
  <2> HIDE DEF s
  <2> QED BY <1>3, <2>1, <2>3
<1> QED BY <1>2, <1>4, <1>5

\* The exchange itself: nobody else works in the directory.
LEMMA ExchangeStep == ASSUME Inv, rename_exchange PROVE Inv'
<1> USE DEF Inv, TypeOK
<1>1. /\ RestOfRestore /\ UNCHANGED publishing /\ res.pc = "exchange"
      /\ disk' = res.staged
      /\ res' = [pc |-> "exchanged", fd |-> res.fd, staged |-> None]
      /\ raced' = (raced \/ svc.pc \in {"secret", "open", "flock"})
      /\ inherited' = (res.staged.user = "bootstrap")
      BY DEF rename_exchange, RestoreGo
<1>2. /\ disk' \in Directory /\ DirectoryInv(disk')
      /\ disk'.inode = disk.inode /\ res.fd = disk.inode
      BY <1>1 DEF RestoreInv, InodeInv
<1>3. svc.pc \in Starting /\ bak.pc \in {"idle", "flock"}
      BY <1>1 DEF LockInv, Excludes, SharesService, SharesBackup
<1>4. TypeOK'
      BY <1>1, <1>2 DEF RestOfRestore, InodeInv
<1>5. InodeInv' /\ LockInv'
      BY <1>1, <1>2 DEF RestOfRestore, InodeInv, LockInv, Publishes, SharesBackup,
                        SharesService, Excludes
<1>6. BackupInv' /\ RestoreInv'
      BY <1>1, <1>3 DEF RestOfRestore, BackupInv, RestoreInv
<1>7. StartInv' /\ HandlerInv' /\ SecretInv'
      BY <1>1, <1>3 DEF RestOfRestore, StartInv, HandlerInv, SecretInv, Starting,
                        Serving, Exported
<1>8. BackupWhole' /\ FirstPasswordKnown' /\ DirectoryInv(disk)'
      BY <1>1, <1>2 DEF RestOfRestore, BackupWhole, FirstPasswordKnown, Active, DirectoryInv
<1> QED BY <1>1, <1>4, <1>5, <1>6, <1>7, <1>8 DEF RestOfRestore

-----------------------------------------------------------------------------

\* The invariant holds initially.
LEMMA InitInv == Init => Inv
<1> SUFFICES ASSUME Init PROVE Inv
    OBVIOUS
<1> DEFINE i == CHOOSE j \in Inode : TRUE
           k == CHOOSE j \in Key : TRUE
           s == CHOOSE j \in Secret : TRUE
<1>1. i \in Inode /\ k \in Key /\ s \in Secret
      OBVIOUS
<1> HIDE DEF i, k, s
<1>2. disk = Unpacked(Nothing, i, FALSE) /\ archive \in {None, Older(k, s)}
      BY DEF Init, i, k, s
<1>3. Nothing \in Archive
      BY DEF Nothing, Archive
<1>4. disk \in Directory /\ disk.inode = i
      BY <1>1, <1>2, <1>3 DEF Unpacked, Archive, Directory
<1>5. DirectoryInv(disk) /\ disk.user = None
      BY <1>2 DEF Unpacked, Nothing, DirectoryInv
<1>6. archive # None => archive \in Archive /\ BackupWhole
  <2> DEFINE a == Older(k, s)
  <2>1. a \in Archive /\ Active(a) \subseteq a.pool /\ a.fp = a.key
        BY <1>1 DEF Older, Archive, Active
  <2> QED BY <1>2, <2>1 DEF BackupWhole
<1>7. /\ svc.pc = "down" /\ bak.pc = "idle" /\ res.pc = "idle"
      /\ TypeOK
      BY <1>4, <1>6 DEF Init, TypeOK, Down, Idle
<1>8. publishing[i] = None
      BY <1>1 DEF Init
<1>9. InodeInv /\ LockInv
      BY <1>4, <1>7, <1>8 DEF InodeInv, LockInv, SharesService, SharesBackup, Excludes,
                              Starting, Publishes, ServiceHolds, BackupHolds
<1>10. BackupInv /\ RestoreInv /\ StartInv /\ HandlerInv /\ SecretInv
      BY <1>7 DEF BackupInv, RestoreInv, StartInv, HandlerInv, SecretInv, Serving, Exported
<1> QED BY <1>5, <1>6, <1>7, <1>9, <1>10 DEF Inv, BackupWhole, FirstPasswordKnown

\* The invariant holds in every state.
THEOREM InvAlways == Spec => []Inv
<1>1. Inv /\ [Next]_vars => Inv'
  <2> SUFFICES ASSUME Inv, [Next]_vars PROVE Inv'
      OBVIOUS
  <2>1. CASE Start
        BY <2>1, SecretStep, ServiceLockStep, InitializeStep, MigrateStep, DeathStep,
           AccountStep, KeyStep, RecoverStep, RebuildStep
        DEF Start
  <2>2. CASE Handler
        BY <2>2, HandlerPublishStep, RemoveStep DEF Handler
  <2>3. CASE Request
        BY <2>3, BeginStep, PasswordStep DEF Request
  <2>4. CASE Crash \/ RecoveryFails
        BY <2>4, DeathStep, RecoveryFailsStep
  <2>5. CASE BeginBackup \/ Backup \/ BackupDies
        BY <2>5, BackupLockStep, BackupWorkStep DEF Backup
  <2>6. CASE LockAll \/ Extract \/ LinkLocks
        BY <2>6, RestoreLockStep, RestoreWorkStep
  <2>7. CASE rename_exchange
        BY <2>7, ExchangeStep
  <2>8. CASE RestoreDone \/ RestoreDies
        BY <2>8, RestoreFailsStep DEF RestoreDone, RestoreDies
  <2>9. CASE UNCHANGED vars
        BY <2>9 DEF vars, Inv, TypeOK, InodeInv, LockInv, DirectoryInv, BackupInv,
                    RestoreInv, StartInv, HandlerInv, SecretInv, BackupWhole,
                    FirstPasswordKnown, SharesService, SharesBackup, Excludes, Publishes,
                    Active
  <2> QED BY <2>1, <2>2, <2>3, <2>4, <2>5, <2>6, <2>7, <2>8, <2>9 DEF Next, Restore
<1> QED BY InitInv, <1>1, PTL DEF Spec

\* Variables keep their types.
THEOREM TypeCorrect == Spec => []TypeOK
<1>1. Inv => TypeOK
      BY DEF Inv
<1> QED BY InvAlways, <1>1, PTL

\* Whatever died before, a service that answers serves a whole directory
\* (main.py:25-63, auth.py:53-71, signing.py:81-122).
THEOREM AlwaysServesWhole == Spec => []ServesWhole
<1>1. Inv => ServesWhole
      BY DEF Inv, StartInv, Serving, DirectoryInv, SecretInv, ServesWhole, Exported
<1> QED BY InvAlways, <1>1, PTL

\* A backup at the destination is whole: rows and files, recorded key and key ring
\* fit together (maintenance.py:70-104).
THEOREM BackupAlwaysWhole == Spec => []BackupWhole
<1>1. Inv => BackupWhole
      BY DEF Inv
<1> QED BY InvAlways, <1>1, PTL

\* The first password of an account made here can be read as long as it is in force
\* (auth.py:53-71).
THEOREM FirstPasswordAlwaysKnown == Spec => []FirstPasswordKnown
<1>1. Inv => FirstPasswordKnown
      BY DEF Inv
<1> QED BY InvAlways, <1>1, PTL

\* The directory is exchanged under nobody (maintenance.py:149-187).
THEOREM ExchangeAlwaysOffline == Spec => OfflineExchange
<1>1. Inv /\ [Next]_vars => [rename_exchange => ~SharesService /\ ~SharesBackup]_vars
      BY DEF Inv, LockInv, Excludes, rename_exchange
<1> QED BY InvAlways, <1>1, PTL DEF Spec, OfflineExchange

\* No step but the exchange of the directory replaces a key.
LEMMA KeyKeptStep ==
    ASSUME Inv, Next, disk.key # None, ~rename_exchange
    PROVE  disk'.key = disk.key
<1> disk \in Directory
    BY DEF Inv, TypeOK
<1>1. CASE Launch \/ WriteSecret \/ RunScript \/ SetVersion \/ WriteBootstrap
             \/ InsertUser \/ ensure_key \/ RecordKey \/ ExportKey
  <2>1. CASE Launch \/ WriteSecret
        BY <2>1 DEF Launch, WriteSecret, Directory
  <2>2. CASE RunScript \/ SetVersion
        BY <2>2 DEF RunScript, SetVersion, Directory
  <2>3. CASE WriteBootstrap \/ InsertUser
        BY <2>3 DEF WriteBootstrap, InsertUser, Directory
  <2>4. CASE ensure_key \/ RecordKey \/ ExportKey
        BY <2>4 DEF ensure_key, RecordKey, ExportKey, Directory
  <2> QED BY <1>1, <2>1, <2>2, <2>3, <2>4
<1>2. CASE OpenServiceLock \/ LockService \/ Initialize \/ ScriptFails \/ Crash
      BY <1>2 DEF OpenServiceLock, LockService, Initialize, ScriptFails, Crash, Dies
<1>3. CASE startup_reconcile
  <2> DEFINE d == Finished(Quarantined(disk))
  <2>1. d \in Directory /\ d.key = disk.key
        BY QuarantinedAlike, FinishedAlike DEF Alike
  <2>2. disk' = Published(d) \/ disk' = Failed(d) \/ disk' = d
        BY <1>3 DEF startup_reconcile, Rebuilt
  <2> HIDE DEF d
  <2> QED BY <2>1, <2>2 DEF Published, Failed, Directory
<1>4. CASE RecoverSettings \/ RecoveryFails \/ SettleSettings
      BY <1>4 DEF RecoverSettings, RecoveryFails, SettleSettings, Published, Failed,
                  Directory
<1>5. CASE Handler
  <2>1. CASE InsertRow \/ Unlink
        BY <2>1 DEF InsertRow, Unlink, Directory
  <2>2. CASE Publish \/ Retry \/ SaveSettings
    <3> DEFINE settled == [Published(disk) EXCEPT !.pending = FALSE]
    <3>1. /\ Published(disk) \in Directory /\ Published(disk).key = disk.key
          /\ settled \in Directory /\ settled.key = disk.key
      <4>1. svc.pc \in Exported
            BY <2>2 DEF Publish, Retry, SaveSettings, Exported, Serving
      <4> QED BY <4>1, ExportedFacts, PublishedLists DEF Listed, Alike
    <3>2. \/ disk' \in {Published(disk), settled}
          \/ disk' = Finished(Published(disk))
          \/ disk' = Finished(settled)
          BY <2>2 DEF Publish, Retry, SaveSettings
    <3> HIDE DEF settled
    <3> QED BY <3>1, <3>2, FinishedAlike DEF Alike
  <2>3. CASE PublishFails \/ DropRow
        BY <2>3 DEF PublishFails, Failed, DropRow, Directory
  <2> QED BY <1>5, <2>1, <2>2, <2>3 DEF Handler
<1>6. CASE \E p \in Package : BeginUpload(p) \/ BeginDelete(p)
      BY <1>6 DEF BeginUpload, BeginDelete, Directory
<1>7. CASE change_password \/ BeginPublish \/ retry_pending_publish \/ BeginChange
      BY <1>7 DEF change_password, BeginPublish, retry_pending_publish, BeginChange,
                  Directory
<1>8. CASE BeginBackup \/ Backup \/ BackupDies
      BY <1>8 DEF BeginBackup, Backup, ShareService, LockPublish, Snapshot, ArchiveFiles,
                  CheckFiles, BackupDies, BackupFails, RestOfBackup
<1>9. CASE LockAll \/ Restore \/ RestoreDies
      BY <1>9 DEF Restore, LockAll, Extract, LinkLocks, RestoreDone,
                  RestoreDies, RestoreFails
<1> QED BY <1>1, <1>2, <1>3, <1>4, <1>5, <1>6, <1>7, <1>8, <1>9 DEF Next, Start, Request

\* A key is replaced by a restore only (signing.py:81-122).
THEOREM KeyAlwaysKept == Spec => KeyKept
<1>1. Inv /\ [Next]_vars => [disk.key # None /\ disk'.key # disk.key => rename_exchange]_vars
      BY KeyKeptStep DEF vars
<1> QED BY InvAlways, <1>1, PTL DEF Spec, KeyKept
=============================================================================
