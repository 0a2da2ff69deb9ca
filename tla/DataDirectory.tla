---------------------------- MODULE DataDirectory ----------------------------
(* One data directory and the three programs that work on it: the service,     *)
(* from reading its configuration to serving; backup, which may run beside it; *)
(* restore, which replaces the directory by an archive.  They meet at two lock *)
(* files inside the directory: service.lock, shared by the service and backup  *)
(* and exclusive for restore, and publish.lock.  Every program may die         *)
(* anywhere.  How uploads, deletes and publishes go step by step is            *)
(* Repository; here they have the steps that a copy of the directory can tell. *)
EXTENDS Naturals

CONSTANTS
    Package,     \* by name, version and architecture: one path in the pool
    Key,         \* signing keys
    Secret,      \* values of the file secret-key
    Inode,       \* pairs of lock files
    Empty,       \* a secret-key that was created and not written
    None         \* nothing of the kind

VARIABLES
    disk,        \* the directory at the configured path
    archive,     \* the latest completed backup, or None
    publishing,  \* holder of each publish.lock, or None
    svc,         \* the service: program point and what it remembers
    bak,         \* backup: program point, lock file opened, staged archive
    res,         \* restore: program point, lock file opened, staged directory
    raced,       \* a restore came between the running service's reading its secret
                 \* and its taking service.lock (history)
    inherited    \* the account came with an archive, its password being the
                 \* generated one, and has it still (history)

vars == <<disk, archive, publishing, svc, bak, res, raced, inherited>>

SCHEMA_VERSION == 2

\* What an archive holds: the database (schema, half, fp, user, pending, rows),
\* repo/pool, gnupg and secret-key.  half: a migration script was begun and its
\* version not set.  user: the account, whose password is the one generated for
\* it or another.  pending: app.settings_pending.
Archive == [schema : 0 .. SCHEMA_VERSION, half : BOOLEAN, fp : Key \cup {None},
            user : {None, "bootstrap", "other"}, pending : BOOLEAN,
            rows : [Package -> {"none", "active", "pending_delete"}],
            pool : SUBSET Package, key : Key \cup {None},
            secret : Secret \cup {Empty, None}]

\* A directory has besides: publish_dirty, whether the last publish run succeeded
\* (both of no use in an archive: restore sets the flag, and both follow the next
\* publish), admin-bootstrap.txt, the exported public key, the index with the key
\* that signed it, and the lock files.
Index == [has : SUBSET Package, by : Key]
Directory == [schema : 0 .. SCHEMA_VERSION, half : BOOLEAN, fp : Key \cup {None},
              user : {None, "bootstrap", "other"}, pending : BOOLEAN,
              rows : [Package -> {"none", "active", "pending_delete"}],
              pool : SUBSET Package, key : Key \cup {None},
              secret : Secret \cup {Empty, None},
              dirty : BOOLEAN, success : BOOLEAN, boot : BOOLEAN, pub : Key \cup {None},
              index : Index \cup {None}, inode : Inode]

ASSUME NoneAssumption ==
    /\ None \notin Key \cup Secret \cup Inode \cup Archive \cup Directory \cup Index
    /\ None \notin {"service", "backup", "restore", "bootstrap", "other"}
    /\ Empty \notin Secret \cup {None}
ASSUME ChanceAssumption ==
    /\ \A k \in Key : \E other \in Key : other # k
    /\ \A s \in Secret : \E other \in Secret : other # s
    /\ \A i \in Inode : \E other \in Inode : other # i
    /\ {} \notin {Key, Secret, Inode}

Unpacked(a, i, due) ==
    [schema |-> a.schema, half |-> a.half, fp |-> a.fp, user |-> a.user,
     pending |-> a.pending, rows |-> a.rows,
     pool |-> a.pool, key |-> a.key, secret |-> a.secret, dirty |-> due,
     success |-> FALSE, boot |-> FALSE, pub |-> None, index |-> None, inode |-> i]

Packed(d) ==
    [schema |-> d.schema, half |-> d.half, fp |-> d.fp, user |-> d.user,
     pending |-> d.pending, rows |-> d.rows,
     pool |-> d.pool, key |-> d.key, secret |-> d.secret]

Nothing == [schema |-> 0, half |-> FALSE, fp |-> None, user |-> None, pending |-> FALSE,
            rows |-> [p \in Package |-> "none"],
            pool |-> {}, key |-> None, secret |-> None]

\* A backup of another host, made by a release with the first schema.
Older(k, s) == [schema |-> 1, half |-> FALSE, fp |-> k, user |-> "other",
                pending |-> FALSE, rows |-> [p \in Package |-> "active"],
                pool |-> Package, key |-> k, secret |-> s]

Down == [pc |-> "down", secret |-> None, fd |-> None, package |-> None]
Idle == [pc |-> "idle", fd |-> None, staged |-> None]

\* Values are made by chance: other ones than those in the archive.
NewKey == CHOOSE k \in Key : archive = None \/ archive.key # k
NewSecret == CHOOSE s \in Secret : archive = None \/ archive.secret # s
NewInode == CHOOSE i \in Inode : i # disk.inode

Init ==
    /\ disk = Unpacked(Nothing, CHOOSE i \in Inode : TRUE, FALSE)
    /\ archive \in {None, Older(CHOOSE k \in Key : TRUE, CHOOSE s \in Secret : TRUE)}
    /\ publishing = [i \in Inode |-> None]
    /\ svc = Down
    /\ bak = Idle
    /\ res = Idle
    /\ raced = FALSE
    /\ inherited = FALSE

Active(d) == {p \in Package : d.rows[p] = "active"}

-----------------------------------------------------------------------------
(* Locks.  A process that dies or leaves closes its lock files.                *)

Starting == {"down", "secret", "open", "flock"}
SharesService == svc.pc \notin Starting
SharesBackup == bak.pc \notin {"idle", "flock"}
Excludes == res.pc # "idle"

SharedFree(i) == ~(Excludes /\ res.fd = i)
ExclusiveFree(i) == /\ ~(SharesService /\ svc.fd = i)
                    /\ ~(SharesBackup /\ bak.fd = i)

Publishes(who) == publishing[disk.inode] = who
Drop(who) == [i \in Inode |-> IF publishing[i] = who THEN None ELSE publishing[i]]

Take(who) ==
    /\ publishing[disk.inode] = None
    /\ publishing' = [publishing EXCEPT ![disk.inode] = who]

Go(pc) == svc' = [svc EXCEPT !.pc = pc]
Others == UNCHANGED <<archive, bak, res, raced, inherited>>
Quiet == UNCHANGED publishing /\ Others

GoDown ==
    /\ svc' = Down
    /\ raced' = FALSE
    /\ UNCHANGED <<archive, bak, res, inherited>>

Dies ==
    /\ GoDown
    /\ publishing' = Drop("service")
    /\ UNCHANGED disk

-----------------------------------------------------------------------------
(* The start of the service.  The secret is read or made before any lock.      *)

Launch ==
    /\ svc.pc = "down"
    /\ IF disk.secret = None
       THEN /\ disk' = [disk EXCEPT !.secret = Empty]
            /\ Go("secret")
       ELSE /\ svc' = [svc EXCEPT !.pc = "open", !.secret = disk.secret]
            /\ UNCHANGED disk
    /\ Quiet

\* A restore may have put another directory at the path: the file that is
\* being written went away with the old one.
WriteSecret ==
    /\ svc.pc = "secret"
    /\ disk' = [disk EXCEPT !.secret = IF @ = Empty THEN NewSecret ELSE @]
    /\ svc' = [svc EXCEPT !.pc = "open", !.secret = NewSecret]
    /\ Quiet

OpenServiceLock ==
    /\ svc.pc = "open"
    /\ svc' = [svc EXCEPT !.pc = "flock", !.fd = disk.inode]
    /\ UNCHANGED disk
    /\ Quiet

\* Not blocking: a start during a restore is refused.
LockService ==
    /\ svc.pc = "flock"
    /\ IF SharedFree(svc.fd) THEN Go("initialize") /\ Others ELSE GoDown
    /\ UNCHANGED <<disk, publishing>>

Initialize ==
    /\ svc.pc = "initialize"
    /\ Take("service")
    /\ Go("migrate")
    /\ UNCHANGED disk
    /\ Others

\* The script commits statement by statement.
RunScript ==
    /\ svc.pc = "migrate"
    /\ ~disk.half
    /\ disk.schema < SCHEMA_VERSION
    /\ disk' = [disk EXCEPT !.half = TRUE]
    /\ Go("version")
    /\ Quiet

SetVersion ==
    /\ svc.pc = "version"
    /\ disk' = [disk EXCEPT !.half = FALSE, !.schema = @ + 1]
    /\ Go("migrate")
    /\ Quiet

\* A script that runs a second time finds its first table there.
ScriptFails ==
    /\ svc.pc = "migrate"
    /\ disk.half
    /\ Dies

\* Fault: the account first, its password's file after it.
InsertFirst ==
    /\ svc.pc = "migrate"
    /\ disk.schema = SCHEMA_VERSION /\ ~disk.half
    /\ IF disk.user = None
       THEN /\ disk' = [disk EXCEPT !.user = "bootstrap"]
            /\ Go("account")
       ELSE /\ UNCHANGED disk
            /\ Go("key")
    /\ Quiet

WriteBootstrap ==
    /\ svc.pc = "migrate"
    /\ disk.schema = SCHEMA_VERSION /\ ~disk.half
    /\ IF disk.user = None
       THEN /\ disk' = [disk EXCEPT !.boot = TRUE]
            /\ Go("account")
       ELSE /\ UNCHANGED disk
            /\ Go("key")
    /\ Quiet

InsertUser ==
    /\ svc.pc = "account"
    /\ disk' = [disk EXCEPT !.user = "bootstrap"]
    /\ Go("key")
    /\ Quiet

\* Fault: a key is made unless one is on record.
KeyUnlessRecorded ==
    /\ svc.pc = "key"
    /\ IF disk.fp = None
       THEN disk' = [disk EXCEPT !.key = NewKey]
       ELSE UNCHANGED disk
    /\ Go("record")
    /\ Quiet

\* Fault: a key that is not on record is refused.
RefuseUnrecorded ==
    /\ svc.pc = "key"
    /\ IF disk.key # None /\ disk.fp = None
       THEN Dies
       ELSE /\ disk' = [disk EXCEPT !.key = IF @ = None THEN NewKey ELSE @]
            /\ Go("record")
            /\ Quiet

ensure_key ==
    /\ svc.pc = "key"
    /\ IF disk.key = None
       THEN disk' = [disk EXCEPT !.key = NewKey]
       ELSE UNCHANGED disk
    /\ Go("record")
    /\ Quiet

RecordKey ==
    /\ svc.pc = "record"
    /\ disk' = [disk EXCEPT !.fp = disk.key]
    /\ Go("export")
    /\ Quiet

ExportKey ==
    /\ svc.pc = "export"
    /\ disk' = [disk EXCEPT !.pub = disk.fp]
    /\ publishing' = Drop("service")
    /\ Go(IF disk.pending THEN "recover" ELSE "reconcile")
    /\ Others

Published(d) ==
    [d EXCEPT !.index = [has |-> Active(d), by |-> d.fp],
              !.dirty = FALSE, !.success = TRUE]

Failed(d) == [d EXCEPT !.dirty = TRUE, !.success = FALSE]

\* A change of settings that was cut off, or that could not be undone, is settled
\* first: by a publish under the settings in force.
RecoverSettings ==
    /\ svc.pc = "recover"
    /\ publishing[disk.inode] = None
    /\ disk' = Published(disk)
    /\ Go("settle")
    /\ Quiet

\* The start ends where this publish fails.
RecoveryFails ==
    /\ svc.pc = "recover"
    /\ publishing[disk.inode] = None
    /\ disk' = Failed(disk)
    /\ GoDown
    /\ UNCHANGED publishing

SettleSettings ==
    /\ svc.pc = "settle"
    /\ disk' = [disk EXCEPT !.pending = FALSE]
    /\ Go("reconcile")
    /\ Quiet

Pending(d) == {p \in Package : d.rows[p] = "pending_delete"}

\* _finish_orphaned_pending_deletes: not while a publish is due.
Finished(d) ==
    IF d.dirty \/ ~d.success THEN d
    ELSE [d EXCEPT !.rows = [p \in Package |-> IF p \in Pending(d) THEN "none" ELSE @[p]],
                   !.pool = @ \ Pending(d)]

\* quarantine_orphaned_blobs: files without a row leave the pool.
Quarantined(d) ==
    LET orphans == {p \in d.pool : d.rows[p] = "none"}
    IN [d EXCEPT !.pool = @ \ orphans, !.dirty = @ \/ orphans # {}]

\* The start does not look at the result of this publish.
Rebuilt(d) == {Published(d), Failed(d)}

\* Fault: only a dirty index is rebuilt.
ReconcileIfDirty ==
    /\ svc.pc = "reconcile"
    /\ publishing[disk.inode] = None
    /\ LET d == Finished(Quarantined(disk))
       IN disk' \in IF d.dirty THEN Rebuilt(d) ELSE {d}
    /\ Go("up")
    /\ Quiet

startup_reconcile ==
    /\ svc.pc = "reconcile"
    /\ publishing[disk.inode] = None
    /\ LET d == Finished(Quarantined(disk))
       IN disk' \in IF d.dirty \/ d.index = None \/ ~d.success THEN Rebuilt(d) ELSE {d}
    /\ Go("up")
    /\ Quiet

-----------------------------------------------------------------------------
(* The service at work.                                                        *)

BeginUpload(p) ==
    /\ svc.pc = "up"
    /\ disk.rows[p] = "none"
    /\ Take("service")
    /\ disk' = [disk EXCEPT !.pool = @ \cup {p}]
    /\ svc' = [svc EXCEPT !.pc = "placed", !.package = p]
    /\ Others

InsertRow ==
    /\ svc.pc = "placed"
    /\ disk' = [disk EXCEPT !.rows[svc.package] = "active", !.dirty = TRUE,
                            !.success = FALSE]
    /\ Go("publish")
    /\ Quiet

BeginDelete(p) ==
    /\ svc.pc = "up"
    /\ disk.rows[p] # "none"
    /\ Take("service")
    /\ disk' = [disk EXCEPT !.rows[p] = "pending_delete", !.dirty = TRUE,
                            !.success = FALSE]
    /\ svc' = [svc EXCEPT !.pc = "publish", !.package = p]
    /\ Others

\* A publish on request.
BeginPublish ==
    /\ svc.pc = "up"
    /\ Take("service")
    /\ disk' = [disk EXCEPT !.success = FALSE]
    /\ Go("publish")
    /\ Others

\* The scheduler, when something is left to publish.
retry_pending_publish ==
    /\ svc.pc = "up"
    /\ disk.dirty \/ disk.pending
    /\ Take("service")
    /\ disk' = [disk EXCEPT !.success = FALSE]
    /\ Go("retry")
    /\ Others

\* A change of the repository settings publishes under the candidate.
BeginChange ==
    /\ svc.pc = "up"
    /\ Take("service")
    /\ disk' = [disk EXCEPT !.pending = TRUE, !.success = FALSE]
    /\ Go("change")
    /\ Others

EndOfHandler ==
    /\ svc' = [svc EXCEPT !.pc = "up", !.package = None]
    /\ publishing' = Drop("service")

\* A delete goes on when its publish has succeeded.
Publish ==
    /\ svc.pc = "publish"
    /\ IF svc.package = None
       THEN disk' = Finished(Published(disk)) /\ EndOfHandler
       ELSE /\ disk' = Published(disk)
            /\ IF disk.rows[svc.package] = "active"
               THEN EndOfHandler
               ELSE Go("unlink") /\ UNCHANGED publishing
    /\ Others

Retry ==
    /\ svc.pc = "retry"
    /\ disk' = Finished([Published(disk) EXCEPT !.pending = FALSE])
    /\ EndOfHandler
    /\ Others

\* The candidate is published and saved, or its failure has been undone by a
\* publish under the settings before.
SaveSettings ==
    /\ svc.pc = "change"
    /\ disk' = [Published(disk) EXCEPT !.pending = FALSE]
    /\ EndOfHandler
    /\ Others

\* Fault: the lock is kept.
FailKeepingLock ==
    /\ svc.pc \in {"publish", "retry", "change"}
    /\ disk' = Failed(disk)
    /\ svc' = [svc EXCEPT !.pc = "up", !.package = None]
    /\ Quiet

\* A change of settings whose undoing fails too stays pending.
PublishFails ==
    /\ svc.pc \in {"publish", "retry", "change"}
    /\ disk' = Failed(disk)
    /\ EndOfHandler
    /\ Others

Unlink ==
    /\ svc.pc = "unlink"
    /\ disk' = [disk EXCEPT !.pool = @ \ {svc.package}]
    /\ Go("drop")
    /\ Quiet

DropRow ==
    /\ svc.pc = "drop"
    /\ disk' = [disk EXCEPT !.rows[svc.package] = "none"]
    /\ EndOfHandler
    /\ Others

\* In the browser or, with a database that a service has migrated, by the
\* command line beside or without the service; neither takes a lock.
change_password ==
    /\ disk.schema = SCHEMA_VERSION /\ ~disk.half
    /\ disk.user # None
    /\ disk' = [disk EXCEPT !.user = "other", !.boot = FALSE]
    /\ inherited' = FALSE
    /\ UNCHANGED <<archive, publishing, svc, bak, res, raced>>

\* A kill, or docker stop: the handlers' threads are not waited for.
Crash ==
    /\ svc.pc # "down"
    /\ Dies

Start ==
    \/ Launch \/ WriteSecret \/ OpenServiceLock \/ LockService \/ Initialize
    \/ RunScript \/ SetVersion \/ ScriptFails \/ WriteBootstrap \/ InsertUser
    \/ ensure_key \/ RecordKey \/ ExportKey
    \/ RecoverSettings \/ SettleSettings \/ startup_reconcile

Handler ==
    \/ InsertRow \/ Publish \/ Retry \/ SaveSettings \/ PublishFails
    \/ Unlink \/ DropRow

Request ==
    \/ \E p \in Package : BeginUpload(p) \/ BeginDelete(p)
    \/ BeginPublish \/ retry_pending_publish \/ BeginChange \/ change_password

-----------------------------------------------------------------------------
(* Backup.  Any error ends it and removes what is staged.                      *)

BackupGo(pc, staged) ==
    bak' = [pc |-> pc, fd |-> bak.fd, staged |-> staged]

RestOfBackup == UNCHANGED <<disk, svc, res, raced, inherited>>

BeginBackup ==
    /\ bak.pc = "idle"
    /\ bak' = [pc |-> "flock", fd |-> disk.inode, staged |-> None]
    /\ UNCHANGED <<archive, publishing>>
    /\ RestOfBackup

ShareService ==
    /\ bak.pc = "flock"
    /\ SharedFree(bak.fd)
    /\ BackupGo("lock", None)
    /\ UNCHANGED <<archive, publishing>>
    /\ RestOfBackup

\* Fault: publish.lock is not taken.
LockNothing ==
    /\ bak.pc = "lock"
    /\ BackupGo("snapshot", None)
    /\ UNCHANGED <<archive, publishing>>
    /\ RestOfBackup

LockPublish ==
    /\ bak.pc = "lock"
    /\ Take("backup")
    /\ BackupGo("snapshot", None)
    /\ UNCHANGED archive
    /\ RestOfBackup

BackupFails ==
    /\ bak' = Idle
    /\ publishing' = Drop("backup")
    /\ UNCHANGED archive
    /\ RestOfBackup

\* Without table packages there is nothing to back up; a first script that
\* broke off may have got as far.
Snapshot ==
    /\ bak.pc = "snapshot"
    /\ \/ /\ disk.schema > 0 \/ disk.half
          /\ BackupGo("archive", Packed(disk))
          /\ UNCHANGED <<archive, publishing>>
          /\ RestOfBackup
       \/ /\ disk.schema = 0
          /\ BackupFails

\* repo/pool, gnupg and secret-key as they are now.
ArchiveFiles ==
    /\ bak.pc = "archive"
    /\ IF disk.secret = None
       THEN BackupFails
       ELSE /\ BackupGo("check", [bak.staged EXCEPT !.pool = disk.pool,
                                    !.key = disk.key, !.secret = disk.secret])
            /\ UNCHANGED <<archive, publishing>>
            /\ RestOfBackup

\* The rows of the snapshot against the files of the directory; then the archive
\* is renamed to its destination in one step.
CheckFiles ==
    /\ bak.pc = "check"
    /\ IF Active(bak.staged) \subseteq disk.pool
       THEN /\ archive' = bak.staged
            /\ bak' = Idle
            /\ publishing' = Drop("backup")
            /\ RestOfBackup
       ELSE BackupFails

BackupDies ==
    /\ bak.pc # "idle"
    /\ BackupFails

Backup ==
    \/ ShareService \/ LockPublish \/ Snapshot \/ ArchiveFiles \/ CheckFiles

-----------------------------------------------------------------------------
(* Restore.  Any error removes the staged directory.                           *)

RestoreGo(pc, staged) ==
    res' = [pc |-> pc, fd |-> res.fd, staged |-> staged]

RestOfRestore == UNCHANGED <<archive, svc, bak>>

RestoreFails ==
    /\ res' = Idle
    /\ publishing' = Drop("restore")
    /\ UNCHANGED <<disk, raced, inherited>>
    /\ RestOfRestore

\* Both locks, neither blocking.  Only a restore exchanges the directory: the
\* files that it opened are the ones at the path when it locks them.
LockAll ==
    /\ res.pc = "idle"
    /\ archive # None
    /\ ExclusiveFree(disk.inode)
    /\ Take("restore")
    /\ res' = [pc |-> "extract", fd |-> disk.inode, staged |-> None]
    /\ UNCHANGED <<disk, raced, inherited>>
    /\ RestOfRestore

Restorable(a) == a.secret \notin {None, Empty} /\ Active(a) \subseteq a.pool

\* The database, dirty, and the files, in a fresh directory.
Extract ==
    /\ res.pc = "extract"
    /\ IF Restorable(archive)
       THEN /\ RestoreGo("link", Unpacked(archive, NewInode, TRUE))
            /\ UNCHANGED <<disk, publishing, raced, inherited>>
            /\ RestOfRestore
       ELSE RestoreFails

\* Fault: the new directory gets lock files of its own.
LinkNothing ==
    /\ res.pc = "link"
    /\ RestoreGo("exchange", res.staged)
    /\ UNCHANGED <<disk, publishing, raced, inherited>>
    /\ RestOfRestore

LinkLocks ==
    /\ res.pc = "link"
    /\ RestoreGo("exchange", [res.staged EXCEPT !.inode = disk.inode])
    /\ UNCHANGED <<disk, publishing, raced, inherited>>
    /\ RestOfRestore

rename_exchange ==
    /\ res.pc = "exchange"
    /\ disk' = res.staged
    /\ RestoreGo("exchanged", None)
    /\ raced' = (raced \/ svc.pc \in {"secret", "open", "flock"})
    /\ inherited' = (res.staged.user = "bootstrap")
    /\ UNCHANGED publishing
    /\ RestOfRestore

RestoreDone ==
    /\ res.pc = "exchanged"
    /\ RestoreFails

RestoreDies ==
    /\ res.pc # "idle"
    /\ RestoreFails

Restore == Extract \/ LinkLocks \/ rename_exchange \/ RestoreDone

-----------------------------------------------------------------------------

Fault == Crash \/ RecoveryFails \/ BackupDies \/ LockAll \/ RestoreDies

Next ==
    \/ Start \/ RecoveryFails \/ Handler \/ Request \/ Crash
    \/ BeginBackup \/ Backup \/ BackupDies
    \/ LockAll \/ Restore \/ RestoreDies

Spec == Init /\ [][Next]_vars

Work == Start \/ Handler \/ Backup \/ Restore

\* The supervisor starts a service that is down (restart: unless-stopped), every
\* program goes on, a lock that is free again and again is obtained, and neither
\* deaths nor restores nor starts whose first publish fails go on for ever.
FairSpec ==
    /\ Spec
    /\ WF_vars(Start \/ Handler)
    /\ SF_vars(Initialize \/ RecoverSettings \/ startup_reconcile)
    /\ WF_vars(Backup) /\ SF_vars(LockPublish)
    /\ WF_vars(Restore)
    /\ <>[][Fault => Work]_vars

-----------------------------------------------------------------------------
(* Correctness.                                                                *)

TypeOK ==
    /\ disk \in Directory
    /\ archive \in Archive \cup {None}
    /\ publishing \in [Inode -> {"service", "backup", "restore", None}]
    /\ svc \in [pc : {"down", "secret", "open", "flock", "initialize", "migrate",
                      "version", "account", "key", "record", "export", "recover",
                      "settle", "reconcile", "up", "placed", "publish", "retry",
                      "change", "unlink", "drop"},
               secret : Secret \cup {Empty, None}, fd : Inode \cup {None},
               package : Package \cup {None}]
    /\ bak \in [pc : {"idle", "flock", "lock", "snapshot", "archive", "check"},
               fd : Inode \cup {None}, staged : Archive \cup {None}]
    /\ res \in [pc : {"idle", "extract", "link", "exchange", "exchanged"},
               fd : Inode \cup {None}, staged : Directory \cup {None}]
    /\ raced \in BOOLEAN
    /\ inherited \in BOOLEAN

\* While the service answers, its directory has the whole schema, an account, and
\* one key that is recorded and exported; the index is signed by that key and,
\* unless a rebuild is due, lists the packages on offer -- whatever starts died
\* half way and whatever archive the directory came from.
ServesWhole ==
    svc.pc = "up" =>
        /\ disk.schema = SCHEMA_VERSION /\ ~disk.half
        /\ disk.user # None
        /\ disk.key # None /\ disk.fp = disk.key /\ disk.pub = disk.key
        /\ \/ disk.dirty
           \/ disk.index # None /\ disk.index.by = disk.pub
                               /\ disk.index.has = Active(disk)
        /\ raced \/ svc.secret = disk.secret

\* README, "Only a completed backup appears at the destination": the database and
\* the files of a backup fit together, copied one after the other beside a service
\* at work.  Every package on offer has its file, and a key on record is the one
\* in the key ring.
BackupWhole ==
    archive # None =>
        /\ Active(archive) \subseteq archive.pool
        /\ archive.fp \in {None, archive.key}

\* maintenance.py:149-150: the directory is never exchanged under a service or a
\* backup that works in it, however starts and restores interleave.
OfflineExchange ==
    [][rename_exchange => ~SharesService /\ ~SharesBackup]_vars

\* DESIGN, on keys: rotation is a manual affair with the service stopped.  A key,
\* once made, is replaced by a restore only; a start that died after making it,
\* before recording it, takes it up again.
KeyKept ==
    [][disk.key # None /\ disk'.key # disk.key => rename_exchange]_vars

\* README, "the generated password is written to data/admin-bootstrap.txt": as
\* long as the password of an account made in this directory is the one that was
\* generated for it, the file is there, whatever starts died half way.  (A backup
\* takes the account along and leaves the file, so an account that came with an
\* archive may have a password that is written nowhere.)
FirstPasswordKnown ==
    disk.user = "bootstrap" => disk.boot \/ inherited

\* The service always comes to answer again, unless a migration broke off.  A key
\* half made, a lock that a backup holds, an index that cannot be rebuilt do not
\* keep it down; a pending change of settings does as long as the start's publish
\* fails, which FairSpec takes to end (main.py:56-61).
ServiceReturns == []<>(svc.pc = "up" \/ disk.half)

\* A backup waits for the locks and comes to its end, while uploads, deletes and
\* changes of settings go on.
BackupEnds == []<>(bak.pc = "idle")
=============================================================================
