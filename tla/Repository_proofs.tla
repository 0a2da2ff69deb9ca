-------------------------- MODULE Repository_proofs --------------------------
(* Proofs about Repository: types, and that the published index is servable.   *)
EXTENDS Repository, TLAPS

\* A tree carries what is offered, for some of the architectures.
Carries(t) == t # None /\ \A p \in Package : t[p] \in {Offered[p], Skipped}

\* What has been staged, and then exchanged in, stays what is offered.
StagedInv ==
    /\ pc = "install" => Carries(loc.staged)
    /\ pc = "swap" => Carries(next)
    /\ pc \in {"cleanup", "succeed", "clear"} => Carries(live)

\* The lock, the control point and the holder's job belong together.
HolderInv ==
    /\ lock = None <=> pc = "idle"
    /\ lock # None => job[lock] # None
    /\ \A t \in Client : job[t] # None => job[t].op \in ClientOp
    /\ job[Boot] # None => job[Boot].op = "startup"
    /\ up = "starting" <=> lock = Boot
    /\ up = "down" => lock = None /\ \A t \in Client : job[t] = None
    /\ pc \in {"place", "commit"} => job[lock].op = "upload" /\ job[lock].cfg \in Setting
    /\ pc \in {"finish", "purge", "purge_row"} => job[lock].op # "delete"
    /\ pc \in {"orphan", "move", "boot_scan", "boot_flag", "decide"} => lock = Boot
    /\ pc = "commit" => job[lock].items # <<>>

\* The last run is running while a publish is under way, and after a successful
\* one nothing is dirty.
RunInv ==
    /\ pc \in PublishPoint \cup {"succeed", "fail"} => lastRun = "running"
    /\ pc = "clear" => lastRun = "success"
    /\ pc \in {"unlink", "drop", "undirty", "purge", "purge_row"} =>
          lastRun = "success" /\ ~dirty

\* What the holder still has to visit.
WorklistInv ==
    /\ pc \in {"scan", "boot_scan"} => loc.todo \subseteq RowsIn("active")
    /\ pc \in {"purge", "purge_row"} => loc.todo \subseteq RowsIn("pending_delete")
    /\ pc = "purge_row" => loc.target \in loc.todo
    /\ pc \in {"orphan", "move"} => \A x \in loc.orphans : ~Named(x)
    /\ pc = "move" => loc.blob \in Path /\ ~Named(loc.blob)

\* The row that a delete has marked stays marked until it is dropped.
TargetInv ==
    /\ pc \in {"mark", "flag_delete", "unlink", "drop"} => job[lock].op = "delete"
    /\ pc \notin {"idle", "mark", "undirty"} /\ job[lock].op = "delete"
          => loc.target \in RowsIn("pending_delete")

\* What an upload may assume when its row commits and when it undoes its link.
PlaceInv ==
    /\ pc \in {"place", "idle"} => ~loc.created
    /\ pc = "commit" =>
          /\ Registered(item.pkg) => rows[item.pkg].hash = item.hash
          /\ Stored(dest) => pool[dest] = item.hash
          /\ Stored(dest) \/ dest \in lost
          /\ loc.created /\ Active(item.pkg) /\ FileOf(item.pkg) = dest => dest \in lost
          /\ loc.created /\ Listed(item.pkg) /\ ListedFile(item.pkg) = dest
                => dest \in lost \/ item.pkg \in forgotten \cup moved

\* A listed package has a row with the bytes the index names, until an unannounced
\* delete takes the row away.
ListedInv ==
    \A p \in Package :
        Listed(p) => p \in forgotten \/ (Registered(p) /\ rows[p].hash = live[p].hash)

\* Only a package whose file vanished is marked missing.
MissingInv == \A p \in Package : InState(p, "missing") => FileOf(p) \in lost

\* A listed file goes to quarantine only under the dirty flag, until the next publish.
MovedInv ==
    /\ moved # {} => dirty
    /\ pc = "move" => dirty
    /\ pc \in {"cleanup", "succeed", "clear"} => moved = {}

\* Without the dirty flag the index is what the rows offer.  It may list more only
\* for the reasons named here: a scan has marked the row of a lost file, a delete has
\* marked its row and is about to say so, or it died before it could.
CleanInv ==
    ~dirty /\ lastRun = "success" =>
        /\ live # None
        /\ \A p \in Package : Active(p) => live[p] \in {Offer(p), Skipped}
        /\ \A p \in Package : Listed(p) =>
              \/ Active(p)
              \/ InState(p, "missing") /\ ListedFile(p) = FileOf(p)
              \/ p \in forgotten
              \/ pc = "flag_delete" /\ p = loc.target

Inv ==
    /\ TypeOK
    /\ StagedInv
    /\ HolderInv
    /\ RunInv
    /\ WorklistInv
    /\ TargetInv
    /\ PlaceInv
    /\ ListedInv
    /\ MissingInv
    /\ MovedInv
    /\ CleanInv
    /\ IndexServable
    /\ ActiveStored

-----------------------------------------------------------------------------
(* Types.                                                                      *)

USE MaxIdAssumption, MaxItemsAssumption, NoneAssumption, BootAssumption

\* The files of one upload form a sequence of items.
LEMMA ItemsAreSequences == ASSUME NEW items \in Items PROVE items \in Seq(Item)
BY DEF Items

\* The locals a holder starts and ends with are well typed.
LEMMA NoLocalsType == NoLocals \in Locals
BY DEF NoLocals, Locals

\* An empty data directory is well typed.
LEMMA InitType == Init => TypeOK
<1> SUFFICES ASSUME Init PROVE TypeOK
  OBVIOUS
<1> QED
  BY NoLocalsType DEF Init, TypeOK, Pool, RunStatus, Point, PublishPoint, Process

\* Job builds a job record of the operation it is given.
LEMMA JobType ==
    ASSUME NEW op \in ClientOp \cup {"startup"}, NEW id \in 0 .. MaxId
    PROVE  Job(op, id) \in JobRecord /\ Job(op, id).op = op
<1>1. <<>> \in Seq(Item)
  OBVIOUS
<1> QED
  BY <1>1 DEF Job, JobRecord

\* A request by an idle client keeps the types and the lock's bookkeeping.
LEMMA RequestType ==
    ASSUME TypeOK, HolderInv, NEW t \in Client, NEW j \in JobRecord, j.op \in ClientOp,
           Request(t, j)
    PROVE  TypeOK' /\ HolderInv'
<1>1. TypeOK'
  BY DEF Request, TypeOK, Process, db, disk, history
<1>2. \A u \in Process : u # t => job'[u] = job[u]
  BY DEF Request, TypeOK
<1>3. job'[t] = j /\ t # Boot /\ j # None
  BY DEF Request, TypeOK, Process, Client
<1>4. HolderInv'
  BY <1>2, <1>3 DEF HolderInv, Request, TypeOK, Process, Client
<1> QED
  BY <1>1, <1>4

\* Entering the lock gives an upload its settings and files and changes nothing else
\* of the job.
LEMMA AcquireJob ==
    ASSUME TypeOK, HolderInv, NEW t \in Client, Acquire(t)
    PROVE  /\ job' \in [Process -> JobRecord \cup {None}]
           /\ \A u \in Process : job'[u] # None <=> job[u] # None
           /\ \A u \in Process : job[u] # None => job'[u].op = job[u].op
           /\ job[t].op = "upload" => job'[t].cfg \in Setting
<1>1. t \in Process /\ job[t] \in JobRecord
  BY DEF Acquire, TypeOK, Process
<1>2. CASE job[t].op # "upload"
  BY <1>2 DEF Acquire, TypeOK
<1>3. CASE job[t].op = "upload"
  <2>1. PICK s \in Setting, items \in Items :
          job' = [job EXCEPT ![t].cfg = s, ![t].items = items]
    BY <1>3 DEF Acquire
  <2>2. items \in Seq(Item)
    BY ItemsAreSequences
  <2> DEFINE j == [job[t] EXCEPT !.cfg = s, !.items = items]
  <2>3. j \in JobRecord /\ j.op = job[t].op /\ j.cfg = s
    BY <1>1, <2>2 DEF JobRecord
  <2>4. job' = [job EXCEPT ![t] = j]
    BY <1>1, <2>1 DEF TypeOK
  <2> HIDE DEF j
  <2> QED
    BY <1>1, <2>3, <2>4 DEF TypeOK
<1> QED
  BY <1>2, <1>3

\* While items are left, the first is an item, and going on to the next keeps
\* every job's type, operation and settings.
LEMMA ItemType ==
    ASSUME TypeOK, HolderInv, lock # None, job[lock].items # <<>>
    PROVE  /\ item \in Item /\ item.pkg \in Package /\ item.hash \in Content
           /\ NextItem \in [Process -> JobRecord \cup {None}]
           /\ \A t \in Process : NextItem[t] # None <=> job[t] # None
           /\ \A t \in Process :
                 job[t] # None => NextItem[t].op = job[t].op /\ NextItem[t].cfg = job[t].cfg
<1>1. job[lock] \in JobRecord
  BY DEF TypeOK, HolderInv
<1>2. job[lock].items \in Seq(Item) /\ job[lock].items # <<>>
  BY <1>1 DEF JobRecord
<1>3. item \in Item /\ Tail(job[lock].items) \in Seq(Item)
  BY <1>2 DEF item
<1>4. [job[lock] EXCEPT !.items = Tail(@)] \in JobRecord
  BY <1>1, <1>3 DEF JobRecord
<1>5. NextItem = [job EXCEPT ![lock] = [job[lock] EXCEPT !.items = Tail(@)]]
  BY DEF NextItem
<1> QED
  BY <1>1, <1>3, <1>4, <1>5 DEF TypeOK, JobRecord, Item

\* The path an upload's item goes to is a path of the pool, and of the item's package.
LEMMA DestType ==
    ASSUME TypeOK, HolderInv, pc \in {"place", "commit"}, job[lock].items # <<>>
    PROVE  /\ item.pkg \in Package /\ item.hash \in Content
           /\ cfg.component \in Component
           /\ dest \in Path /\ dest = <<item.pkg, cfg.component>> /\ dest[1] = item.pkg
<1>1. lock # None /\ job[lock].cfg \in Setting
  BY DEF HolderInv
<1>2. item.pkg \in Package /\ item.hash \in Content
  BY <1>1, ItemType
<1>3. cfg.component \in Component
  BY <1>1, SettingAssumption DEF cfg
<1> QED
  BY <1>2, <1>3 DEF dest, Path

\* A row's path, and a stanza's, is a path of its package.
LEMMA FileType ==
    ASSUME TypeOK, NEW p \in Package
    PROVE  /\ Registered(p) => rows[p] \in Row /\ FileOf(p) \in Path
           /\ FileOf(p)[1] = p /\ FileOf(p)[2] = rows[p].dir
           /\ Listed(p) => live[p] \in Stanza /\ ListedFile(p) \in Path
           /\ ListedFile(p)[1] = p /\ ListedFile(p)[2] = live[p].dir
<1>1. Registered(p) => rows[p] \in Row /\ rows[p].dir \in Component
  BY DEF TypeOK, Registered, Row
<1>2. Listed(p) => live[p] \in Stanza /\ live[p].dir \in Component
  BY DEF TypeOK, Listed, Tree, Stanza
<1> QED
  BY <1>1, <1>2 DEF FileOf, ListedFile, Path

\* What removing the file at a path does to the pool.
LEMMA RemoveAt ==
    ASSUME TypeOK, NEW x \in Path, pool' = [pool EXCEPT ![x] = None]
    PROVE  /\ pool' \in Pool /\ ~Stored(x)'
           /\ \A y \in Path : y # x => pool'[y] = pool[y]
BY DEF TypeOK, Pool, Stored

\* What an upload's transaction changes, and what it leaves alone.
LEMMA CommitEffect ==
    ASSUME TypeOK, HolderInv, CommitItem
    PROVE  /\ pc = "commit" /\ pc' = "place" /\ lock # None /\ job[lock].items # <<>>
           /\ item.pkg \in Package /\ item.hash \in Content /\ dest \in Path
           /\ rows' \in [Package -> Row \cup {None}]
           /\ rows'[item.pkg] \in Row
           /\ rows'[item.pkg].hash = item.hash /\ rows'[item.pkg].state = "active"
           /\ <<item.pkg, rows'[item.pkg].dir>> = dest
           /\ \A p \in Package : p # item.pkg => rows'[p] = rows[p]
           /\ lost' = IF Stored(dest) THEN lost \ {dest} ELSE lost
           /\ ~loc'.created /\ loc' \in Locals
           /\ pool' = pool /\ live' = live /\ next' = next /\ dirty'
           /\ lastRun' = lastRun /\ forgotten' = forgotten /\ moved' = moved
           /\ lock' = lock /\ up' = up /\ job' = NextItem
<1>1. /\ pc = "commit" /\ pc' = "place" /\ lock # None /\ job[lock].items # <<>>
      /\ pool' = pool /\ live' = live /\ next' = next /\ dirty'
      /\ lastRun' = lastRun /\ forgotten' = forgotten /\ moved' = moved
      /\ lock' = lock /\ up' = up /\ job' = NextItem
      /\ lost' = IF Stored(dest) THEN lost \ {dest} ELSE lost
  BY DEF CommitItem, PlaceRow, Step, HolderInv, disk
<1>2. /\ item.pkg \in Package /\ item.hash \in Content
      /\ cfg.component \in Component /\ dest \in Path /\ dest = <<item.pkg, cfg.component>>
  BY <1>1, DestType
<1>3. PICK n \in 1 .. MaxId :
        rows' = [rows EXCEPT ![item.pkg] = [id |-> n, hash |-> item.hash,
                                            dir |-> cfg.component, state |-> "active"]]
  BY DEF CommitItem, PlaceRow
<1> DEFINE r == [id |-> n, hash |-> item.hash, dir |-> cfg.component, state |-> "active"]
<1>4. /\ r \in Row /\ r.hash = item.hash /\ r.state = "active" /\ r.dir = cfg.component
  BY <1>2 DEF Row, State
<1>5. /\ rows' \in [Package -> Row \cup {None}] /\ rows'[item.pkg] = r
      /\ \A p \in Package : p # item.pkg => rows'[p] = rows[p]
  <2> HIDE DEF r
  <2>1. rows' = [rows EXCEPT ![item.pkg] = r]
    BY <1>3 DEF r
  <2> QED
    BY <1>2, <1>4, <2>1 DEF TypeOK
<1>6. <<item.pkg, rows'[item.pkg].dir>> = dest
  BY <1>2, <1>4, <1>5
<1>7. ~loc'.created /\ loc' \in Locals
  BY DEF CommitItem, PlaceRow, TypeOK, Locals
<1> QED
  BY <1>1, <1>2, <1>4, <1>5, <1>6, <1>7

\* Committing an upload's row keeps the bytes that the index names: the row that
\* was there, if any, had the same hash (exclusive_link_or_revive refuses others).
LEMMA CommitStepListed ==
    ASSUME TypeOK, HolderInv, PlaceInv, ListedInv, CommitItem
    PROVE  ListedInv'
<1>1. Registered(item.pkg) => rows[item.pkg].hash = item.hash
  BY CommitEffect DEF PlaceInv
<1> QED
  BY <1>1, CommitEffect DEF ListedInv, Listed, Registered

\* Changing only a row's state keeps it registered with its hash.
LEMMA RelabelListed ==
    ASSUME TypeOK, ListedInv, NEW p \in Package, Registered(p), NEW s \in State,
           rows' = [rows EXCEPT ![p].state = s], live' = live, forgotten' = forgotten
    PROVE  ListedInv'
<1>1. rows[p] \in Row
  BY DEF TypeOK, Registered
<1>2. rows'[p] = [rows[p] EXCEPT !.state = s]
  BY DEF TypeOK
<1>3. rows'[p] \in Row /\ rows'[p].hash = rows[p].hash
  BY <1>1, <1>2 DEF Row
<1>4. \A q \in Package : q # p => rows'[q] = rows[q]
  BY DEF TypeOK
<1> QED
  BY <1>3, <1>4 DEF ListedInv, Listed, Registered

\* Dropping the row of a package that is not listed, or forgotten, keeps ListedInv.
LEMMA DropListed ==
    ASSUME TypeOK, ListedInv, NEW p \in Package, Listed(p) => p \in forgotten,
           rows' = [rows EXCEPT ![p] = None], live' = live, forgotten' = forgotten
    PROVE  ListedInv'
BY DEF TypeOK, ListedInv, Listed, Registered

\* When nothing is dirty after a successful run, the index lists no package that
\* is marked for deletion and not forgotten: what _finish_orphaned_pending_deletes
\* relies on.
LEMMA PendingUnlisted ==
    ASSUME TypeOK, CleanInv, ~dirty, lastRun = "success", pc # "flag_delete",
           NEW p \in RowsIn("pending_delete"), Listed(p)
    PROVE  p \in Package /\ p \in forgotten
<1>1. p \in Package /\ ~Active(p) /\ ~InState(p, "missing")
  BY DEF RowsIn, InState, Active
<1> QED
  BY <1>1 DEF CleanInv

\* The tree that is exchanged in lists nothing but active rows.
LEMMA SwapListed ==
    ASSUME TypeOK, StagedInv, ListedInv, Swap
    PROVE  ListedInv'
<1>1. live' = next /\ Carries(next) /\ rows' = rows
  BY DEF Swap, Step, StagedInv, db
<1> QED
  BY <1>1 DEF ListedInv, Listed, Carries, Offered, Offer, Active, InState, Registered

\* Marking rows missing while the index is built keeps every row, its hash and path.
LEMMA StageListed ==
    ASSUME TypeOK, ListedInv, Stage
    PROVE  ListedInv'
<1>1. \A p \in Package : Registered(p) => Registered(p)' /\ rows'[p].hash = rows[p].hash
  <2> SUFFICES ASSUME NEW p \in Package, Registered(p)
               PROVE  Registered(p)' /\ rows'[p].hash = rows[p].hash
    OBVIOUS
  <2>1. rows[p] \in Row
    BY DEF TypeOK, Registered
  <2>2. [rows[p] EXCEPT !.state = "missing"] \in Row
    BY <2>1 DEF Row, State
  <2>3. rows'[p] = rows[p] \/ rows'[p] = [rows[p] EXCEPT !.state = "missing"]
    BY DEF Stage
  <2> QED
    BY <2>1, <2>2, <2>3 DEF Registered, Row
<1>2. live' = live /\ forgotten' = forgotten
  BY DEF Stage, disk, history
<1> QED
  BY <1>1, <1>2 DEF ListedInv, Listed

\* What the end of a successful publish_unlocked does, whoever called it.
LEMMA ClearDirtyStep ==
    ASSUME TypeOK, HolderInv, ClearDirty
    PROVE  /\ pc = "clear" /\ ~dirty' /\ lastRun' = lastRun /\ rows' = rows /\ pool' = pool
           /\ live' = live /\ lost' = lost /\ forgotten' = forgotten
           /\ moved' = moved /\ stray' = stray
           /\ \/ Release /\ pc' = "idle" /\ loc' = NoLocals
              \/ /\ pc' = "finish" \/ (pc' = "unlink" /\ job[lock].op = "delete")
                 /\ lock' = lock /\ job' = job /\ loc' = loc
<1>1. lock # None /\ job[lock].op \in ClientOp \cup {"startup"}
  BY DEF ClearDirty, HolderInv, Process, Client, TypeOK
<1> QED
  BY <1>1 DEF ClearDirty, Step, Release, AfterPublish, ClientOp, disk, history

\* An index is a tree.
LEMMA IndexType ==
    ASSUME TypeOK, NEW s \in Read, NEW ps \in SUBSET RowsIn("active")
    PROVE  Index(ps, s) \in Tree
<1>1. ASSUME NEW p \in ps PROVE Offer(p) \in Stanza
  BY FileType DEF RowsIn, InState, Registered, Offer, Row, Stanza
<1> QED
  BY <1>1 DEF Index, Tree

\* The index that is built carries exactly the rows that stay active.
LEMMA StageStaged ==
    ASSUME TypeOK, Stage
    PROVE  StagedInv'
<1>1. PICK s \in Read : loc' = [loc EXCEPT !.staged = Index(Present, s)]
  BY DEF Stage
<1>2. pc' = "install" /\ pool' = pool /\ loc'.staged = Index(Present, s)
  BY <1>1 DEF Stage, Step, disk, TypeOK, Locals
<1>3. ASSUME NEW p \in Package PROVE Index(Present, s)[p] \in {Offered'[p], Skipped}
  <2>1. CASE p \in RowsIn("active") \ Present
    <3>1. rows'[p] = [rows[p] EXCEPT !.state = "missing"]
      BY <2>1 DEF Stage
    <3>2. rows[p] \in Row
      BY <2>1 DEF TypeOK, RowsIn, InState, Registered
    <3>3. rows'[p].state = "missing"
      BY <3>1, <3>2 DEF Row
    <3> QED
      BY <2>1, <3>3 DEF Offered, Active, InState, Index
  <2>2. CASE p \notin RowsIn("active") \ Present
    <3>1. rows'[p] = rows[p]
      BY <2>2 DEF Stage
    <3> QED
      BY <2>2, <3>1 DEF Offered, Offer, Active, InState, Registered, Index, Present, RowsIn
  <2> QED
    BY <2>1, <2>2
<1>4. Index(Present, s) # None
  <2>1. Present \in SUBSET RowsIn("active")
    BY DEF Present
  <2> QED
    BY <2>1, IndexType
<1> QED
  BY <1>2, <1>3, <1>4 DEF StagedInv, Carries

\* The orphan picked for quarantine is named by no row.
LEMMA FlagOrphanWorklist ==
    ASSUME TypeOK, WorklistInv, FlagOrphan
    PROVE  WorklistInv'
<1>1. PICK x \in loc.orphans : loc' = [loc EXCEPT !.blob = x, !.orphans = @ \ {x}]
  BY DEF FlagOrphan
<1>2. loc'.blob = x /\ loc'.orphans = loc.orphans \ {x} /\ x \in Path
  BY <1>1 DEF TypeOK, Locals
<1>3. pc = "orphan" /\ pc' = "move" /\ rows' = rows
  BY DEF FlagOrphan, Step
<1> QED
  BY <1>2, <1>3 DEF WorklistInv, Named, FileOf, Registered

\* After os.link the upload holds a file with its own bytes, and if it created
\* the file then nobody who lists or offers the package from there had one.
LEMMA LinkPlace ==
    ASSUME TypeOK, HolderInv, IndexServable, ActiveStored, LinkItem
    PROVE  PlaceInv'
<1>1. /\ item.pkg \in Package /\ item.hash \in Content /\ item' = item
      /\ dest \in Path /\ dest' = dest
      /\ ~Refused(item.pkg, item.hash)
      /\ rows' = rows /\ live' = live /\ pc' = "commit"
      /\ lost' = lost /\ forgotten' = forgotten /\ moved' = moved
  BY DestType DEF LinkItem, Step, item, dest, cfg, db, history
<1>2. loc'.created = ~Stored(dest)
  BY DEF LinkItem, TypeOK, Locals
<1>3. Registered(item.pkg) => rows[item.pkg].hash = item.hash
  BY <1>1 DEF Refused
<1>4. pool'[dest] = item.hash
  BY <1>1 DEF LinkItem, Refused, Stored, TypeOK, Pool
<1>5. ~Stored(dest) /\ Listed(item.pkg) /\ ListedFile(item.pkg) = dest
        => dest \in lost \/ item.pkg \in forgotten \cup moved
  <2>1. Listed(item.pkg) => live[item.pkg].hash # None
    BY <1>1, FileType DEF Stanza
  <2> QED
    BY <1>1, <2>1 DEF IndexServable, Stored
<1>6. ~Stored(dest) /\ Active(item.pkg) /\ FileOf(item.pkg) = dest => dest \in lost
  <2>1. Active(item.pkg) => rows[item.pkg].hash # None
    BY <1>1, FileType DEF Active, InState, Row
  <2> QED
    BY <1>1, <2>1 DEF ActiveStored, Stored
<1>7. pool'[dest] # None
  BY <1>1, <1>4
<1> QED
  BY <1>1, <1>2, <1>3, <1>4, <1>5, <1>6, <1>7
  DEF PlaceInv, Registered, Listed, Stored, Active, InState, FileOf, ListedFile

\* delete_commit remembers the row that it has just marked.
LEMMA MarkTarget ==
    ASSUME TypeOK, TargetInv, MarkDelete
    PROVE  TargetInv'
<1>1. PICK p \in Package : /\ Registered(p)
                           /\ rows' = [rows EXCEPT ![p].state = "pending_delete"]
                           /\ loc' = [loc EXCEPT !.target = p]
  BY DEF MarkDelete
<1>2. loc'.target = p /\ pc' = "flag_delete"
  BY <1>1 DEF MarkDelete, Step, TypeOK, Locals
<1>3. rows'[p] \in Row /\ rows'[p].state = "pending_delete"
  BY <1>1 DEF TypeOK, Registered, Row, State
<1>4. job'[lock'].op = "delete"
  BY DEF MarkDelete, Step, TargetInv
<1> QED
  BY <1>2, <1>3, <1>4 DEF TargetInv, RowsIn, InState, Registered

\* RunInv is preserved by every step.
LEMMA RunStep ==
    ASSUME TypeOK, HolderInv, RunInv, [Next]_vars
    PROVE  RunInv'
<1> USE DEF HolderInv, RunInv, PublishPoint, AfterPublish, AfterFinish, EntryPoint,
       ClientOp, Client, Step, Release, db, disk
<1>1. ASSUME UploadStep PROVE RunInv'
  BY <1>1 DEF UploadStep, RefuseItem, LinkItem, CommitItem, PlaceRow,
     PublishPlaced, NothingPlaced
<1>2. ASSUME DeleteStep PROVE RunInv'
  BY <1>2 DEF DeleteStep, MarkDelete, NotFound, FlagDelete, Unlink, DropRow, DeleteDone
<1>3. ASSUME RetryStep PROVE RunInv'
  BY <1>3 DEF RetryStep, RetryPublish, NothingToRetry
<1>4. ASSUME ScanStep PROVE RunInv'
  BY <1>4 DEF ScanStep, ScanRow, ScanDone, FlagMissing
<1>5. ASSUME PublishStep PROVE RunInv'
  <2>1. ASSUME ClearDirty PROVE RunInv'
    BY <2>1, ClearDirtyStep
  <2> QED
    BY <1>5, <2>1 DEF PublishStep, StartRun, Stage, Install, Swap, Cleanup, Succeed,
       RecordFailure, FlagFailure
<1>6. ASSUME FinishStep PROVE RunInv'
  BY <1>6 DEF FinishStep, StartPurge, SkipPurge, PurgeBlob, PurgeRow, PurgeDone
<1>7. ASSUME StartupStep PROVE RunInv'
  BY <1>7 DEF StartupStep, FlagOrphan, MoveOrphan, DiscardNext, DecidePublish, ServeAsIs
<1>8. ASSUME Fault PROVE RunInv'
  <2>1. ASSUME NEW x \in Path, LoseBlob(x) PROVE RunInv'
    BY <2>1 DEF LoseBlob
  <2>2. ASSUME PublishFails \/ PlaceFails \/ UndoFails \/ UnlinkFails PROVE RunInv'
    BY <2>2 DEF PublishFails, PlaceFails, UndoFails, UnlinkFails
  <2>3. ASSUME Crash PROVE RunInv'
    BY <2>3 DEF Crash
  <2> QED
    BY <1>8, <2>1, <2>2, <2>3 DEF Fault
<1>9. ASSUME ClientRequest PROVE RunInv'
  BY <1>9 DEF ClientRequest, RequestUpload, RequestDelete, RequestPublish, RequestRetry,
     Request
<1>10. ASSUME Restart PROVE RunInv'
  BY <1>10 DEF Restart
<1>11. ASSUME \E t \in Client : Acquire(t) PROVE RunInv'
  BY <1>11 DEF Acquire
<1>12. ASSUME UNCHANGED vars PROVE RunInv'
  BY <1>12 DEF vars
<1> QED
  BY <1>1, <1>2, <1>3, <1>4, <1>5, <1>6, <1>7, <1>8, <1>9, <1>10, <1>11, <1>12 DEF Next,
     Section

\* StagedInv is preserved by every step.
LEMMA StagedStep ==
    ASSUME TypeOK, HolderInv, StagedInv, [Next]_vars
    PROVE  StagedInv'
<1> USE DEF HolderInv, AfterFinish, EntryPoint, ClientOp, Client, PublishPoint, Step, Release,
       db, disk
<1> DEFINE Late == {"install", "swap", "cleanup", "succeed", "clear"}
<1>a. rows' = rows => Offered' = Offered
  BY DEF Offered, Offer, Active, InState, Registered
<1>b. ASSUME pc' \notin Late PROVE StagedInv'
  BY <1>b DEF StagedInv
<1>c. ASSUME rows' = rows, loc' = loc, live' = live, next' = next, pc' = pc PROVE StagedInv'
  BY <1>a, <1>c DEF StagedInv, Carries
<1>1. ASSUME UploadStep PROVE StagedInv'
  BY <1>1, <1>b DEF UploadStep, RefuseItem, LinkItem, CommitItem,
     PublishPlaced, NothingPlaced
<1>2. ASSUME DeleteStep PROVE StagedInv'
  BY <1>2, <1>b DEF DeleteStep, MarkDelete, NotFound, FlagDelete, Unlink, DropRow, DeleteDone
<1>3. ASSUME RetryStep PROVE StagedInv'
  BY <1>3, <1>b DEF RetryStep, RetryPublish, NothingToRetry
<1>4. ASSUME ScanStep PROVE StagedInv'
  BY <1>4, <1>b DEF ScanStep, ScanRow, ScanDone, FlagMissing
<1>5. ASSUME PublishStep PROVE StagedInv'
  <2>1. ASSUME Stage PROVE StagedInv'
    BY <2>1, StageStaged
  <2>2. ASSUME ClearDirty PROVE StagedInv'
    BY <2>2, <1>b, ClearDirtyStep
  <2>3. ASSUME Install PROVE StagedInv'
    BY <2>3, <1>a DEF Install, StagedInv, Carries
  <2>4. ASSUME Swap PROVE StagedInv'
    BY <2>4, <1>a DEF Swap, StagedInv, Carries
  <2>5. ASSUME Cleanup \/ Succeed PROVE StagedInv'
    BY <2>5, <1>a DEF Cleanup, Succeed, StagedInv, Carries
  <2>6. ASSUME StartRun \/ RecordFailure \/ FlagFailure PROVE StagedInv'
    BY <2>6, <1>b DEF StartRun, RecordFailure, FlagFailure
  <2> QED
    BY <1>5, <2>1, <2>2, <2>3, <2>4, <2>5, <2>6 DEF PublishStep
<1>6. ASSUME FinishStep PROVE StagedInv'
  BY <1>6, <1>b DEF FinishStep, StartPurge, SkipPurge, PurgeBlob, PurgeRow, PurgeDone
<1>7. ASSUME StartupStep PROVE StagedInv'
  BY <1>7, <1>b DEF StartupStep, FlagOrphan, MoveOrphan, DiscardNext, DecidePublish, ServeAsIs
<1>8. ASSUME Fault PROVE StagedInv'
  <2>1. ASSUME NEW x \in Path, LoseBlob(x) PROVE StagedInv'
    BY <2>1, <1>c DEF LoseBlob
  <2>2. ASSUME PublishFails \/ PlaceFails \/ UndoFails \/ UnlinkFails PROVE StagedInv'
    BY <2>2, <1>b DEF PublishFails, PlaceFails, UndoFails, UnlinkFails
  <2>3. ASSUME Crash PROVE StagedInv'
    BY <2>3, <1>b DEF Crash
  <2> QED
    BY <1>8, <2>1, <2>2, <2>3 DEF Fault
<1>9. ASSUME ClientRequest PROVE StagedInv'
  BY <1>9, <1>c DEF ClientRequest, RequestUpload, RequestDelete, RequestPublish, RequestRetry,
     Request
<1>10. ASSUME Restart PROVE StagedInv'
  BY <1>10, <1>b DEF Restart
<1>11. ASSUME \E t \in Client : Acquire(t) PROVE StagedInv'
  BY <1>11, <1>b DEF Acquire
<1>12. ASSUME UNCHANGED vars PROVE StagedInv'
  BY <1>12, <1>c DEF vars
<1> QED
  BY <1>1, <1>2, <1>3, <1>4, <1>5, <1>6, <1>7, <1>8, <1>9, <1>10, <1>11, <1>12 DEF Next,
     Section

\* WorklistInv is preserved by every step.
LEMMA WorklistStep ==
    ASSUME TypeOK, HolderInv, WorklistInv, [Next]_vars
    PROVE  WorklistInv'
<1> USE DEF TypeOK, HolderInv, InState, Registered, RowsIn, AfterFinish, EntryPoint,
       ClientOp, Client, PublishPoint, WorklistInv, Step, Release, db, disk
<1>0. rows' = rows => \A x : Named(x)' <=> Named(x)
  BY DEF Named, FileOf
<1>1. ASSUME UploadStep PROVE WorklistInv'
  BY <1>1 DEF UploadStep, RefuseItem, LinkItem, CommitItem, PlaceRow,
     PublishPlaced, NothingPlaced
<1>2. ASSUME DeleteStep PROVE WorklistInv'
  BY <1>2 DEF DeleteStep, MarkDelete, NotFound, FlagDelete, Unlink, DropRow, DeleteDone
<1>3. ASSUME RetryStep PROVE WorklistInv'
  BY <1>3 DEF RetryStep, RetryPublish, NothingToRetry
<1>4. ASSUME ScanStep PROVE WorklistInv'
  <2>1. ASSUME ScanRow("scan") PROVE WorklistInv'
    BY <2>1 DEF ScanRow
  <2>2. ASSUME ScanRow("boot_scan") PROVE WorklistInv'
    BY <2>2 DEF ScanRow
  <2>3. ASSUME ScanDone("scan", "flag") PROVE WorklistInv'
    BY <2>3 DEF ScanDone
  <2>4. ASSUME ScanDone("boot_scan", "boot_flag") PROVE WorklistInv'
    BY <2>4 DEF ScanDone
  <2>5. ASSUME FlagMissing("flag", "stage") PROVE WorklistInv'
    BY <2>5 DEF FlagMissing
  <2>6. ASSUME FlagMissing("boot_flag", "finish") PROVE WorklistInv'
    BY <2>6 DEF FlagMissing
  <2> QED
    BY <1>4, <2>1, <2>2, <2>3, <2>4, <2>5, <2>6 DEF ScanStep
<1>5. ASSUME PublishStep PROVE WorklistInv'
  <2>1. ASSUME StartRun PROVE WorklistInv'
    BY <2>1 DEF StartRun
  <2>2. ASSUME Stage PROVE WorklistInv'
    BY <2>2, StageStaged DEF Stage
  <2>3. ASSUME Install PROVE WorklistInv'
    BY <2>3 DEF Install
  <2>4. ASSUME Swap PROVE WorklistInv'
    BY <2>4 DEF Swap
  <2>5. ASSUME Cleanup PROVE WorklistInv'
    BY <2>5 DEF Cleanup
  <2>6. ASSUME Succeed PROVE WorklistInv'
    BY <2>6 DEF Succeed
  <2>7. ASSUME ClearDirty PROVE WorklistInv'
    BY <2>7, ClearDirtyStep
  <2>8. ASSUME RecordFailure PROVE WorklistInv'
    BY <2>8 DEF RecordFailure
  <2>9. ASSUME FlagFailure PROVE WorklistInv'
    BY <2>9 DEF FlagFailure
  <2> QED
    BY <1>5, <2>1, <2>2, <2>3, <2>4, <2>5, <2>6, <2>7, <2>8, <2>9 DEF PublishStep
<1>6. ASSUME FinishStep PROVE WorklistInv'
  <2>1. ASSUME StartPurge PROVE WorklistInv'
    BY <2>1 DEF StartPurge
  <2>2. ASSUME SkipPurge PROVE WorklistInv'
    BY <2>2 DEF SkipPurge
  <2>3. ASSUME PurgeBlob PROVE WorklistInv'
    BY <2>3 DEF PurgeBlob
  <2>4. ASSUME PurgeRow PROVE WorklistInv'
    BY <2>4 DEF PurgeRow
  <2>5. ASSUME PurgeDone PROVE WorklistInv'
    BY <2>5 DEF PurgeDone
  <2> QED
    BY <1>6, <2>1, <2>2, <2>3, <2>4, <2>5 DEF FinishStep
<1>7. ASSUME StartupStep PROVE WorklistInv'
  <2>1. ASSUME FlagOrphan PROVE WorklistInv'
    BY <2>1, FlagOrphanWorklist DEF FlagOrphan
  <2>2. ASSUME DiscardNext PROVE WorklistInv'
    BY <2>2 DEF DiscardNext, NoLocals
  <2> QED
    BY <1>7, <2>1, <2>2, <1>0 DEF StartupStep, MoveOrphan, DecidePublish, ServeAsIs
<1>8. ASSUME Fault PROVE WorklistInv'
  <2>1. ASSUME NEW x \in Path, LoseBlob(x) PROVE WorklistInv'
    BY <2>1, <1>0 DEF LoseBlob
  <2> QED
    BY <1>8, <2>1 DEF Fault, Crash, PublishFails, PlaceFails, UndoFails, UnlinkFails
<1>9. ASSUME ClientRequest PROVE WorklistInv'
  BY <1>9, <1>0 DEF ClientRequest, RequestUpload, RequestDelete, RequestPublish, RequestRetry,
     Request
<1>10. ASSUME Restart PROVE WorklistInv'
  BY <1>10, <1>0 DEF Restart, NoLocals, Orphans
<1>11. ASSUME \E t \in Client : Acquire(t) PROVE WorklistInv'
  BY <1>11 DEF Acquire
<1>12. ASSUME UNCHANGED vars PROVE WorklistInv'
  BY <1>12, <1>0 DEF vars
<1> QED
  BY <1>1, <1>2, <1>3, <1>4, <1>5, <1>6, <1>7, <1>8, <1>9, <1>10, <1>11, <1>12 DEF Next,
     Section

\* TargetInv is preserved by every step.
LEMMA TargetStep ==
    ASSUME TypeOK, HolderInv, WorklistInv, TargetInv, [Next]_vars
    PROVE  TargetInv'
<1> USE DEF TypeOK, HolderInv, InState, Registered, RowsIn, AfterFinish, EntryPoint,
       ClientOp, Client, PublishPoint, Process, WorklistInv, TargetInv, Job, Step, Release,
       db, disk
<1>1. ASSUME UploadStep PROVE TargetInv'
  <2>1. ASSUME RefuseItem PROVE TargetInv'
    BY <2>1, ItemType DEF RefuseItem
  <2>2. ASSUME CommitItem PROVE TargetInv'
    <3>1. /\ pc = "commit" /\ pc' = "place" /\ lock' = lock /\ lock # None
          /\ job[lock] # None /\ job' = NextItem /\ job[lock].items # <<>>
      BY <2>2, CommitEffect
    <3>2. job'[lock'].op = "upload" /\ job'[lock'] # None
      BY <3>1, ItemType
    <3> QED
      BY <3>1, <3>2
  <2> QED
    BY <1>1, <2>1, <2>2 DEF UploadStep, LinkItem, PublishPlaced, NothingPlaced
<1>2. ASSUME DeleteStep PROVE TargetInv'
  <2>1. ASSUME MarkDelete PROVE TargetInv'
    BY <2>1, MarkTarget DEF MarkDelete
  <2> QED
    BY <1>2, <2>1 DEF DeleteStep, NotFound, FlagDelete, Unlink, DropRow, DeleteDone
<1>3. ASSUME RetryStep PROVE TargetInv'
  BY <1>3 DEF RetryStep, RetryPublish, NothingToRetry
<1>4. ASSUME ScanStep PROVE TargetInv'
  <2>1. ASSUME ScanRow("scan") PROVE TargetInv'
    BY <2>1 DEF ScanRow
  <2>2. ASSUME ScanRow("boot_scan") PROVE TargetInv'
    BY <2>2 DEF ScanRow
  <2>3. ASSUME ScanDone("scan", "flag") PROVE TargetInv'
    BY <2>3 DEF ScanDone
  <2>4. ASSUME ScanDone("boot_scan", "boot_flag") PROVE TargetInv'
    BY <2>4 DEF ScanDone
  <2>5. ASSUME FlagMissing("flag", "stage") PROVE TargetInv'
    BY <2>5 DEF FlagMissing
  <2>6. ASSUME FlagMissing("boot_flag", "finish") PROVE TargetInv'
    BY <2>6 DEF FlagMissing
  <2> QED
    BY <1>4, <2>1, <2>2, <2>3, <2>4, <2>5, <2>6 DEF ScanStep
<1>5. ASSUME PublishStep PROVE TargetInv'
  <2>1. ASSUME StartRun PROVE TargetInv'
    BY <2>1 DEF StartRun
  <2>2. ASSUME Stage PROVE TargetInv'
    BY <2>2, StageStaged DEF Stage
  <2>3. ASSUME Install PROVE TargetInv'
    BY <2>3 DEF Install
  <2>4. ASSUME Swap PROVE TargetInv'
    BY <2>4 DEF Swap
  <2>5. ASSUME Cleanup PROVE TargetInv'
    BY <2>5 DEF Cleanup
  <2>6. ASSUME Succeed PROVE TargetInv'
    BY <2>6 DEF Succeed
  <2>7. ASSUME ClearDirty PROVE TargetInv'
    BY <2>7, ClearDirtyStep
  <2>8. ASSUME RecordFailure PROVE TargetInv'
    BY <2>8 DEF RecordFailure
  <2>9. ASSUME FlagFailure PROVE TargetInv'
    BY <2>9 DEF FlagFailure
  <2> QED
    BY <1>5, <2>1, <2>2, <2>3, <2>4, <2>5, <2>6, <2>7, <2>8, <2>9 DEF PublishStep
<1>6. ASSUME FinishStep PROVE TargetInv'
  BY <1>6 DEF FinishStep, StartPurge, SkipPurge, PurgeBlob, PurgeRow, PurgeDone
<1>7. ASSUME StartupStep PROVE TargetInv'
  BY <1>7 DEF StartupStep, FlagOrphan, MoveOrphan, DiscardNext, DecidePublish, ServeAsIs
<1>8. ASSUME Fault PROVE TargetInv'
  <2>1. ASSUME Crash PROVE TargetInv'
    BY <2>1 DEF Crash
  <2>2. ASSUME PublishFails PROVE TargetInv'
    BY <2>2 DEF PublishFails
  <2>3. ASSUME PlaceFails \/ UndoFails PROVE TargetInv'
    BY <2>3 DEF PlaceFails, UndoFails
  <2>4. ASSUME UnlinkFails PROVE TargetInv'
    BY <2>4 DEF UnlinkFails
  <2>5. ASSUME \E x \in Path : LoseBlob(x) PROVE TargetInv'
    BY <2>5 DEF LoseBlob
  <2> QED
    BY <1>8, <2>1, <2>2, <2>3, <2>4, <2>5 DEF Fault
<1>9. ASSUME ClientRequest PROVE TargetInv'
  BY <1>9 DEF ClientRequest, RequestUpload, RequestDelete, RequestPublish, RequestRetry,
     Request
<1>10. ASSUME Restart PROVE TargetInv'
  BY <1>10 DEF Restart
<1>11. ASSUME NEW t \in Client, Acquire(t) PROVE TargetInv'
  <2>1. /\ lock' = t /\ job[t] # None /\ job'[t].op = job[t].op
        /\ pc' = EntryPoint[job[t].op]
    BY <1>11, AcquireJob DEF Acquire
  <2>2. job[t].op = "delete" => pc' = "mark"
    BY <2>1
  <2>3. pc' \notin {"flag_delete", "unlink", "drop", "idle"}
        /\ (pc' = "mark" => job[t].op = "delete")
    BY <2>1
  <2> QED
    BY <2>1, <2>2, <2>3
<1>12. ASSUME UNCHANGED vars PROVE TargetInv'
  BY <1>12 DEF vars
<1> QED
  BY <1>1, <1>2, <1>3, <1>4, <1>5, <1>6, <1>7, <1>8, <1>9, <1>10, <1>11, <1>12 DEF Next,
     Section

\* A file that vanishes leaves what an upload may assume.
LEMMA LosePlace ==
    ASSUME TypeOK, HolderInv, PlaceInv, NEW x \in Path, LoseBlob(x)
    PROVE  PlaceInv'
<1>1. /\ pc' = pc /\ loc' = loc /\ rows' = rows /\ live' = live /\ item' = item
      /\ dest' = dest /\ lost' = lost \cup {x} /\ forgotten' = forgotten /\ moved' = moved
  BY DEF LoseBlob, db, item, dest, cfg
<1>2. CASE pc # "commit"
  BY <1>1, <1>2 DEF PlaceInv
<1>3. CASE pc = "commit"
  <2>1. dest \in Path
    BY <1>3, DestType DEF HolderInv
  <2>2. pool'[dest] = IF dest = x THEN None ELSE pool[dest]
    BY <2>1 DEF LoseBlob, TypeOK, Pool
  <2>3. /\ Registered(item.pkg)' = Registered(item.pkg)
        /\ Listed(item.pkg)' = Listed(item.pkg)
        /\ Active(item.pkg)' = Active(item.pkg)
        /\ FileOf(item.pkg)' = FileOf(item.pkg)
        /\ ListedFile(item.pkg)' = ListedFile(item.pkg)
    BY <1>1 DEF Registered, Listed, Active, InState, FileOf, ListedFile
  <2>4. /\ Stored(dest)' => pool'[dest] = item.hash
        /\ Stored(dest)' \/ dest \in lost'
    BY <1>1, <1>3, <2>2 DEF PlaceInv, Stored
  <2> QED
    BY <1>1, <1>3, <2>3, <2>4 DEF PlaceInv
<1> QED
  BY <1>2, <1>3

\* PlaceInv is preserved by every step.
LEMMA PlaceStep ==
    ASSUME TypeOK, HolderInv, IndexServable, ActiveStored, PlaceInv, [Next]_vars
    PROVE  PlaceInv'
<1> USE DEF Step, Release, NoLocals, AfterFinish, db, disk, history
<1>1. ASSUME pc' # "commit", pc' \in {"place", "idle"} => ~loc'.created PROVE PlaceInv'
  BY <1>1 DEF PlaceInv
<1>2. ASSUME UploadStep PROVE PlaceInv'
  <2>1. ASSUME RefuseItem PROVE PlaceInv'
    BY <1>1, <2>1 DEF RefuseItem, PlaceInv
  <2>2. ASSUME CommitItem PROVE PlaceInv'
    BY <1>1, <2>2, CommitEffect
  <2>3. ASSUME PublishPlaced \/ NothingPlaced PROVE PlaceInv'
    BY <1>1, <2>3 DEF PublishPlaced, NothingPlaced
  <2> QED
    BY <1>2, <2>1, <2>2, <2>3, LinkPlace DEF UploadStep
<1>3. ASSUME DeleteStep \/ RetryStep PROVE PlaceInv'
  BY <1>1, <1>3 DEF DeleteStep, MarkDelete, NotFound, FlagDelete, Unlink, DropRow,
     DeleteDone, RetryStep, RetryPublish, NothingToRetry
<1>4. ASSUME ScanStep PROVE PlaceInv'
  BY <1>1, <1>4 DEF ScanStep, ScanRow, ScanDone, FlagMissing
<1>5. ASSUME ClearDirty PROVE PlaceInv'
  BY <1>1, <1>5, ClearDirtyStep
<1>6. ASSUME PublishStep PROVE PlaceInv'
  BY <1>1, <1>5, <1>6 DEF PublishStep, StartRun, Stage, Install, Swap, Cleanup, Succeed,
     RecordFailure, FlagFailure
<1>7. ASSUME FinishStep PROVE PlaceInv'
  BY <1>1, <1>7 DEF FinishStep, StartPurge, SkipPurge, PurgeBlob, PurgeRow, PurgeDone
<1>8. ASSUME StartupStep PROVE PlaceInv'
  <2>1. pc' \in {"move", "orphan", "boot_scan", "run"} \/ (pc' = "idle" /\ loc' = NoLocals)
    BY <1>8 DEF StartupStep, FlagOrphan, MoveOrphan, DiscardNext, DecidePublish, ServeAsIs
  <2> QED
    BY <1>1, <2>1
<1>9. ASSUME Fault PROVE PlaceInv'
  BY <1>1, <1>9, LosePlace DEF Fault, Crash, PublishFails, PlaceFails, UndoFails, UnlinkFails
<1>10. ASSUME NEW t \in Client, NEW j, Request(t, j) PROVE PlaceInv'
  <2>1. /\ pc' = pc /\ loc' = loc /\ rows' = rows /\ pool' = pool /\ live' = live
        /\ lost' = lost /\ forgotten' = forgotten /\ moved' = moved
    BY <1>10 DEF Request
  <2>2. pc = "commit" => item' = item /\ dest' = dest
    BY <1>10 DEF Request, HolderInv, TypeOK, item, dest, cfg
  <2> QED
    BY <2>1, <2>2 DEF PlaceInv, Registered, Stored, Listed, Active, InState, FileOf, ListedFile
<1>11. ASSUME ClientRequest PROVE PlaceInv'
  BY <1>10, <1>11 DEF ClientRequest, RequestUpload, RequestDelete, RequestPublish,
     RequestRetry, Client
<1>12. ASSUME Restart PROVE PlaceInv'
  BY <1>1, <1>12 DEF Restart
<1>13. ASSUME NEW t \in Client, Acquire(t) PROVE PlaceInv'
  <2>1. pc = "idle" /\ loc' = loc /\ pc' # "commit"
    BY <1>13 DEF Acquire, HolderInv, EntryPoint, ClientOp
  <2> QED
    BY <1>1, <2>1 DEF PlaceInv
<1>14. ASSUME UNCHANGED vars PROVE PlaceInv'
  BY <1>14 DEF vars, PlaceInv, Registered, Stored, Listed, Active, InState, FileOf,
     ListedFile, item, dest, cfg
<1> QED
  BY <1>2, <1>3, <1>4, <1>6, <1>7, <1>8, <1>9, <1>11, <1>12, <1>13, <1>14 DEF Next, Section

\* Once the live index carries what is offered, CleanInv holds whatever the flags say.
LEMMA SucceedClean ==
    ASSUME TypeOK, Carries(live), live' = live, rows' = rows
    PROVE  CleanInv'
<1>1. live # None
  BY DEF Carries
<1>2. \A p \in Package : /\ Active(p) => live[p] \in {Offer(p), Skipped}
                         /\ Listed(p) => Active(p)
  BY DEF Carries, Offered, Listed
<1> QED
  BY <1>1, <1>2 DEF CleanInv, Active, Listed, InState, Registered, Offer

\* Dropping a row that is marked for deletion keeps CleanInv.
LEMMA DropClean ==
    ASSUME TypeOK, CleanInv, NEW p \in RowsIn("pending_delete"), pc # "flag_delete",
           rows' = [rows EXCEPT ![p] = None], live' = live, dirty' = dirty,
           lastRun' = lastRun, forgotten' = forgotten
    PROVE  CleanInv'
<1>1. p \in Package /\ rows[p].state = "pending_delete"
  BY DEF RowsIn, InState
<1>2. \A q \in Package : Active(q)' <=> Active(q)
  BY <1>1 DEF TypeOK, Active, InState, Registered
<1>3. \A q \in Package : q # p => rows'[q] = rows[q]
  BY <1>1 DEF TypeOK
<1>4. ~Active(p) /\ ~InState(p, "missing")
  BY <1>1 DEF Active, InState
<1>5. \A q \in Package : Active(q) => Offer(q)' = Offer(q)
  BY <1>3, <1>4 DEF Offer
<1>6. \A q \in Package : InState(q, "missing") /\ ListedFile(q) = FileOf(q) =>
                           InState(q, "missing")' /\ ListedFile(q)' = FileOf(q)'
  BY <1>3, <1>4 DEF InState, Registered, ListedFile, FileOf
<1>7. \A q \in Package : Listed(q)' <=> Listed(q)
  BY DEF Listed
<1> QED
  BY <1>2, <1>5, <1>6, <1>7 DEF CleanInv

\* Taking a row out of the active state keeps CleanInv if the row is marked missing,
\* or if the delete that marked it is about to set the dirty flag.
LEMMA MarkClean ==
    ASSUME TypeOK, CleanInv, pc # "flag_delete", NEW p \in Package, Registered(p),
           NEW s \in State \ {"active"}, rows' = [rows EXCEPT ![p].state = s],
           live' = live, dirty' = dirty, lastRun' = lastRun, forgotten' = forgotten,
           (s = "missing" /\ Active(p)) \/ (pc' = "flag_delete" /\ loc'.target = p)
    PROVE  CleanInv'
<1> SUFFICES ASSUME ~dirty, lastRun = "success" PROVE CleanInv'
  BY DEF CleanInv
<1>1. rows[p] \in Row /\ rows'[p] = [rows[p] EXCEPT !.state = s]
  BY DEF TypeOK, Registered
<1>2. rows'[p] \in Row /\ rows'[p].state = s /\ s # "active" /\ rows'[p].dir = rows[p].dir
  BY <1>1 DEF Row, State
<1>3. \A q \in Package : q # p => rows'[q] = rows[q]
  BY DEF TypeOK
<1>4. \A q \in Package : Active(q)' => Active(q) /\ Offer(q)' = Offer(q)
  BY <1>2, <1>3 DEF Active, InState, Registered, Offer
<1>5. \A q \in Package : q # p =>
        /\ Active(q) => Active(q)'
        /\ InState(q, "missing") /\ ListedFile(q) = FileOf(q) =>
              InState(q, "missing")' /\ ListedFile(q)' = FileOf(q)'
  BY <1>3 DEF Active, InState, Registered, ListedFile, FileOf
<1>6. ASSUME Listed(p), s = "missing", Active(p)
      PROVE  InState(p, "missing")' /\ ListedFile(p)' = FileOf(p)'
  <2>1. live[p] = Offer(p)
    BY <1>6 DEF CleanInv, Listed
  <2> QED
    BY <1>2, <1>6, <2>1 DEF InState, Registered, ListedFile, FileOf, Offer
<1>7. \A q \in Package : Listed(q)' <=> Listed(q)
  BY DEF Listed
<1> QED
  BY <1>4, <1>5, <1>6, <1>7 DEF CleanInv

\* A scan for missing files keeps CleanInv.
LEMMA ScanClean ==
    ASSUME TypeOK, WorklistInv, CleanInv, NEW at \in {"scan", "boot_scan"}, ScanRow(at)
    PROVE  CleanInv'
<1>1. PICK p \in loc.todo :
        rows' = IF Stored(FileOf(p)) THEN rows ELSE [rows EXCEPT ![p].state = "missing"]
  BY DEF ScanRow
<1>2. /\ pc = at /\ pc' = pc /\ live' = live /\ dirty' = dirty
      /\ lastRun' = lastRun /\ forgotten' = forgotten
  BY DEF ScanRow, Step, disk, history
<1>3. p \in Package /\ Registered(p) /\ Active(p)
  BY <1>1, <1>2 DEF WorklistInv, RowsIn, InState, Active
<1>4. CASE Stored(FileOf(p))
  BY <1>1, <1>2, <1>4 DEF CleanInv, Active, InState, Registered, Listed, Offer, ListedFile,
     FileOf
<1>5. CASE ~Stored(FileOf(p))
  BY <1>1, <1>2, <1>3, <1>5, MarkClean DEF State
<1> QED
  BY <1>4, <1>5

\* Committing an upload's row keeps the index servable.
LEMMA CommitServable ==
    ASSUME TypeOK, HolderInv, PlaceInv, ListedInv, IndexServable, CommitItem
    PROVE  IndexServable'
<1>1. /\ pc = "commit" /\ pool' = pool /\ live' = live /\ forgotten' = forgotten
      /\ moved' = moved /\ lost' = IF Stored(dest) THEN lost \ {dest} ELSE lost
      /\ dest = <<item.pkg, rows'[item.pkg].dir>>
  BY CommitEffect
<1>2. Stored(dest) => pool[dest] = item.hash
  BY <1>1 DEF PlaceInv
<1>3. ASSUME NEW p \in Package, Listed(p), ListedFile(p) = dest
      PROVE  live[p].hash = item.hash \/ p \in forgotten
  <2>1. p = item.pkg
    BY <1>1, <1>3, FileType
  <2> QED
    BY <1>1, <1>3, <2>1 DEF PlaceInv, ListedInv
<1>4. \A p \in Package : Listed(p)' = Listed(p) /\ ListedFile(p)' = ListedFile(p)
  BY <1>1 DEF Listed, ListedFile
<1> QED
  BY <1>1, <1>2, <1>3, <1>4 DEF IndexServable

\* Committing an upload's row makes it active with its bytes stored.
LEMMA CommitStored ==
    ASSUME TypeOK, HolderInv, PlaceInv, ActiveStored, CommitItem
    PROVE  ActiveStored'
<1>1. /\ pc = "commit" /\ pool' = pool /\ item.pkg \in Package
      /\ lost' = IF Stored(dest) THEN lost \ {dest} ELSE lost
      /\ rows'[item.pkg].hash = item.hash /\ <<item.pkg, rows'[item.pkg].dir>> = dest
      /\ \A p \in Package : p # item.pkg => rows'[p] = rows[p]
  BY CommitEffect
<1>2. IF Stored(dest) THEN pool[dest] = item.hash ELSE dest \in lost
  BY <1>1 DEF PlaceInv
<1> SUFFICES ASSUME NEW p \in Package, Active(p)'
             PROVE  pool'[FileOf(p)'] = rows'[p].hash \/ FileOf(p)' \in lost'
  BY DEF ActiveStored
<1>3. CASE p = item.pkg
  <2>1. FileOf(p)' = dest
    BY <1>1, <1>3 DEF FileOf
  <2> QED
    BY <1>1, <1>2, <1>3, <2>1
<1>4. CASE p # item.pkg
  <2>1. Active(p) /\ FileOf(p)' = FileOf(p) /\ rows'[p] = rows[p]
    BY <1>1, <1>4 DEF FileOf, Active, InState, Registered
  <2>2. FileOf(p) # dest
    BY <1>1, <1>4 DEF FileOf
  <2> QED
    BY <1>1, <2>1, <2>2 DEF ActiveStored
<1> QED
  BY <1>3, <1>4

\* Removing a file that is not listed, lost already, forgotten or in quarantine keeps
\* the index servable.
LEMMA RemoveServable ==
    ASSUME TypeOK, IndexServable, NEW x \in Path,
           \A p \in Package : Listed(p) /\ ListedFile(p) = x
                                => x \in lost \/ p \in forgotten \cup moved',
           pool' = [pool EXCEPT ![x] = None], live' = live, lost' = lost,
           forgotten' = forgotten, moved \subseteq moved'
    PROVE  IndexServable'
<1>1. \A p \in Package : Listed(p)' = Listed(p) /\ ListedFile(p)' = ListedFile(p)
  BY DEF Listed, ListedFile
<1>2. \A p \in Package : Listed(p) /\ ListedFile(p) # x
                           => pool'[ListedFile(p)] = pool[ListedFile(p)]
  BY FileType, RemoveAt
<1> QED
  BY <1>1, <1>2 DEF IndexServable

\* Removing a file that no active row names, or that is lost already, keeps ActiveStored.
LEMMA RemoveStored ==
    ASSUME TypeOK, ActiveStored, NEW x \in Path,
           \A p \in Package : Active(p) /\ FileOf(p) = x => x \in lost,
           pool' = [pool EXCEPT ![x] = None], rows' = rows, lost' = lost
    PROVE  ActiveStored'
<1>1. \A p \in Package : Active(p)' = Active(p) /\ FileOf(p)' = FileOf(p)
  BY DEF Active, InState, Registered, FileOf
<1>2. \A p \in Package : Active(p) /\ FileOf(p) # x => pool'[FileOf(p)] = pool[FileOf(p)]
  BY FileType, RemoveAt DEF Active, InState
<1> QED
  BY <1>1, <1>2 DEF ActiveStored

\* Taking a row out of the active state keeps ActiveStored.
LEMMA RelabelStored ==
    ASSUME TypeOK, ActiveStored, NEW p \in Package, Registered(p),
           NEW s \in State \ {"active"}, rows' = [rows EXCEPT ![p].state = s],
           pool' = pool, lost' = lost
    PROVE  ActiveStored'
<1>1. rows[p] \in Row /\ rows'[p] = [rows[p] EXCEPT !.state = s]
  BY DEF TypeOK, Registered
<1>2. rows'[p].state # "active"
  BY <1>1 DEF Row, State
<1>3. \A q \in Package : q # p => rows'[q] = rows[q]
  BY DEF TypeOK
<1> QED
  BY <1>2, <1>3 DEF ActiveStored, Active, InState, Registered, FileOf

\* Building the index keeps ActiveStored.
LEMMA StageStored ==
    ASSUME TypeOK, ActiveStored, Stage
    PROVE  ActiveStored'
<1>1. pool' = pool /\ lost' = lost
  BY DEF Stage, disk, history
<1>2. ASSUME NEW p \in Package, Active(p)' PROVE Active(p) /\ rows'[p] = rows[p]
  <2>1. CASE p \in RowsIn("active") \ Present
    <3>1. rows'[p] = [rows[p] EXCEPT !.state = "missing"] /\ rows[p] \in Row
      BY <2>1 DEF Stage, TypeOK, RowsIn, InState, Registered
    <3> QED
      BY <1>2, <3>1 DEF Active, InState, Row
  <2>2. CASE p \notin RowsIn("active") \ Present
    BY <1>2, <2>2 DEF Stage, Active, InState, Registered
  <2> QED
    BY <2>1, <2>2
<1> QED
  BY <1>1, <1>2 DEF ActiveStored, FileOf

\* The index that is exchanged in is servable.
LEMMA SwapServable ==
    ASSUME TypeOK, StagedInv, ActiveStored, Swap
    PROVE  IndexServable'
<1>1. live' = next /\ Carries(next) /\ pool' = pool /\ lost' = lost /\ rows' = rows
  BY DEF Swap, Step, StagedInv, db
<1>2. ASSUME NEW p \in Package, Listed(p)'
      PROVE  Active(p) /\ live'[p] = Offer(p)
  BY <1>1, <1>2 DEF Carries, Offered, Listed
<1> SUFFICES ASSUME NEW p \in Package, Listed(p)'
             PROVE  pool'[ListedFile(p)'] = live'[p].hash \/ ListedFile(p)' \in lost'
  BY DEF IndexServable
<1>3. Active(p) /\ live'[p] = Offer(p)
  BY <1>2
<1>4. ListedFile(p)' = FileOf(p) /\ live'[p].hash = rows[p].hash
  BY <1>3 DEF Offer, ListedFile, FileOf
<1> QED
  BY <1>1, <1>3, <1>4 DEF ActiveStored

\* A crash keeps CleanInv: a mark that it leaves unannounced is remembered.
LEMMA CrashClean ==
    ASSUME TypeOK, CleanInv, Crash
    PROVE  CleanInv'
<1> SUFFICES ASSUME ~dirty, lastRun = "success"
             PROVE  CleanInv'
  BY DEF Crash, CleanInv, db
<1>1. /\ live' = live /\ rows' = rows /\ forgotten' = forgotten \cup Unannounced
  BY DEF Crash, db, disk
<1>2. ASSUME NEW p \in Package, Listed(p), pc = "flag_delete", p = loc.target
      PROVE  p \in forgotten'
  <2>1. ~NeedsPublish
    BY DEF NeedsPublish, CleanInv
  <2> QED
    BY <1>1, <1>2, <2>1 DEF Unannounced
<1>3. \A p \in Package : /\ Listed(p)' <=> Listed(p)
                         /\ Active(p)' <=> Active(p)
                         /\ InState(p, "missing")' <=> InState(p, "missing")
                         /\ Offer(p)' = Offer(p) /\ FileOf(p)' = FileOf(p)
                         /\ ListedFile(p)' = ListedFile(p)
  BY <1>1 DEF Listed, Active, InState, Registered, Offer, FileOf, ListedFile
<1> QED
  BY <1>1, <1>2, <1>3 DEF CleanInv

\* CleanInv is preserved by every step.
LEMMA CleanStep ==
    ASSUME TypeOK, HolderInv, RunInv, StagedInv, WorklistInv, TargetInv,
           CleanInv, [Next]_vars
    PROVE  CleanInv'
<1> USE DEF RunInv, PublishPoint, Step, Release, db, disk, history
<1>a. ASSUME dirty' \/ lastRun' # "success" PROVE CleanInv'
  BY <1>a DEF CleanInv
<1>b. ASSUME rows' = rows, live' = live, dirty' = dirty, lastRun' = lastRun,
             forgotten' = forgotten,
             pc = "flag_delete" => pc' = pc /\ loc' = loc
      PROVE  CleanInv'
  <2>1. \A p \in Package : /\ Listed(p)' <=> Listed(p)
                           /\ Active(p)' <=> Active(p)
                           /\ InState(p, "missing")' <=> InState(p, "missing")
                           /\ Offer(p)' = Offer(p) /\ FileOf(p)' = FileOf(p)
                           /\ ListedFile(p)' = ListedFile(p)
    BY <1>b DEF Listed, Active, InState, Registered, Offer, FileOf, ListedFile
  <2> QED
    BY <1>b, <2>1 DEF CleanInv
<1>1. ASSUME UploadStep PROVE CleanInv'
  BY <1>1, <1>a, <1>b, CommitEffect DEF UploadStep, RefuseItem, LinkItem, PublishPlaced,
     NothingPlaced
<1>2. ASSUME DeleteStep PROVE CleanInv'
  <2>1. ASSUME MarkDelete PROVE CleanInv'
    <3>1. PICK p \in Package : /\ Registered(p)
                               /\ rows' = [rows EXCEPT ![p].state = "pending_delete"]
                               /\ loc' = [loc EXCEPT !.target = p]
      BY <2>1 DEF MarkDelete
    <3>2. loc'.target = p
      BY <3>1 DEF TypeOK, Locals
    <3> QED
      BY <2>1, <3>1, <3>2, MarkClean DEF MarkDelete, State
  <2>2. ASSUME DropRow PROVE CleanInv'
    BY <2>2, DropClean DEF DropRow, TargetInv, HolderInv
  <2>3. ASSUME DeleteDone PROVE CleanInv'
    <3>1. dirty' = dirty
      BY <2>3 DEF DeleteDone, TypeOK
    <3> QED
      BY <2>3, <3>1, <1>b DEF DeleteDone
  <2> QED
    BY <1>2, <1>a, <1>b, <2>1, <2>2, <2>3 DEF DeleteStep, NotFound, FlagDelete, Unlink
<1>3. ASSUME RetryStep PROVE CleanInv'
  BY <1>3, <1>b DEF RetryStep, RetryPublish, NothingToRetry
<1>4. ASSUME ScanStep PROVE CleanInv'
  <2>1. ASSUME ScanRow("scan") PROVE CleanInv'
    BY <2>1, ScanClean
  <2>2. ASSUME ScanRow("boot_scan") PROVE CleanInv'
    BY <2>2, ScanClean
  <2>3. ASSUME NEW from, NEW to, from # "flag_delete", FlagMissing(from, to)
        PROVE  CleanInv'
    <3>1. CASE loc.found
      BY <2>3, <3>1, <1>a DEF FlagMissing
    <3>2. CASE ~loc.found
      BY <2>3, <3>2, <1>b DEF FlagMissing, TypeOK
    <3> QED
      BY <3>1, <3>2
  <2> QED
    BY <1>4, <1>b, <2>1, <2>2, <2>3 DEF ScanStep, ScanDone
<1>5. ASSUME PublishStep PROVE CleanInv'
  <2>1. ASSUME Succeed PROVE CleanInv'
    BY <2>1, SucceedClean DEF Succeed, StagedInv
  <2>2. ASSUME ClearDirty PROVE CleanInv'
    BY <2>2, ClearDirtyStep, SucceedClean DEF StagedInv
  <2> QED
    BY <1>5, <1>a, <2>1, <2>2 DEF PublishStep, StartRun, Stage, Install, Swap, Cleanup,
       RecordFailure, FlagFailure
<1>6. ASSUME FinishStep PROVE CleanInv'
  <2>1. ASSUME PurgeRow PROVE CleanInv'
    BY <2>1, DropClean DEF PurgeRow, WorklistInv
  <2> QED
    BY <1>6, <1>b, <2>1 DEF FinishStep, StartPurge, SkipPurge, PurgeBlob, PurgeDone
<1>7. ASSUME StartupStep PROVE CleanInv'
  BY <1>7, <1>a, <1>b DEF StartupStep, FlagOrphan, MoveOrphan, DiscardNext, DecidePublish,
     ServeAsIs
<1>8. ASSUME Fault PROVE CleanInv'
  <2>1. ASSUME NEW x \in Path, LoseBlob(x) PROVE CleanInv'
    BY <2>1, <1>b DEF LoseBlob
  <2>2. ASSUME PublishFails \/ PlaceFails \/ UndoFails \/ UnlinkFails PROVE CleanInv'
    BY <2>2, <1>b DEF PublishFails, PlaceFails, Placing, UndoFails, UnlinkFails
  <2> QED
    BY <1>8, <2>1, <2>2, CrashClean DEF Fault
<1>9. ASSUME ClientRequest PROVE CleanInv'
  BY <1>9, <1>b DEF ClientRequest, RequestUpload, RequestDelete, RequestPublish,
     RequestRetry, Request
<1>10. ASSUME Restart PROVE CleanInv'
  BY <1>10, <1>b DEF Restart, HolderInv
<1>11. ASSUME \E t \in Client : Acquire(t) PROVE CleanInv'
  BY <1>11, <1>b DEF Acquire, HolderInv
<1>12. ASSUME UNCHANGED vars PROVE CleanInv'
  BY <1>12, <1>b DEF vars
<1> QED
  BY <1>1, <1>2, <1>3, <1>4, <1>5, <1>6, <1>7, <1>8, <1>9, <1>10, <1>11, <1>12 DEF Next,
     Section

\* ListedInv is preserved by every step.
LEMMA ListedStep ==
    ASSUME TypeOK, HolderInv, RunInv, StagedInv, WorklistInv, TargetInv, PlaceInv,
           CleanInv, ListedInv, [Next]_vars
    PROVE  ListedInv'
<1> USE DEF ListedInv, Listed, Registered, Step, Release, db, disk, history
<1>1. ASSUME UploadStep PROVE ListedInv'
  <2>1. ASSUME CommitItem PROVE ListedInv'
    BY <2>1, CommitStepListed
  <2> QED
    BY <1>1, <2>1 DEF UploadStep, RefuseItem, LinkItem, PublishPlaced, NothingPlaced
<1>2. ASSUME DeleteStep PROVE ListedInv'
  <2>1. ASSUME MarkDelete PROVE ListedInv'
    BY <2>1, RelabelListed DEF MarkDelete, State
  <2>2. ASSUME DropRow PROVE ListedInv'
    BY <2>2, PendingUnlisted, DropListed DEF DropRow, RunInv, TargetInv, HolderInv
  <2> QED
    BY <1>2, <2>1, <2>2 DEF DeleteStep, NotFound, FlagDelete, Unlink, DeleteDone
<1>3. ASSUME RetryStep PROVE ListedInv'
  BY <1>3 DEF RetryStep, RetryPublish, NothingToRetry
<1>4. ASSUME ScanStep PROVE ListedInv'
  <2>1. ASSUME ScanRow("scan") PROVE ListedInv'
    BY <2>1, RelabelListed DEF ScanRow, State, WorklistInv, RowsIn, InState, TypeOK, Locals
  <2>2. ASSUME ScanRow("boot_scan") PROVE ListedInv'
    BY <2>2, RelabelListed DEF ScanRow, State, WorklistInv, RowsIn, InState, TypeOK, Locals
  <2> QED
    BY <1>4, <2>1, <2>2 DEF ScanStep, ScanDone, FlagMissing
<1>5. ASSUME PublishStep PROVE ListedInv'
  <2>1. ASSUME Stage PROVE ListedInv'
    BY <2>1, StageListed DEF Stage
  <2>2. ASSUME Swap PROVE ListedInv'
    BY <2>2, SwapListed DEF Swap
  <2>3. ASSUME ClearDirty PROVE ListedInv'
    BY <2>3, ClearDirtyStep
  <2> QED
    BY <1>5, <2>1, <2>2, <2>3 DEF PublishStep, StartRun, Install, Cleanup, Succeed,
       RecordFailure, FlagFailure
<1>6. ASSUME FinishStep PROVE ListedInv'
  <2>1. ASSUME PurgeRow PROVE ListedInv'
    BY <2>1, PendingUnlisted, DropListed DEF PurgeRow, RunInv, WorklistInv
  <2> QED
    BY <1>6, <2>1 DEF FinishStep, StartPurge, SkipPurge, PurgeBlob, PurgeDone
<1>7. ASSUME StartupStep PROVE ListedInv'
  BY <1>7 DEF StartupStep, FlagOrphan, MoveOrphan, DiscardNext, DecidePublish, ServeAsIs
<1>8. ASSUME Fault PROVE ListedInv'
  BY <1>8 DEF Fault, Crash, PublishFails, PlaceFails, UndoFails, UnlinkFails, LoseBlob
<1>9. ASSUME ClientRequest PROVE ListedInv'
  BY <1>9 DEF ClientRequest, RequestUpload, RequestDelete, RequestPublish, RequestRetry,
     Request
<1>10. ASSUME Restart PROVE ListedInv'
  BY <1>10 DEF Restart
<1>11. ASSUME \E t \in Client : Acquire(t) PROVE ListedInv'
  BY <1>11 DEF Acquire
<1>12. ASSUME UNCHANGED vars PROVE ListedInv'
  BY <1>12 DEF vars
<1> QED
  BY <1>1, <1>2, <1>3, <1>4, <1>5, <1>6, <1>7, <1>8, <1>9, <1>10, <1>11, <1>12 DEF Next,
     Section

\* IndexServable is preserved by every step.
LEMMA ServableStep ==
    ASSUME TypeOK, HolderInv, RunInv, StagedInv, WorklistInv, TargetInv, PlaceInv,
           CleanInv, ListedInv, ActiveStored, IndexServable, [Next]_vars
    PROVE  IndexServable'
<1> USE DEF Step, Release, db, disk, history
<1>a. ASSUME pool' = pool, live' = live, lost' = lost, moved' = moved,
             forgotten \subseteq forgotten'
      PROVE  IndexServable'
  BY <1>a DEF IndexServable, Listed, ListedFile
<1>b. ASSUME NEW x \in Path, NEW p \in Package, Listed(p), ListedFile(p) = x
      PROVE  p = x[1]
  BY <1>b, FileType
<1>1. ASSUME UploadStep PROVE IndexServable'
  <2>1. ASSUME LinkItem PROVE IndexServable'
    <3>1. /\ dest \in Path /\ live' = live /\ lost' = lost
          /\ forgotten' = forgotten /\ moved' = moved
      BY <2>1, DestType DEF LinkItem, HolderInv
    <3>2. \A x \in Path : Stored(x) => pool'[x] = pool[x]
      BY <2>1, <3>1 DEF LinkItem, TypeOK, Pool, Stored
    <3> SUFFICES ASSUME NEW p \in Package, Listed(p), pool[ListedFile(p)] = live[p].hash
                 PROVE  pool'[ListedFile(p)] = live[p].hash
      BY <3>1 DEF IndexServable, Listed, ListedFile
    <3>3. ListedFile(p) \in Path /\ live[p].hash \in Content
      BY FileType DEF Stanza
    <3> QED
      BY <3>2, <3>3 DEF Stored
  <2>2. ASSUME CommitItem PROVE IndexServable'
    BY <2>2, CommitServable
  <2> QED
    BY <1>1, <1>a, <2>1, <2>2 DEF UploadStep, RefuseItem, PublishPlaced, NothingPlaced
<1>2. ASSUME DeleteStep PROVE IndexServable'
  <2>1. ASSUME Unlink PROVE IndexServable'
    <3>1. loc.target \in RowsIn("pending_delete") /\ ~dirty /\ lastRun = "success"
          /\ pc # "flag_delete"
      BY <2>1 DEF Unlink, RunInv, TargetInv, HolderInv
    <3>2. loc.target \in Package /\ FileOf(loc.target) \in Path
          /\ FileOf(loc.target)[1] = loc.target
      BY <3>1, FileType DEF RowsIn, InState
    <3> QED
      BY <2>1, <3>1, <3>2, <1>b, PendingUnlisted, RemoveServable DEF Unlink
  <2> QED
    BY <1>2, <1>a, <2>1 DEF DeleteStep, MarkDelete, NotFound, FlagDelete, DropRow, DeleteDone
<1>3. ASSUME RetryStep PROVE IndexServable'
  BY <1>3, <1>a DEF RetryStep, RetryPublish, NothingToRetry
<1>4. ASSUME ScanStep PROVE IndexServable'
  BY <1>4, <1>a DEF ScanStep, ScanRow, ScanDone, FlagMissing
<1>5. ASSUME PublishStep PROVE IndexServable'
  <2>1. ASSUME Swap PROVE IndexServable'
    BY <2>1, SwapServable
  <2>2. ASSUME ClearDirty PROVE IndexServable'
    BY <2>2, <1>a, ClearDirtyStep
  <2> QED
    BY <1>5, <1>a, <2>1, <2>2 DEF PublishStep, StartRun, Stage, Install, Cleanup, Succeed,
       RecordFailure, FlagFailure
<1>6. ASSUME FinishStep PROVE IndexServable'
  <2>1. ASSUME PurgeBlob PROVE IndexServable'
    <3>1. PICK q \in loc.todo : pool' = [pool EXCEPT ![FileOf(q)] = None]
      BY <2>1 DEF PurgeBlob
    <3>2. q \in RowsIn("pending_delete") /\ ~dirty /\ lastRun = "success" /\ pc # "flag_delete"
      BY <2>1, <3>1 DEF PurgeBlob, RunInv, WorklistInv
    <3>3. q \in Package /\ FileOf(q) \in Path /\ FileOf(q)[1] = q
      BY <3>2, FileType DEF RowsIn, InState
    <3> QED
      BY <2>1, <3>1, <3>2, <3>3, <1>b, PendingUnlisted, RemoveServable DEF PurgeBlob
  <2> QED
    BY <1>6, <1>a, <2>1 DEF FinishStep, StartPurge, SkipPurge, PurgeRow, PurgeDone
<1>7. ASSUME StartupStep PROVE IndexServable'
  <2>1. ASSUME MoveOrphan PROVE IndexServable'
    <3>1. loc.blob \in Path /\ pool' = [pool EXCEPT ![loc.blob] = None]
          /\ moved' = moved \cup {p \in Package : Listed(p) /\ ListedFile(p) = loc.blob}
          /\ live' = live /\ lost' = lost /\ forgotten' = forgotten
      BY <2>1 DEF MoveOrphan, WorklistInv
    <3> QED
      BY <3>1, RemoveServable
  <2> QED
    BY <1>7, <1>a, <2>1 DEF StartupStep, FlagOrphan, DiscardNext, DecidePublish, ServeAsIs
<1>8. ASSUME Fault PROVE IndexServable'
  <2>1. ASSUME PlaceFails PROVE IndexServable'
    <3>1. CASE ~loc.created
      BY <2>1, <3>1, <1>a DEF PlaceFails
    <3>2. CASE loc.created
      <4>1. pc = "commit" /\ dest \in Path /\ dest[1] = item.pkg
        BY <2>1, <3>2, DestType DEF PlaceFails, Placing, PlaceInv, HolderInv
      <4>2. \A p \in Package : Listed(p) /\ ListedFile(p) = dest
                                 => dest \in lost \/ p \in forgotten \cup moved
        BY <4>1, <3>2, <1>b DEF PlaceInv
      <4> QED
        BY <2>1, <3>2, <4>1, <4>2, RemoveServable DEF PlaceFails
    <3> QED
      BY <3>1, <3>2
  <2>2. ASSUME NEW x \in Path, LoseBlob(x) PROVE IndexServable'
    <3>1. \A p \in Package : Listed(p)' = Listed(p) /\ ListedFile(p)' = ListedFile(p)
      BY <2>2 DEF LoseBlob, Listed, ListedFile
    <3>2. \A p \in Package : Listed(p) /\ ListedFile(p) # x
                               => pool'[ListedFile(p)] = pool[ListedFile(p)]
      BY <2>2, FileType, RemoveAt DEF LoseBlob
    <3> QED
      BY <2>2, <3>1, <3>2 DEF LoseBlob, IndexServable
  <2> QED
    BY <1>8, <1>a, <2>1, <2>2 DEF Fault, Crash, PublishFails, UndoFails, UnlinkFails
<1>9. ASSUME ClientRequest PROVE IndexServable'
  BY <1>9, <1>a DEF ClientRequest, RequestUpload, RequestDelete, RequestPublish,
     RequestRetry, Request
<1>10. ASSUME Restart PROVE IndexServable'
  BY <1>10, <1>a DEF Restart
<1>11. ASSUME \E t \in Client : Acquire(t) PROVE IndexServable'
  BY <1>11, <1>a DEF Acquire
<1>12. ASSUME UNCHANGED vars PROVE IndexServable'
  BY <1>12, <1>a DEF vars
<1> QED
  BY <1>1, <1>2, <1>3, <1>4, <1>5, <1>6, <1>7, <1>8, <1>9, <1>10, <1>11, <1>12 DEF Next,
     Section

\* ActiveStored is preserved by every step.
LEMMA StoredStep ==
    ASSUME TypeOK, HolderInv, WorklistInv, TargetInv, PlaceInv, ActiveStored, [Next]_vars
    PROVE  ActiveStored'
<1> USE DEF Step, Release, db, disk, history
<1>a. ASSUME pool' = pool, rows' = rows, lost' = lost PROVE ActiveStored'
  BY <1>a DEF ActiveStored, Active, InState, Registered, FileOf
<1>b. ASSUME NEW q \in Package, rows' = [rows EXCEPT ![q] = None], pool' = pool, lost' = lost
      PROVE  ActiveStored'
  BY <1>b DEF ActiveStored, Active, InState, Registered, FileOf, TypeOK
<1>c. \A q \in RowsIn("pending_delete") :
        /\ q \in Package /\ FileOf(q) \in Path
        /\ \A p \in Package : Active(p) => FileOf(p) # FileOf(q)
  BY FileType DEF RowsIn, InState, Active
<1>1. ASSUME UploadStep PROVE ActiveStored'
  <2>1. ASSUME LinkItem PROVE ActiveStored'
    <3>1. dest \in Path /\ rows' = rows /\ lost' = lost
      BY <2>1, DestType DEF LinkItem, HolderInv
    <3>2. \A x \in Path : Stored(x) => pool'[x] = pool[x]
      BY <2>1, <3>1 DEF LinkItem, TypeOK, Pool, Stored
    <3> SUFFICES ASSUME NEW p \in Package, Active(p), pool[FileOf(p)] = rows[p].hash
                 PROVE  pool'[FileOf(p)] = rows[p].hash
      BY <3>1 DEF ActiveStored, Active, InState, Registered, FileOf
    <3>3. FileOf(p) \in Path /\ rows[p].hash \in Content
      BY FileType DEF Row, Active, InState
    <3> QED
      BY <3>2, <3>3 DEF Stored
  <2>2. ASSUME CommitItem PROVE ActiveStored'
    BY <2>2, CommitStored
  <2> QED
    BY <1>1, <1>a, <2>1, <2>2 DEF UploadStep, RefuseItem, PublishPlaced, NothingPlaced
<1>2. ASSUME DeleteStep PROVE ActiveStored'
  <2>1. ASSUME MarkDelete PROVE ActiveStored'
    BY <2>1, RelabelStored DEF MarkDelete, State
  <2>2. ASSUME Unlink PROVE ActiveStored'
    <3>1. loc.target \in RowsIn("pending_delete")
      BY <2>2 DEF Unlink, TargetInv, HolderInv
    <3> QED
      BY <2>2, <3>1, <1>c, RemoveStored DEF Unlink
  <2>3. ASSUME DropRow PROVE ActiveStored'
    <3>1. loc.target \in Package
      BY <2>3 DEF DropRow, TargetInv, HolderInv, RowsIn
    <3> QED
      BY <2>3, <3>1, <1>b DEF DropRow
  <2> QED
    BY <1>2, <1>a, <2>1, <2>2, <2>3 DEF DeleteStep, NotFound, FlagDelete, DeleteDone
<1>3. ASSUME RetryStep PROVE ActiveStored'
  BY <1>3, <1>a DEF RetryStep, RetryPublish, NothingToRetry
<1>4. ASSUME ScanStep PROVE ActiveStored'
  <2>1. ASSUME NEW at \in {"scan", "boot_scan"}, ScanRow(at) PROVE ActiveStored'
    <3>1. PICK p \in loc.todo :
            rows' = IF Stored(FileOf(p)) THEN rows ELSE [rows EXCEPT ![p].state = "missing"]
      BY <2>1 DEF ScanRow
    <3>2. p \in Package /\ Registered(p) /\ pool' = pool /\ lost' = lost
      BY <2>1, <3>1 DEF ScanRow, WorklistInv, RowsIn, InState
    <3> QED
      BY <3>1, <3>2, <1>a, RelabelStored DEF State
  <2> QED
    BY <1>4, <1>a, <2>1 DEF ScanStep, ScanDone, FlagMissing
<1>5. ASSUME PublishStep PROVE ActiveStored'
  <2>1. ASSUME Stage PROVE ActiveStored'
    BY <2>1, StageStored
  <2>2. ASSUME ClearDirty PROVE ActiveStored'
    BY <2>2, <1>a, ClearDirtyStep
  <2> QED
    BY <1>5, <1>a, <2>1, <2>2 DEF PublishStep, StartRun, Install, Swap, Cleanup, Succeed,
       RecordFailure, FlagFailure
<1>6. ASSUME FinishStep PROVE ActiveStored'
  <2>1. ASSUME PurgeBlob PROVE ActiveStored'
    <3>1. PICK q \in loc.todo : pool' = [pool EXCEPT ![FileOf(q)] = None]
      BY <2>1 DEF PurgeBlob
    <3>2. q \in RowsIn("pending_delete")
      BY <2>1, <3>1 DEF PurgeBlob, WorklistInv
    <3> QED
      BY <2>1, <3>1, <3>2, <1>c, RemoveStored DEF PurgeBlob
  <2>2. ASSUME PurgeRow PROVE ActiveStored'
    <3>1. loc.target \in Package
      BY <2>2 DEF PurgeRow, WorklistInv, RowsIn
    <3> QED
      BY <2>2, <3>1, <1>b DEF PurgeRow
  <2> QED
    BY <1>6, <1>a, <2>1, <2>2 DEF FinishStep, StartPurge, SkipPurge, PurgeDone
<1>7. ASSUME StartupStep PROVE ActiveStored'
  <2>1. ASSUME MoveOrphan PROVE ActiveStored'
    <3>1. loc.blob \in Path /\ ~Named(loc.blob)
      BY <2>1 DEF MoveOrphan, WorklistInv
    <3>2. \A p \in Package : Active(p) => FileOf(p) # loc.blob
      BY <3>1, FileType DEF Named, Active, InState
    <3> QED
      BY <2>1, <3>1, <3>2, RemoveStored DEF MoveOrphan
  <2> QED
    BY <1>7, <1>a, <2>1 DEF StartupStep, FlagOrphan, DiscardNext, DecidePublish, ServeAsIs
<1>8. ASSUME Fault PROVE ActiveStored'
  <2>1. ASSUME PlaceFails PROVE ActiveStored'
    <3>1. CASE ~loc.created
      BY <2>1, <3>1, <1>a DEF PlaceFails
    <3>2. CASE loc.created
      <4>1. pc = "commit" /\ dest \in Path /\ dest[1] = item.pkg
        BY <2>1, <3>2, DestType DEF PlaceFails, Placing, PlaceInv, HolderInv
      <4>2. \A p \in Package : Active(p) /\ FileOf(p) = dest => dest \in lost
        BY <4>1, <3>2, FileType DEF PlaceInv, Active, InState
      <4> QED
        BY <2>1, <3>2, <4>1, <4>2, RemoveStored DEF PlaceFails
    <3> QED
      BY <3>1, <3>2
  <2>2. ASSUME NEW x \in Path, LoseBlob(x) PROVE ActiveStored'
    <3>1. \A p \in Package : Active(p)' = Active(p) /\ FileOf(p)' = FileOf(p)
      BY <2>2 DEF LoseBlob, Active, InState, Registered, FileOf
    <3>2. \A p \in Package : Active(p) /\ FileOf(p) # x => pool'[FileOf(p)] = pool[FileOf(p)]
      BY <2>2, FileType, RemoveAt DEF LoseBlob, Active, InState
    <3> QED
      BY <2>2, <3>1, <3>2 DEF LoseBlob, ActiveStored
  <2> QED
    BY <1>8, <1>a, <2>1, <2>2 DEF Fault, Crash, PublishFails, UndoFails, UnlinkFails
<1>9. ASSUME ClientRequest PROVE ActiveStored'
  BY <1>9, <1>a DEF ClientRequest, RequestUpload, RequestDelete, RequestPublish,
     RequestRetry, Request
<1>10. ASSUME Restart PROVE ActiveStored'
  BY <1>10, <1>a DEF Restart
<1>11. ASSUME \E t \in Client : Acquire(t) PROVE ActiveStored'
  BY <1>11, <1>a DEF Acquire
<1>12. ASSUME UNCHANGED vars PROVE ActiveStored'
  BY <1>12, <1>a DEF vars
<1> QED
  BY <1>1, <1>2, <1>3, <1>4, <1>5, <1>6, <1>7, <1>8, <1>9, <1>10, <1>11, <1>12 DEF Next,
     Section

\* A step that relabels rows keeps MissingInv if the rows it marks missing are those
\* whose file is gone.
LEMMA RelabelMissing ==
    ASSUME TypeOK, ActiveStored, MissingInv, lost' = lost,
           \A p \in Package : Registered(p)' => FileOf(p)' = FileOf(p),
           \A p \in Package : rows'[p] # rows[p] /\ rows'[p].state = "missing"
                                => Active(p) /\ ~Stored(FileOf(p))
    PROVE  MissingInv'
<1>1. ASSUME NEW p \in Package, Active(p), ~Stored(FileOf(p)) PROVE FileOf(p) \in lost
  <2>1. rows[p].hash # None
    BY <1>1 DEF TypeOK, Row, Active, InState, Registered
  <2> QED
    BY <1>1, <2>1 DEF ActiveStored, Stored
<1> SUFFICES ASSUME NEW p \in Package, InState(p, "missing")'
             PROVE  FileOf(p)' \in lost'
  BY DEF MissingInv
<1>2. FileOf(p)' = FileOf(p)
  BY DEF InState
<1>3. CASE rows'[p] = rows[p]
  BY <1>2, <1>3 DEF MissingInv, InState, Registered
<1>4. CASE rows'[p] # rows[p]
  BY <1>1, <1>2, <1>4 DEF InState
<1> QED
  BY <1>3, <1>4

\* MissingInv is preserved by every step.
LEMMA MissingStep ==
    ASSUME TypeOK, HolderInv, WorklistInv, ActiveStored, MissingInv, [Next]_vars
    PROVE  MissingInv'
<1> USE DEF Step, Release, db, disk, history
<1>1. ASSUME rows' = rows, lost \subseteq lost' PROVE MissingInv'
  BY <1>1 DEF MissingInv, InState, Registered, FileOf
<1>2. ASSUME CommitItem PROVE MissingInv'
  <2>1. /\ item.pkg \in Package /\ rows'[item.pkg].state = "active"
        /\ \A p \in Package : p # item.pkg => rows'[p] = rows[p]
        /\ \A x \in lost : x # dest => x \in lost'
        /\ dest = <<item.pkg, rows'[item.pkg].dir>>
    BY <1>2, CommitEffect
  <2> SUFFICES ASSUME NEW p \in Package, InState(p, "missing")'
               PROVE  FileOf(p)' \in lost'
    BY DEF MissingInv
  <2>2. p # item.pkg
    BY <2>1 DEF InState
  <2>3. InState(p, "missing") /\ FileOf(p)' = FileOf(p)
    BY <2>1, <2>2 DEF InState, Registered, FileOf
  <2>4. FileOf(p) # dest
    BY <2>1, <2>2 DEF FileOf
  <2> QED
    BY <2>1, <2>3, <2>4 DEF MissingInv
<1>a. ASSUME NEW p \in Package, Registered(p), NEW s \in State,
             rows' = [rows EXCEPT ![p].state = s]
      PROVE  /\ rows'[p].state = s
             /\ \A q \in Package : q # p => rows'[q] = rows[q]
             /\ \A q \in Package : FileOf(q)' = FileOf(q)
  <2>1. rows[p] \in Row /\ rows'[p] = [rows[p] EXCEPT !.state = s]
    BY <1>a DEF TypeOK, Registered
  <2>2. rows'[p].state = s /\ rows'[p].dir = rows[p].dir
    BY <2>1 DEF Row
  <2>3. \A q \in Package : q # p => rows'[q] = rows[q]
    BY <1>a DEF TypeOK
  <2> QED
    BY <2>2, <2>3 DEF FileOf
<1>3. ASSUME MarkDelete PROVE MissingInv'
  <2>1. PICK p \in Package : Registered(p) /\ rows' = [rows EXCEPT ![p].state = "pending_delete"]
    BY <1>3 DEF MarkDelete
  <2>2. lost' = lost
    BY <1>3 DEF MarkDelete
  <2> QED
    BY <2>1, <2>2, <1>a, RelabelMissing DEF State
<1>4. ASSUME NEW p, rows' = [rows EXCEPT ![p] = None], lost' = lost PROVE MissingInv'
  BY <1>4 DEF MissingInv, InState, Registered, FileOf, TypeOK
<1>5. ASSUME NEW at \in {"scan", "boot_scan"}, ScanRow(at) PROVE MissingInv'
  <2>1. PICK p \in loc.todo :
          rows' = IF Stored(FileOf(p)) THEN rows ELSE [rows EXCEPT ![p].state = "missing"]
    BY <1>5 DEF ScanRow
  <2>2. p \in Package /\ Active(p) /\ Registered(p) /\ lost' = lost
    BY <1>5, <2>1 DEF ScanRow, WorklistInv, RowsIn, Active, InState
  <2>3. CASE Stored(FileOf(p))
    BY <2>1, <2>2, <2>3, <1>1
  <2>4. CASE ~Stored(FileOf(p))
    BY <2>1, <2>2, <2>4, <1>a, RelabelMissing DEF State
  <2> QED
    BY <2>3, <2>4
<1>6. ASSUME Stage PROVE MissingInv'
  <2>1. lost' = lost
    BY <1>6 DEF Stage
  <2>2. \A p \in Package : p \notin RowsIn("active") \ Present => rows'[p] = rows[p]
    BY <1>6 DEF Stage
  <2>3. \A p \in RowsIn("active") \ Present : Active(p) /\ ~Stored(FileOf(p))
    BY DEF RowsIn, Present, Active
  <2>4. ASSUME NEW p \in RowsIn("active") \ Present PROVE rows'[p].dir = rows[p].dir
    <3>1. rows'[p] = [rows[p] EXCEPT !.state = "missing"] /\ rows[p] \in Row
      BY <1>6 DEF Stage, TypeOK, RowsIn, InState, Registered
    <3> QED
      BY <3>1 DEF Row
  <2>5. \A p \in Package : FileOf(p)' = FileOf(p)
    BY <2>2, <2>4 DEF FileOf
  <2>6. \A p \in Package : rows'[p] # rows[p] => Active(p) /\ ~Stored(FileOf(p))
    BY <2>2, <2>3
  <2> QED
    BY <2>1, <2>5, <2>6, RelabelMissing
<1>7. ASSUME UploadStep PROVE MissingInv'
  BY <1>1, <1>2, <1>7 DEF UploadStep, RefuseItem, LinkItem, PublishPlaced, NothingPlaced
<1>8. ASSUME DeleteStep \/ RetryStep PROVE MissingInv'
  BY <1>1, <1>3, <1>4, <1>8 DEF DeleteStep, NotFound, FlagDelete, Unlink, DropRow,
     DeleteDone, RetryStep, RetryPublish, NothingToRetry
<1>9. ASSUME ScanStep PROVE MissingInv'
  BY <1>1, <1>5, <1>9 DEF ScanStep, ScanDone, FlagMissing
<1>10. ASSUME PublishStep PROVE MissingInv'
  BY <1>1, <1>6, <1>10, ClearDirtyStep DEF PublishStep, StartRun, Install, Swap, Cleanup,
     Succeed, RecordFailure, FlagFailure
<1>11. ASSUME FinishStep PROVE MissingInv'
  BY <1>1, <1>4, <1>11 DEF FinishStep, StartPurge, SkipPurge, PurgeBlob, PurgeRow, PurgeDone
<1>12. ASSUME StartupStep PROVE MissingInv'
  BY <1>1, <1>12 DEF StartupStep, FlagOrphan, MoveOrphan, DiscardNext, DecidePublish,
     ServeAsIs
<1>13. ASSUME Fault PROVE MissingInv'
  BY <1>1, <1>13 DEF Fault, Crash, PublishFails, PlaceFails, UndoFails, UnlinkFails, LoseBlob
<1>14. ASSUME ClientRequest PROVE MissingInv'
  BY <1>1, <1>14 DEF ClientRequest, RequestUpload, RequestDelete, RequestPublish,
     RequestRetry, Request
<1>15. ASSUME Restart \/ (\E t \in Client : Acquire(t)) \/ UNCHANGED vars PROVE MissingInv'
  BY <1>1, <1>15 DEF Restart, Acquire, vars
<1> QED
  BY <1>7, <1>8, <1>9, <1>10, <1>11, <1>12, <1>13, <1>14, <1>15 DEF Next, Section

\* MovedInv is preserved by every step.
LEMMA MovedStep ==
    ASSUME TypeOK, HolderInv, RunInv, MovedInv, [Next]_vars
    PROVE  MovedInv'
<1> USE DEF HolderInv, MovedInv, AfterFinish, EntryPoint, ClientOp, Client, PublishPoint,
       Step, Release, db, disk, history
<1>1. ASSUME UploadStep PROVE MovedInv'
  BY <1>1, CommitEffect DEF UploadStep, RefuseItem, LinkItem, PublishPlaced, NothingPlaced
<1>2. ASSUME DeleteStep PROVE MovedInv'
  BY <1>2 DEF DeleteStep, MarkDelete, NotFound, FlagDelete, Unlink, DropRow, DeleteDone,
     RunInv
<1>3. ASSUME RetryStep PROVE MovedInv'
  BY <1>3 DEF RetryStep, RetryPublish, NothingToRetry
<1>4. ASSUME ScanStep PROVE MovedInv'
  BY <1>4 DEF ScanStep, ScanRow, ScanDone, FlagMissing
<1>5. ASSUME PublishStep PROVE MovedInv'
  <2>1. ASSUME ClearDirty PROVE MovedInv'
    BY <2>1, ClearDirtyStep
  <2> QED
    BY <1>5, <2>1 DEF PublishStep, StartRun, Stage, Install, Swap, Cleanup, Succeed,
       RecordFailure, FlagFailure
<1>6. ASSUME FinishStep PROVE MovedInv'
  BY <1>6 DEF FinishStep, StartPurge, SkipPurge, PurgeBlob, PurgeRow, PurgeDone
<1>7. ASSUME StartupStep PROVE MovedInv'
  BY <1>7 DEF StartupStep, FlagOrphan, MoveOrphan, DiscardNext, DecidePublish, ServeAsIs
<1>8. ASSUME Fault PROVE MovedInv'
  <2>1. ASSUME NEW x \in Path, LoseBlob(x) PROVE MovedInv'
    BY <2>1 DEF LoseBlob
  <2> QED
    BY <1>8, <2>1 DEF Fault, Crash, PublishFails, PlaceFails, UndoFails, UnlinkFails
<1>9. ASSUME ClientRequest PROVE MovedInv'
  BY <1>9 DEF ClientRequest, RequestUpload, RequestDelete, RequestPublish, RequestRetry,
     Request
<1>10. ASSUME Restart PROVE MovedInv'
  BY <1>10 DEF Restart
<1>11. ASSUME \E t \in Client : Acquire(t) PROVE MovedInv'
  BY <1>11 DEF Acquire
<1>12. ASSUME UNCHANGED vars PROVE MovedInv'
  BY <1>12 DEF vars
<1> QED
  BY <1>1, <1>2, <1>3, <1>4, <1>5, <1>6, <1>7, <1>8, <1>9, <1>10, <1>11, <1>12 DEF Next,
     Section

\* Releasing the lock keeps the types and the lock's bookkeeping.
LEMMA ReleaseType ==
    ASSUME TypeOK, HolderInv, lock # None, Release
    PROVE  /\ lock' \in Process \cup {None} /\ pc' \in Point
           /\ up' \in {"down", "starting", "serving"}
           /\ job' \in [Process -> JobRecord \cup {None}] /\ loc' \in Locals
           /\ HolderInv'
BY NoLocalsType DEF Release, TypeOK, HolderInv, Process, Client, Point

\* Every step of the lock holder keeps the types and the lock's bookkeeping.
LEMMA SectionType ==
    ASSUME TypeOK, HolderInv, WorklistInv,
           Section \/ PublishFails \/ PlaceFails \/ UndoFails \/ UnlinkFails
    PROVE  TypeOK' /\ HolderInv'
<1> USE ReleaseType, NoLocalsType DEF Step, TypeOK, HolderInv, Locals, Row, State,
       Process, Client, Point, PublishPoint, RunStatus, db, disk, history
<1>1. ASSUME RefuseItem PROVE TypeOK' /\ HolderInv'
  BY <1>1, ItemType DEF RefuseItem
<1>2. ASSUME LinkItem PROVE TypeOK' /\ HolderInv'
  <2>1. pool' \in Pool
    BY <1>2, DestType DEF LinkItem, Pool
  <2>2. loc' \in Locals
    BY <1>2 DEF LinkItem, Stored
  <2>3. TypeOK'
    BY <1>2, <2>1, <2>2 DEF LinkItem
  <2>4. HolderInv'
    BY <1>2 DEF LinkItem
  <2> QED
    BY <2>3, <2>4
<1>3. ASSUME CommitItem PROVE TypeOK' /\ HolderInv'
  <2>1. /\ pc = "commit" /\ pc' = "place" /\ lock # None /\ lock' = lock /\ up' = up
        /\ job[lock].items # <<>> /\ job' = NextItem
    BY <1>3, CommitEffect
  <2>2. /\ job' \in [Process -> JobRecord \cup {None}]
        /\ \A t \in Process : job'[t] # None <=> job[t] # None
        /\ \A t \in Process :
              job[t] # None => job'[t].op = job[t].op /\ job'[t].cfg = job[t].cfg
    BY <2>1, ItemType
  <2>3. lost' \subseteq Path /\ stray' \subseteq Path
    BY <1>3 DEF CommitItem, PlaceRow
  <2>4. TypeOK'
    <3>1. /\ rows' \in [Package -> Row \cup {None}] /\ loc' \in Locals
          /\ pool' = pool /\ live' = live /\ next' = next /\ lastRun' = lastRun
          /\ forgotten' = forgotten /\ moved' = moved
      BY <1>3, CommitEffect
    <3>2. dirty' \in BOOLEAN
      BY <1>3 DEF CommitItem
    <3> QED
      BY <2>1, <2>2, <2>3, <3>1, <3>2
  <2>5. HolderInv'
    BY <2>1, <2>2
  <2> QED
    BY <2>4, <2>5
<1>4. ASSUME PublishPlaced PROVE TypeOK' /\ HolderInv'
  BY <1>4 DEF PublishPlaced
<1>5. ASSUME NothingPlaced PROVE TypeOK' /\ HolderInv'
  BY <1>5 DEF NothingPlaced
<1>6. ASSUME MarkDelete PROVE TypeOK' /\ HolderInv'
  BY <1>6 DEF MarkDelete, Registered
<1>7. ASSUME NotFound PROVE TypeOK' /\ HolderInv'
  BY <1>7 DEF NotFound
<1>8. ASSUME FlagDelete PROVE TypeOK' /\ HolderInv'
  BY <1>8 DEF FlagDelete
<1>9. ASSUME Unlink PROVE TypeOK' /\ HolderInv'
  <2>1. pool' \in Pool
    BY <1>9 DEF Unlink, Pool
  <2>2. TypeOK'
    BY <1>9, <2>1 DEF Unlink
  <2>3. HolderInv'
    BY <1>9, <2>1, <2>2 DEF Unlink
  <2> QED
    BY <2>2, <2>3
<1>10. ASSUME DropRow PROVE TypeOK' /\ HolderInv'
  <2>1. rows' \in [Package -> Row \cup {None}]
    BY <1>10 DEF DropRow
  <2>2. TypeOK'
    BY <1>10, <2>1 DEF DropRow
  <2>3. HolderInv'
    BY <1>10, <2>1, <2>2 DEF DropRow
  <2> QED
    BY <2>2, <2>3
<1>11. ASSUME DeleteDone PROVE TypeOK' /\ HolderInv'
  BY <1>11 DEF DeleteDone
<1>12. ASSUME RetryPublish PROVE TypeOK' /\ HolderInv'
  BY <1>12 DEF RetryPublish
<1>13. ASSUME NothingToRetry PROVE TypeOK' /\ HolderInv'
  BY <1>13 DEF NothingToRetry
<1>14. ASSUME ScanRow("scan") PROVE TypeOK' /\ HolderInv'
  <2>1. rows' \in [Package -> Row \cup {None}]
    BY <1>14 DEF ScanRow, RowsIn, InState, Registered, WorklistInv
  <2>2. loc' \in Locals
    <3>1. PICK p \in loc.todo :
            loc' = [loc EXCEPT !.todo = @ \ {p}, !.found = @ \/ ~Stored(FileOf(p))]
      BY <1>14 DEF ScanRow
    <3>2. (loc.found \/ ~Stored(FileOf(p))) \in BOOLEAN
      OBVIOUS
    <3> QED
      BY <3>1, <3>2
  <2>3. TypeOK'
    BY <1>14, <2>1, <2>2 DEF ScanRow, RowsIn, InState, Registered, WorklistInv
  <2>4. HolderInv'
    BY <1>14, <2>1, <2>2, <2>3 DEF ScanRow, RowsIn, InState, Registered, WorklistInv
  <2> QED
    BY <2>3, <2>4
<1>15. ASSUME ScanRow("boot_scan") PROVE TypeOK' /\ HolderInv'
  <2>1. rows' \in [Package -> Row \cup {None}]
    BY <1>15 DEF ScanRow, RowsIn, InState, Registered, WorklistInv
  <2>2. loc' \in Locals
    <3>1. PICK p \in loc.todo :
            loc' = [loc EXCEPT !.todo = @ \ {p}, !.found = @ \/ ~Stored(FileOf(p))]
      BY <1>15 DEF ScanRow
    <3>2. (loc.found \/ ~Stored(FileOf(p))) \in BOOLEAN
      OBVIOUS
    <3> QED
      BY <3>1, <3>2
  <2>3. TypeOK'
    BY <1>15, <2>1, <2>2 DEF ScanRow, RowsIn, InState, Registered, WorklistInv
  <2>4. HolderInv'
    BY <1>15, <2>1, <2>2, <2>3 DEF ScanRow, RowsIn, InState, Registered, WorklistInv
  <2> QED
    BY <2>3, <2>4
<1>16. ASSUME ScanDone("scan", "flag") PROVE TypeOK' /\ HolderInv'
  BY <1>16 DEF ScanDone
<1>17. ASSUME ScanDone("boot_scan", "boot_flag") PROVE TypeOK' /\ HolderInv'
  BY <1>17 DEF ScanDone
<1>18. ASSUME FlagMissing("flag", "stage") PROVE TypeOK' /\ HolderInv'
  <2>1. TypeOK'
    BY <1>18 DEF FlagMissing
  <2> QED
    BY <1>18, <2>1 DEF FlagMissing
<1>19. ASSUME FlagMissing("boot_flag", "finish") PROVE TypeOK' /\ HolderInv'
  BY <1>19 DEF FlagMissing
<1>20. ASSUME StartRun PROVE TypeOK' /\ HolderInv'
  BY <1>20 DEF StartRun, RowsIn
<1>21. ASSUME Stage PROVE TypeOK' /\ HolderInv'
  <2>1. PICK s \in Read : loc' = [loc EXCEPT !.staged = Index(Present, s)]
    BY <1>21 DEF Stage
  <2>2. Present \in SUBSET RowsIn("active")
    BY DEF Present
  <2>3. Index(Present, s) \in Tree
    BY <2>2, IndexType
  <2>4. loc' \in Locals
    BY <2>1, <2>3
  <2>5. rows' \in [Package -> Row \cup {None}]
    BY <1>21 DEF Stage, RowsIn, InState, Registered
  <2>6. TypeOK'
    BY <1>21, <2>4, <2>5 DEF Stage
  <2>7. HolderInv'
    BY <1>21 DEF Stage
  <2> QED
    BY <2>6, <2>7
<1>22. ASSUME Install PROVE TypeOK' /\ HolderInv'
  BY <1>22 DEF Install
<1>23. ASSUME Swap PROVE TypeOK' /\ HolderInv'
  BY <1>23 DEF Swap
<1>24. ASSUME Cleanup PROVE TypeOK' /\ HolderInv'
  BY <1>24 DEF Cleanup
<1>25. ASSUME Succeed PROVE TypeOK' /\ HolderInv'
  BY <1>25 DEF Succeed
<1>26. ASSUME ClearDirty PROVE TypeOK' /\ HolderInv'
  <2>1. pc' \in Point /\ up' \in {"down", "starting", "serving"}
    BY <1>26, ClearDirtyStep DEF ClearDirty, AfterPublish, ClientOp
  <2>2. TypeOK'
    <3>1. /\ job' \in [Process -> JobRecord \cup {None}] /\ loc' \in Locals
          /\ lock' \in Process \cup {None}
      BY <1>26, NoLocalsType DEF ClearDirty
    <3> QED
      BY <1>26, <2>1, <3>1 DEF ClearDirty
  <2>3. HolderInv'
    BY <1>26, <2>1, <2>2, ClearDirtyStep DEF ClearDirty, AfterPublish, ClientOp
  <2> QED
    BY <2>2, <2>3
<1>27. ASSUME RecordFailure PROVE TypeOK' /\ HolderInv'
  BY <1>27 DEF RecordFailure
<1>28. ASSUME FlagFailure PROVE TypeOK' /\ HolderInv'
  BY <1>28 DEF FlagFailure
<1>29. ASSUME StartPurge PROVE TypeOK' /\ HolderInv'
  BY <1>29 DEF StartPurge, RowsIn
<1>30. ASSUME SkipPurge PROVE TypeOK' /\ HolderInv'
  <2>1. TypeOK'
    BY <1>30 DEF SkipPurge, AfterFinish, ClientOp
  <2>2. TypeOK'
    BY <1>30, <2>1 DEF SkipPurge, AfterFinish, ClientOp
  <2>3. HolderInv'
    BY <1>30, <2>1, <2>2 DEF SkipPurge, AfterFinish, ClientOp
  <2> QED
    BY <2>2, <2>3
<1>31. ASSUME PurgeBlob PROVE TypeOK' /\ HolderInv'
  <2>1. pool' \in Pool
    BY <1>31 DEF PurgeBlob, Pool
  <2>2. TypeOK'
    BY <1>31, <2>1 DEF PurgeBlob
  <2>3. HolderInv'
    BY <1>31, <2>1, <2>2 DEF PurgeBlob
  <2> QED
    BY <2>2, <2>3
<1>32. ASSUME PurgeRow PROVE TypeOK' /\ HolderInv'
  <2>1. rows' \in [Package -> Row \cup {None}]
    BY <1>32 DEF PurgeRow
  <2>2. TypeOK'
    BY <1>32, <2>1 DEF PurgeRow
  <2>3. HolderInv'
    BY <1>32, <2>1, <2>2 DEF PurgeRow
  <2> QED
    BY <2>2, <2>3
<1>33. ASSUME PurgeDone PROVE TypeOK' /\ HolderInv'
  <2>1. TypeOK'
    BY <1>33 DEF PurgeDone, AfterFinish, ClientOp
  <2>2. TypeOK'
    BY <1>33, <2>1 DEF PurgeDone, AfterFinish, ClientOp
  <2>3. HolderInv'
    BY <1>33, <2>1, <2>2 DEF PurgeDone, AfterFinish, ClientOp
  <2> QED
    BY <2>2, <2>3
<1>34. ASSUME FlagOrphan PROVE TypeOK' /\ HolderInv'
  <2>1. loc' \in Locals
    <3>1. PICK x \in loc.orphans : loc' = [loc EXCEPT !.blob = x, !.orphans = @ \ {x}]
      BY <1>34 DEF FlagOrphan
    <3> QED
      BY <3>1
  <2>2. TypeOK'
    BY <1>34, <2>1 DEF FlagOrphan
  <2>3. HolderInv'
    BY <1>34, <2>1, <2>2 DEF FlagOrphan
  <2> QED
    BY <2>2, <2>3
<1>35. ASSUME MoveOrphan PROVE TypeOK' /\ HolderInv'
  <2>1. pool' \in Pool
    BY <1>35 DEF MoveOrphan, Pool
  <2>2. TypeOK'
    BY <1>35, <2>1 DEF MoveOrphan
  <2>3. HolderInv'
    BY <1>35, <2>1, <2>2 DEF MoveOrphan
  <2> QED
    BY <2>2, <2>3
<1>36. ASSUME DiscardNext PROVE TypeOK' /\ HolderInv'
  BY <1>36 DEF DiscardNext, RowsIn, NoLocals
<1>37. ASSUME DecidePublish PROVE TypeOK' /\ HolderInv'
  BY <1>37 DEF DecidePublish
<1>38. ASSUME ServeAsIs PROVE TypeOK' /\ HolderInv'
  BY <1>38 DEF ServeAsIs
<1>39. ASSUME PublishFails PROVE TypeOK' /\ HolderInv'
  <2>1. loc' \in Locals
    BY <1>39 DEF PublishFails
  <2>2. TypeOK'
    BY <1>39, <2>1 DEF PublishFails
  <2>3. HolderInv'
    BY <1>39, <2>1, <2>2 DEF PublishFails
  <2> QED
    BY <2>2, <2>3
<1>40. ASSUME PlaceFails PROVE TypeOK' /\ HolderInv'
  <2>1. pool' \in Pool
    BY <1>40 DEF PlaceFails, Pool
  <2>2. lock # None
    BY <1>40 DEF PlaceFails, Placing
  <2> QED
    BY <1>40, <2>1, <2>2 DEF PlaceFails
<1>41. ASSUME UnlinkFails PROVE TypeOK' /\ HolderInv'
  BY <1>41 DEF UnlinkFails
<1>42. ASSUME UndoFails PROVE TypeOK' /\ HolderInv'
  <2>1. lock # None /\ stray' \subseteq Path
    BY <1>42, DestType DEF UndoFails
  <2> QED
    BY <1>42, <2>1 DEF UndoFails
<1> QED
  BY <1>1, <1>2, <1>3, <1>4, <1>5, <1>6, <1>7, <1>8, <1>9, <1>10, <1>11, <1>12, <1>13,
     <1>14, <1>15, <1>16, <1>17, <1>18, <1>19, <1>20, <1>21, <1>22, <1>23, <1>24, <1>25,
     <1>26, <1>27, <1>28, <1>29, <1>30, <1>31, <1>32, <1>33, <1>34, <1>35, <1>36, <1>37,
     <1>38, <1>39, <1>40, <1>41, <1>42 DEF Section, UploadStep, DeleteStep, RetryStep, ScanStep,
     PublishStep, FinishStep, StartupStep

\* Every step keeps the types and the lock's bookkeeping.
LEMMA TypeStep ==
    ASSUME TypeOK, HolderInv, WorklistInv, [Next]_vars
    PROVE  TypeOK' /\ HolderInv'
<1>1. ASSUME ClientRequest PROVE TypeOK' /\ HolderInv'
  <2>1. ASSUME NEW t \in Worker, RequestUpload(t) PROVE TypeOK' /\ HolderInv'
    <3>1. 0 \in 0 .. MaxId /\ "upload" \in ClientOp
      BY DEF ClientOp
    <3>2. Job("upload", 0) \in JobRecord /\ Job("upload", 0).op = "upload"
      BY <3>1, JobType
    <3> QED
      BY <2>1, <3>1, <3>2, RequestType DEF RequestUpload, Client
  <2>2. ASSUME NEW t \in Worker, RequestDelete(t) PROVE TypeOK' /\ HolderInv'
    <3>1. PICK p \in Package : Registered(p) /\ Request(t, Job("delete", rows[p].id))
      BY <2>2 DEF RequestDelete
    <3>2. rows[p].id \in 0 .. MaxId
      BY <3>1 DEF TypeOK, Row, Registered
    <3>3. Job("delete", rows[p].id) \in JobRecord
          /\ Job("delete", rows[p].id).op = "delete"
      BY <3>2, JobType DEF ClientOp
    <3> QED
      BY <3>1, <3>3, RequestType DEF Client, ClientOp
  <2>3. ASSUME NEW t \in Worker, RequestPublish(t) PROVE TypeOK' /\ HolderInv'
    <3>1. 0 \in 0 .. MaxId /\ "publish" \in ClientOp
      BY DEF ClientOp
    <3>2. /\ Job("publish", 0) \in JobRecord
          /\ Job("publish", 0).op = "publish"
      BY <3>1, JobType
    <3> QED
      BY <2>3, <3>1, <3>2, RequestType DEF RequestPublish, Client
  <2>4. ASSUME RequestRetry PROVE TypeOK' /\ HolderInv'
    <3>1. 0 \in 0 .. MaxId /\ "retry" \in ClientOp
      BY DEF ClientOp
    <3>2. Job("retry", 0) \in JobRecord /\ Job("retry", 0).op = "retry"
      BY <3>1, JobType
    <3> QED
      BY <2>4, <3>1, <3>2, RequestType DEF RequestRetry, Client
  <2> QED
    BY <1>1, <2>1, <2>2, <2>3, <2>4 DEF ClientRequest
<1>2. ASSUME NEW t \in Client, Acquire(t) PROVE TypeOK' /\ HolderInv'
  <2>1. t \in Process /\ t # None /\ t # Boot /\ job[t].op \in ClientOp
    BY <1>2 DEF Acquire, HolderInv, Process, Client
  <2>2. pc' \in {"place", "mark", "run", "retry"} /\ (pc' = "place" => job[t].op = "upload")
    BY <1>2, <2>1 DEF Acquire, EntryPoint, ClientOp
  <2>3. TypeOK'
    BY <1>2, <2>1, <2>2, AcquireJob DEF Acquire, TypeOK, Point, db, disk, history
  <2>4. /\ lock = None /\ lock' = t /\ up' = up /\ job[t] # None
        /\ \A u \in Process : job'[u] # None <=> job[u] # None
        /\ \A u \in Process : job[u] # None => job'[u].op = job[u].op
    BY <1>2, AcquireJob DEF Acquire
  <2>5. lock # Boot /\ lock' # Boot
    BY <2>1, <2>4 DEF Process
  <2>6. pc' \notin {"idle", "commit", "finish", "purge", "purge_row", "orphan", "move",
                   "boot_scan", "boot_flag", "decide"}
    BY <2>2
  <2>7. pc' = "place" => job'[lock'].op = "upload" /\ job'[lock'].cfg \in Setting
    BY <1>2, <2>1, <2>2, <2>4, AcquireJob
  <2>8. up # "starting" /\ up' # "starting"
    BY <2>4, <2>5 DEF HolderInv
  <2>9. up' # "down"
    BY <2>4, <1>2 DEF HolderInv
  <2> QED
    BY <2>1, <2>3, <2>4, <2>5, <2>6, <2>7, <2>8, <2>9 DEF HolderInv, Process, Client
<1>3. ASSUME Restart PROVE TypeOK' /\ HolderInv'
  <2>1. Job("startup", 0) \in JobRecord /\ Job("startup", 0).op = "startup"
    <3>1. 0 \in 0 .. MaxId
      OBVIOUS
    <3> QED
      BY <3>1, JobType
  <2>2. loc' \in Locals
    BY <1>3 DEF Restart, NoLocals, Locals, Orphans
  <2>3. TypeOK'
    BY <1>3, <2>1, <2>2 DEF Restart, TypeOK, Process, Point, db, disk
  <2> QED
    BY <1>3, <2>1, <2>3 DEF Restart, TypeOK, HolderInv, Process, Client
<1>4. ASSUME Crash PROVE TypeOK' /\ HolderInv'
  BY <1>4, NoLocalsType DEF Crash, Unannounced, TypeOK, HolderInv, Process, Client, Point,
     db, disk
<1>5. ASSUME NEW x \in Path, LoseBlob(x) PROVE TypeOK' /\ HolderInv'
  BY <1>5, RemoveAt DEF LoseBlob, TypeOK, HolderInv, db
<1>6. ASSUME UNCHANGED vars PROVE TypeOK' /\ HolderInv'
  BY <1>6 DEF vars, db, disk, history, TypeOK, HolderInv
<1> QED
  BY <1>1, <1>2, <1>3, <1>4, <1>5, <1>6, SectionType DEF Next, Fault

\* The invariant holds initially.
LEMMA InitInv == Init => Inv
<1> SUFFICES ASSUME Init PROVE Inv
  OBVIOUS
<1>1. TypeOK
  BY InitType
<1>2. HolderInv /\ RunInv /\ StagedInv
  BY DEF Init, HolderInv, RunInv, StagedInv, Process, Client, PublishPoint
<1>3. WorklistInv /\ TargetInv /\ PlaceInv
  BY DEF Init, WorklistInv, TargetInv, PlaceInv, NoLocals
<1>4. ListedInv /\ MissingInv /\ CleanInv /\ IndexServable /\ ActiveStored
  BY DEF Init, ListedInv, MissingInv, CleanInv, IndexServable, ActiveStored, Listed, Active,
     InState, Registered
<1>5. MovedInv
  BY DEF Init, MovedInv
<1> QED
  BY <1>1, <1>2, <1>3, <1>4, <1>5 DEF Inv

\* The invariant is inductive.
LEMMA InvStep ==
    ASSUME Inv, [Next]_vars
    PROVE  Inv'
BY TypeStep, RunStep, StagedStep, WorklistStep, TargetStep, PlaceStep, ListedStep,
   MissingStep, MovedStep, CleanStep, ServableStep, StoredStep DEF Inv

\* The inductive invariant holds in every reachable state, for any packages,
\* contents, threads and bounds, wherever a crash falls.
THEOREM InvAlways == Spec => []Inv
<1>1. Inv /\ [Next]_vars => Inv'
  BY InvStep
<1> QED
  BY InitInv, <1>1, PTL DEF Spec

\* The part of the invariant that types rest on holds initially.
LEMMA TypeInvInit == Init => TypeOK /\ HolderInv /\ WorklistInv
  BY InitInv DEF Inv

\* The part of the invariant that types rest on is inductive, whatever crashes do.
LEMMA TypeInvStep ==
    ASSUME TypeOK, HolderInv, WorklistInv, [Next]_vars
    PROVE  TypeOK' /\ HolderInv' /\ WorklistInv'
BY TypeStep, WorklistStep

\* Types are respected in every reachable state, whatever crashes do.
THEOREM TypeCorrect == Spec => []TypeOK
<1>1. (TypeOK /\ HolderInv /\ WorklistInv) /\ [Next]_vars
        => (TypeOK /\ HolderInv /\ WorklistInv)'
  BY TypeInvStep
<1> QED
  BY TypeInvInit, <1>1, PTL DEF Spec

\* Decision K13 but for its exceptions, for any number of packages and threads: no
\* operation, recovery or crash takes away a file the index lists, other than a delete
\* that died unannounced and the quarantine of a file that no row names.
THEOREM IndexAlwaysServable == Spec => []IndexServable
<1>1. Inv => IndexServable
  BY DEF Inv
<1> QED
  BY InvAlways, <1>1, PTL

\* Every active row keeps its own bytes, for any number of packages and threads.
THEOREM ActiveAlwaysStored == Spec => []ActiveStored
<1>1. Inv => ActiveStored
  BY DEF Inv
<1> QED
  BY InvAlways, <1>1, PTL

\* What readyz promises follows from CleanInv, MissingInv and MovedInv: with no flag
\* set and the last run successful, the index offers every row of its architectures.
THEOREM ReadyAlwaysPublished == Spec => []ReadyMeansPublished
<1>1. Inv => ReadyMeansPublished
  <2> SUFFICES ASSUME Inv, Ready, NEW p \in Package
               PROVE  /\ live # None
                      /\ Active(p) => live[p] \in {Offer(p), Skipped}
                      /\ lock = None /\ Listed(p) =>
                            Active(p) \/ ListedFile(p) \in lost \/ p \in forgotten
                      /\ Listed(p) => p \notin moved
    <3>1. Inv /\ Ready => live # None
      BY DEF Inv, CleanInv, Ready
    <3> QED
      BY <3>1 DEF ReadyMeansPublished
  <2>1. moved = {}
    BY DEF Inv, MovedInv, Ready
  <2>2. lock = None => pc # "flag_delete"
    BY DEF Inv, HolderInv
  <2> QED
    BY <2>1, <2>2 DEF Inv, CleanInv, MissingInv, Ready
<1> QED
  BY InvAlways, <1>1, PTL

-----------------------------------------------------------------------------
(* The row goes last.                                                          *)

\* Between unlinking a file and dropping its row nothing puts a file back.
GoneInv == pc \in {"drop", "purge_row"} => ~Stored(FileOf(loc.target))

\* GoneInv is preserved by every step.
LEMMA GoneStep ==
    ASSUME TypeOK, HolderInv, WorklistInv, TargetInv, GoneInv, [Next]_vars
    PROVE  GoneInv'
<1> USE DEF GoneInv, Step, Release, AfterFinish, db, disk
<1>a. ASSUME rows' = rows, pool' = pool, loc' = loc, pc' = pc PROVE GoneInv'
  BY <1>a DEF Stored, FileOf
<1>1. ASSUME UploadStep PROVE GoneInv'
  BY <1>1, CommitEffect DEF UploadStep, RefuseItem, LinkItem, PublishPlaced, NothingPlaced
<1>2. ASSUME Unlink PROVE GoneInv'
  <2>1. loc.target \in Package /\ Registered(loc.target) /\ loc' = loc /\ rows' = rows
    BY <1>2 DEF Unlink, TargetInv, RowsIn, InState, HolderInv
  <2>2. pool'[FileOf(loc.target)] = None
    BY <1>2, <2>1, FileType, RemoveAt DEF Unlink, Stored
  <2> QED
    BY <2>1, <2>2 DEF Stored, FileOf
<1>3. ASSUME DeleteStep PROVE GoneInv'
  BY <1>2, <1>3 DEF DeleteStep, MarkDelete, NotFound, FlagDelete, DropRow, DeleteDone
<1>4. ASSUME RetryStep \/ ScanStep PROVE GoneInv'
  BY <1>4 DEF RetryStep, RetryPublish, NothingToRetry, ScanStep, ScanRow, ScanDone,
     FlagMissing
<1>5. ASSUME PublishStep PROVE GoneInv'
  <2>1. ASSUME ClearDirty PROVE GoneInv'
    BY <2>1, ClearDirtyStep
  <2> QED
    BY <1>5, <2>1 DEF PublishStep, StartRun, Stage, Install, Swap, Cleanup, Succeed,
       RecordFailure, FlagFailure
<1>6. ASSUME PurgeBlob PROVE GoneInv'
  <2>1. PICK p \in loc.todo : /\ pool' = [pool EXCEPT ![FileOf(p)] = None]
                              /\ loc' = [loc EXCEPT !.target = p]
    BY <1>6 DEF PurgeBlob
  <2>2. loc'.target = p /\ rows' = rows
    BY <1>6, <2>1 DEF PurgeBlob, TypeOK, Locals
  <2>3. p \in Package /\ Registered(p)
    BY <1>6, <2>1 DEF PurgeBlob, WorklistInv, RowsIn, InState
  <2>4. pool'[FileOf(p)] = None
    BY <2>1, <2>3, FileType, RemoveAt DEF Stored
  <2> QED
    BY <2>2, <2>4 DEF Stored, FileOf
<1>7. ASSUME FinishStep PROVE GoneInv'
  BY <1>6, <1>7 DEF FinishStep, StartPurge, SkipPurge, PurgeRow, PurgeDone
<1>8. ASSUME StartupStep PROVE GoneInv'
  BY <1>8 DEF StartupStep, FlagOrphan, MoveOrphan, DiscardNext, DecidePublish, ServeAsIs
<1>9. ASSUME NEW x \in Path, LoseBlob(x) PROVE GoneInv'
  <2>1. \A y : ~Stored(y) => ~Stored(y)'
    BY <1>9 DEF LoseBlob, Stored, TypeOK, Pool
  <2> QED
    BY <1>9, <2>1 DEF LoseBlob, FileOf, Stored
<1>10. ASSUME Fault PROVE GoneInv'
  BY <1>9, <1>10 DEF Fault, Crash, PublishFails, PlaceFails, UndoFails, UnlinkFails
<1>11. ASSUME ClientRequest PROVE GoneInv'
  BY <1>a, <1>11 DEF ClientRequest, RequestUpload, RequestDelete, RequestPublish,
     RequestRetry, Request
<1>12. ASSUME Restart PROVE GoneInv'
  BY <1>12 DEF Restart
<1>13. ASSUME \E t \in Client : Acquire(t) PROVE GoneInv'
  BY <1>13 DEF Acquire, EntryPoint, ClientOp, HolderInv
<1>14. ASSUME UNCHANGED vars PROVE GoneInv'
  BY <1>a, <1>14 DEF vars
<1> QED
  BY <1>1, <1>3, <1>4, <1>5, <1>7, <1>8, <1>10, <1>11, <1>12, <1>13, <1>14 DEF Next, Section

\* Only an upload's commit gives a row another path, and only the last step of a
\* delete and of a purge unregister a package.
LEMMA RowKept ==
    ASSUME TypeOK, HolderInv, WorklistInv, [Next]_vars, NEW p \in Package, Registered(p)
    PROVE  \/ Registered(p)' /\ FileOf(p)' = FileOf(p)
           \/ CommitItem
           \/ (DropRow \/ PurgeRow) /\ p = loc.target
<1> DEFINE Kept == Registered(p)' /\ FileOf(p)' = FileOf(p)
<1> USE DEF Step, Release, db, disk
<1>1. ASSUME rows' = rows PROVE Kept
  BY <1>1 DEF Registered, FileOf
<1>2. ASSUME NEW q \in Package, NEW s \in State, rows' = [rows EXCEPT ![q].state = s]
      PROVE  Kept
  <2>1. rows[p] \in Row
    BY DEF TypeOK, Registered
  <2>2. [rows[p] EXCEPT !.state = s] \in Row /\ [rows[p] EXCEPT !.state = s].dir = rows[p].dir
    BY <2>1 DEF Row
  <2>3. rows'[p] = rows[p] \/ rows'[p] = [rows[p] EXCEPT !.state = s]
    BY <1>2 DEF TypeOK
  <2> QED
    BY <2>1, <2>2, <2>3 DEF Registered, FileOf
<1>3. ASSUME Stage PROVE Kept
  <2>1. rows[p] \in Row
    BY DEF TypeOK, Registered
  <2>2. /\ [rows[p] EXCEPT !.state = "missing"] \in Row
        /\ [rows[p] EXCEPT !.state = "missing"].dir = rows[p].dir
    BY <2>1 DEF Row, State
  <2>3. rows'[p] = rows[p] \/ rows'[p] = [rows[p] EXCEPT !.state = "missing"]
    BY <1>3 DEF Stage
  <2> QED
    BY <2>1, <2>2, <2>3 DEF Registered, FileOf
<1>4. ASSUME MarkDelete PROVE Kept
  BY <1>2, <1>4 DEF MarkDelete, State
<1>5. ASSUME NEW at \in {"scan", "boot_scan"}, ScanRow(at) PROVE Kept
  <2>1. PICK q \in loc.todo :
          rows' = IF Stored(FileOf(q)) THEN rows ELSE [rows EXCEPT ![q].state = "missing"]
    BY <1>5 DEF ScanRow
  <2>2. q \in Package
    BY <1>5, <2>1 DEF ScanRow, WorklistInv, RowsIn
  <2> QED
    BY <1>1, <1>2, <2>1, <2>2 DEF State
<1>6. ASSUME NEW q, rows' = [rows EXCEPT ![q] = None], p # q PROVE Kept
  <2>1. rows'[p] = rows[p]
    BY <1>6 DEF TypeOK
  <2> QED
    BY <2>1 DEF Registered, FileOf
<1>7. UploadStep => Kept \/ CommitItem
  BY <1>1 DEF UploadStep, RefuseItem, LinkItem, PublishPlaced, NothingPlaced
<1>8. RetryStep \/ ScanStep => Kept
  BY <1>1, <1>5 DEF RetryStep, RetryPublish, NothingToRetry, ScanStep, ScanDone, FlagMissing
<1>9. PublishStep => Kept
  BY <1>1, <1>3 DEF PublishStep, StartRun, Install, Swap, Cleanup, Succeed, ClearDirty,
     RecordFailure, FlagFailure
<1>10. DeleteStep => Kept \/ (DropRow /\ p = loc.target)
  BY <1>1, <1>4, <1>6 DEF DeleteStep, NotFound, FlagDelete, Unlink, DropRow, DeleteDone
<1>11. FinishStep => Kept \/ (PurgeRow /\ p = loc.target)
  BY <1>1, <1>6 DEF FinishStep, StartPurge, SkipPurge, PurgeBlob, PurgeRow, PurgeDone
<1>12. StartupStep \/ Fault \/ Restart => Kept
  BY <1>1 DEF StartupStep, FlagOrphan, MoveOrphan, DiscardNext, DecidePublish, ServeAsIs,
     Fault, Crash, PublishFails, PlaceFails, UndoFails, UnlinkFails, LoseBlob, Restart
<1>13. ClientRequest \/ (\E t \in Client : Acquire(t)) \/ UNCHANGED vars => Kept
  BY <1>1 DEF ClientRequest, RequestUpload, RequestDelete, RequestPublish, RequestRetry,
     Request, Acquire, vars
<1> QED
  BY <1>7, <1>8, <1>9, <1>10, <1>11, <1>12, <1>13 DEF Next, Section

\* Only the last step of a delete and of a purge unregister a package.
LEMMA Unregister ==
    ASSUME TypeOK, HolderInv, WorklistInv, [Next]_vars,
           NEW p \in Package, Registered(p), ~Registered(p)'
    PROVE  (DropRow \/ PurgeRow) /\ p = loc.target
<1>1. CommitItem => Registered(p)'
  BY CommitEffect DEF Registered
<1> QED
  BY <1>1, RowKept

\* A row is deleted last, for any number of packages and threads.
THEOREM RowAlwaysDeletedLast == Spec => RowDeletedLast
<1> DEFINE LastStep ==
      \A p \in Package : Registered(p) /\ ~Registered(p)' =>
         ~Stored(FileOf(p)) /\ (Listed(p) => p \in forgotten)
<1>1. Init => GoneInv
  BY DEF Init, GoneInv
<1>2. Inv /\ GoneInv /\ [Next]_vars => GoneInv'
  BY GoneStep DEF Inv
<1>3. Inv /\ GoneInv /\ [Next]_vars => [LastStep]_vars
  <2> SUFFICES ASSUME Inv, GoneInv, [Next]_vars, NEW p \in Package,
                      Registered(p), ~Registered(p)'
               PROVE  ~Stored(FileOf(p)) /\ (Listed(p) => p \in forgotten)
    OBVIOUS
  <2>1. (DropRow \/ PurgeRow) /\ p = loc.target
    BY Unregister DEF Inv
  <2>2. ~Stored(FileOf(p))
    BY <2>1 DEF GoneInv, DropRow, PurgeRow, Step
  <2>3. p \in RowsIn("pending_delete") /\ ~dirty /\ lastRun = "success" /\ pc # "flag_delete"
    BY <2>1 DEF DropRow, PurgeRow, Step, Inv, RunInv, HolderInv, TargetInv, WorklistInv
  <2> QED
    BY <2>2, <2>3, PendingUnlisted DEF Inv
<1> QED
  BY InvAlways, <1>1, <1>2, <1>3, PTL DEF Spec, RowDeletedLast
-----------------------------------------------------------------------------
(* No file without a row.                                                      *)

\* Where a file that no row names can be: left by a crash, given up since the start,
\* linked by the upload that is about to commit its row, or still to be quarantined by
\* start-up recovery.
OrphanInv ==
    \A x \in Path : Stored(x) /\ ~Named(x) =>
        \/ up = "down"
        \/ x \in stray
        \/ pc = "commit" /\ loc.created /\ x = dest
        \/ pc \in {"orphan", "move"} /\ x \in loc.orphans
        \/ pc = "move" /\ x = loc.blob

\* Only os.link puts a file into the pool.
LEMMA Stores ==
    ASSUME TypeOK, [Next]_vars, NEW x \in Path, ~Stored(x), Stored(x)'
    PROVE  LinkItem
<1> USE DEF Stored, Step, Release, db, disk
<1>0. ASSUME NEW y, pool' = [pool EXCEPT ![y] = None] PROVE FALSE
  BY <1>0 DEF TypeOK, Pool
<1>1. ~(UploadStep /\ ~LinkItem)
  BY DEF UploadStep, RefuseItem, CommitItem, PlaceRow, PublishPlaced, NothingPlaced
<1>2. ~DeleteStep /\ ~RetryStep
  BY <1>0 DEF DeleteStep, MarkDelete, NotFound, FlagDelete, Unlink, DropRow, DeleteDone,
     RetryStep, RetryPublish, NothingToRetry
<1>3. ~ScanStep /\ ~PublishStep
  BY DEF ScanStep, ScanRow, ScanDone, FlagMissing, PublishStep, StartRun, Stage, Install,
     Swap, Cleanup, Succeed, ClearDirty, RecordFailure, FlagFailure
<1>4. ~FinishStep /\ ~StartupStep
  BY <1>0 DEF FinishStep, StartPurge, SkipPurge, PurgeBlob, PurgeRow, PurgeDone,
     StartupStep, FlagOrphan, MoveOrphan, DiscardNext, DecidePublish, ServeAsIs
<1>5. ~Fault /\ ~Restart
  BY <1>0 DEF Fault, Crash, PublishFails, PlaceFails, UndoFails, UnlinkFails, LoseBlob, Restart
<1>6. ~ClientRequest /\ ~(\E t \in Client : Acquire(t)) /\ ~(UNCHANGED vars)
  BY DEF ClientRequest, RequestUpload, RequestDelete, RequestPublish, RequestRetry, Request,
     Acquire, vars
<1> QED
  BY <1>1, <1>2, <1>3, <1>4, <1>5, <1>6 DEF Next, Section

\* A file that has been given up stays so until its path is named again or the
\* service starts anew.
LEMMA StrayKept ==
    ASSUME TypeOK, HolderInv, [Next]_vars, up # "down", NEW x \in stray
    PROVE  x \in stray' \/ (CommitItem /\ x = dest)
<1> USE DEF Step, Release, db, disk, history
<1>1. ASSUME CommitItem PROVE x \in stray' \/ x = dest
  BY <1>1 DEF CommitItem, PlaceRow
<1>2. UploadStep => CommitItem \/ x \in stray'
  BY DEF UploadStep, RefuseItem, LinkItem, PublishPlaced, NothingPlaced
<1>3. DeleteStep \/ RetryStep \/ ScanStep => x \in stray'
  BY DEF DeleteStep, MarkDelete, NotFound, FlagDelete, Unlink, DropRow, DeleteDone,
     RetryStep, RetryPublish, NothingToRetry, ScanStep, ScanRow, ScanDone, FlagMissing
<1>4. PublishStep => x \in stray'
  BY ClearDirtyStep DEF PublishStep, StartRun, Stage, Install, Swap, Cleanup, Succeed,
     RecordFailure, FlagFailure
<1>5. FinishStep \/ StartupStep => x \in stray'
  BY DEF FinishStep, StartPurge, SkipPurge, PurgeBlob, PurgeRow, PurgeDone, StartupStep,
     FlagOrphan, MoveOrphan, DiscardNext, DecidePublish, ServeAsIs
<1>6. Fault => x \in stray'
  BY DEF Fault, Crash, PublishFails, PlaceFails, UndoFails, UnlinkFails, LoseBlob
<1>7. ClientRequest \/ (\E t \in Client : Acquire(t)) \/ UNCHANGED vars => x \in stray'
  BY DEF ClientRequest, RequestUpload, RequestDelete, RequestPublish, RequestRetry, Request,
     Acquire, vars
<1>8. ~Restart
  BY DEF Restart
<1> QED
  BY <1>1, <1>2, <1>3, <1>4, <1>5, <1>6, <1>7, <1>8 DEF Next, Section

\* OrphanInv is preserved by every step.
LEMMA OrphanStep ==
    ASSUME TypeOK, HolderInv, WorklistInv, TargetInv, PlaceInv, GoneInv, OrphanInv,
           [Next]_vars
    PROVE  OrphanInv'
<1> SUFFICES ASSUME NEW x \in Path, Stored(x)', ~Named(x)', up' # "down", x \notin stray'
             PROVE  \/ pc' = "commit" /\ loc'.created /\ x = dest'
                    \/ pc' \in {"orphan", "move"} /\ x \in loc'.orphans
                    \/ pc' = "move" /\ x = loc'.blob
  BY DEF OrphanInv
<1> DEFINE Goal == \/ pc' = "commit" /\ loc'.created /\ x = dest'
                   \/ pc' \in {"orphan", "move"} /\ x \in loc'.orphans
                   \/ pc' = "move" /\ x = loc'.blob
           Known == \/ pc = "commit" /\ loc.created /\ x = dest
                    \/ pc \in {"orphan", "move"} /\ x \in loc.orphans
                    \/ pc = "move" /\ x = loc.blob
<1>0. x[1] \in Package
  BY DEF Path
<1>1. ~Named(x) /\ (CommitItem => x # dest)
  <2>1. ASSUME CommitItem PROVE x # dest /\ ~Named(x)
    <3>1. /\ dest = <<item.pkg, rows'[item.pkg].dir>> /\ item.pkg \in Package
          /\ rows'[item.pkg] # None /\ pool' = pool
          /\ \A p \in Package : p # item.pkg => rows'[p] = rows[p]
      BY <2>1, CommitEffect
    <3>2. x # dest
      <4> SUFFICES ASSUME x = dest PROVE FALSE
        OBVIOUS
      <4>1. x[1] = item.pkg
        BY <3>1
      <4>2. Registered(x[1])' /\ x = FileOf(x[1])'
        BY <3>1, <4>1 DEF Registered, FileOf
      <4> QED
        BY <4>2 DEF Named
    <3>3. CASE x[1] = item.pkg
      BY <2>1, <3>1, <3>2, <3>3 DEF CommitItem, PlaceRow, Stored
    <3>4. CASE x[1] # item.pkg
      BY <1>0, <3>1, <3>4 DEF Named, Registered, FileOf
    <3> QED
      BY <3>2, <3>3, <3>4
  <2>2. ASSUME DropRow \/ PurgeRow, x[1] = loc.target PROVE ~Named(x)
    <3>1. pool' = pool /\ ~Stored(FileOf(loc.target))
      BY <2>2 DEF DropRow, PurgeRow, GoneInv, Step, disk
    <3> QED
      BY <2>2, <3>1 DEF Named, Stored
  <2>3. ASSUME Registered(x[1])', FileOf(x[1])' = FileOf(x[1]) PROVE ~Named(x)
    BY <2>3 DEF Named
  <2>4. ~Registered(x[1]) => ~Named(x)
    BY DEF Named
  <2> QED
    BY <1>0, <2>1, <2>2, <2>3, <2>4, RowKept
<1>2. Stored(x) /\ up # "down" => Known
  BY <1>1, StrayKept DEF OrphanInv
<1>3. ASSUME LinkItem PROVE Goal
  <2>1. CASE Stored(x)
    BY <1>2, <1>3, <2>1 DEF LinkItem, Step, HolderInv
  <2>2. CASE ~Stored(x)
    <3>1. x = dest
      BY <1>3, <2>2 DEF LinkItem, Stored, TypeOK, Pool
    <3>2. loc'.created /\ dest' = dest /\ pc' = "commit"
      BY <1>3, <2>2, <3>1 DEF LinkItem, Step, TypeOK, Locals, item, dest, cfg
    <3> QED
      BY <3>1, <3>2
  <2> QED
    BY <2>1, <2>2
<1>4. ASSUME Stored(x), ~LinkItem, [Next]_vars, up # "down" PROVE Goal
  <2> USE <1>1, <1>2, <1>4 DEF HolderInv, Step, Release, AfterFinish, db, disk, Stored
  <2>1. ASSUME RefuseItem PROVE Goal
    BY <2>1 DEF RefuseItem
  <2>2. ~CommitItem
    BY CommitEffect
  <2>3. ASSUME UploadStep PROVE Goal
    BY <2>1, <2>2, <2>3 DEF UploadStep, PublishPlaced, NothingPlaced
  <2>4. ASSUME DeleteStep \/ RetryStep PROVE Goal
    BY <2>4 DEF DeleteStep, MarkDelete, NotFound, FlagDelete, Unlink, DropRow, DeleteDone,
       RetryStep, RetryPublish, NothingToRetry
  <2>5. ASSUME ScanStep PROVE Goal
    BY <2>5 DEF ScanStep, ScanRow, ScanDone, FlagMissing
  <2>6. ASSUME PublishStep PROVE Goal
    BY <2>6 DEF PublishStep, StartRun, Stage, Install, Swap, Cleanup, Succeed, ClearDirty,
       RecordFailure, FlagFailure
  <2>7. ASSUME FinishStep PROVE Goal
    BY <2>7 DEF FinishStep, StartPurge, SkipPurge, PurgeBlob, PurgeRow, PurgeDone
  <2>8. ASSUME FlagOrphan PROVE Goal
    <3>1. PICK y \in loc.orphans : loc' = [loc EXCEPT !.blob = y, !.orphans = @ \ {y}]
      BY <2>8 DEF FlagOrphan
    <3>2. loc'.blob = y /\ loc'.orphans = loc.orphans \ {y} /\ pc' = "move" /\ pc = "orphan"
      BY <2>8, <3>1 DEF FlagOrphan, TypeOK, Locals
    <3> QED
      BY <3>2
  <2>9. ASSUME MoveOrphan PROVE Goal
    <3>1. pc = "move" /\ pc' = "orphan" /\ loc' = loc /\ pool'[loc.blob] = None
      BY <2>9 DEF MoveOrphan, WorklistInv, TypeOK, Pool
    <3> QED
      BY <3>1
  <2>10. ASSUME StartupStep PROVE Goal
    BY <2>8, <2>9, <2>10 DEF StartupStep, DiscardNext, DecidePublish, ServeAsIs
  <2>11. ASSUME PlaceFails PROVE Goal
    <3>1. pc = "commit" /\ loc.created /\ x = dest
      BY <2>11 DEF PlaceFails, Placing
    <3>2. pool'[x] = None
      BY <2>11, <3>1 DEF PlaceFails, TypeOK, Pool
    <3> QED
      BY <3>2
  <2>12. ASSUME UndoFails PROVE Goal
    BY <2>12 DEF UndoFails
  <2>13. ASSUME Fault PROVE Goal
    <3>1. ASSUME NEW y \in Path, LoseBlob(y) PROVE Goal
      BY <3>1 DEF LoseBlob, item, dest, cfg
    <3> QED
      BY <2>11, <2>12, <2>13, <3>1 DEF Fault, Crash, PublishFails, UnlinkFails, PublishPoint
  <2>14. ASSUME ClientRequest PROVE Goal
    <3>1. PICK t \in Client : \E j : Request(t, j)
      BY <2>14 DEF ClientRequest, RequestUpload, RequestDelete, RequestPublish,
         RequestRetry, Client
    <3>2. pc = "commit" => job'[lock] = job[lock] /\ lock' = lock
      BY <3>1 DEF Request, TypeOK
    <3> QED
      BY <3>1, <3>2 DEF Request, item, dest, cfg
  <2>15. ASSUME Restart \/ (\E t \in Client : Acquire(t)) PROVE Goal
    BY <2>15 DEF Restart, Acquire
  <2>16. ASSUME UNCHANGED vars PROVE Goal
    BY <2>16 DEF vars, item, dest, cfg
  <2> QED
    BY <2>3, <2>4, <2>5, <2>6, <2>7, <2>10, <2>13, <2>14, <2>15, <2>16 DEF Next, Section
<1>5. ASSUME up = "down" PROVE Goal
  <2>1. pc = "idle" /\ lock = None /\ \A t \in Client : job[t] = None
    BY <1>5 DEF HolderInv
  <2> USE <1>5, <2>1 DEF Step, Release, Fault
  <2>2. ~Section
    <3>1. ~UploadStep /\ ~DeleteStep /\ ~RetryStep
      BY DEF UploadStep, RefuseItem, LinkItem, CommitItem, PublishPlaced, NothingPlaced,
         DeleteStep, MarkDelete, NotFound, FlagDelete, Unlink, DropRow, DeleteDone,
         RetryStep, RetryPublish, NothingToRetry
    <3>2. ~ScanStep /\ ~PublishStep
      BY DEF ScanStep, ScanRow, ScanDone, FlagMissing, PublishStep, StartRun, Stage,
         Install, Swap, Cleanup, Succeed, ClearDirty, RecordFailure, FlagFailure
    <3>3. ~FinishStep /\ ~StartupStep
      BY DEF FinishStep, StartPurge, SkipPurge, PurgeBlob, PurgeRow, PurgeDone,
         StartupStep, FlagOrphan, MoveOrphan, DiscardNext, DecidePublish, ServeAsIs
    <3> QED
      BY <3>1, <3>2, <3>3 DEF Section
  <2>3. ~Fault
    BY DEF Crash, PublishFails, PlaceFails, Placing, UndoFails, UnlinkFails, LoseBlob,
       PublishPoint
  <2>4. ~ClientRequest /\ (\A t \in Client : ~Acquire(t)) /\ ~(UNCHANGED vars)
    BY DEF ClientRequest, RequestUpload, RequestDelete, RequestPublish, RequestRetry,
       Request, Acquire, vars
  <2>5. Restart
    BY <2>2, <2>3, <2>4 DEF Next
  <2>6. x \in Orphans
    BY <1>1, <2>5 DEF Restart, Orphans, Stored, disk
  <2> QED
    BY <2>5, <2>6 DEF Restart, NoLocals
<1>6. ASSUME ~Stored(x) PROVE Goal
  BY <1>3, <1>6, Stores
<1> QED
  BY <1>3, <1>4, <1>5, <1>6

\* While the service runs and nobody holds the lock, every file of the pool belongs to
\* a row or was given up since the start, for any packages, components and threads.
THEOREM NeverOrphanFile == Spec => []NoOrphanFile
<1>1. Init => GoneInv /\ OrphanInv
  BY DEF Init, GoneInv, OrphanInv
<1>2. Inv /\ (GoneInv /\ OrphanInv) /\ [Next]_vars => (GoneInv /\ OrphanInv)'
  BY GoneStep, OrphanStep DEF Inv
<1>3. Inv /\ GoneInv /\ OrphanInv => NoOrphanFile
  BY DEF Inv, HolderInv, OrphanInv, NoOrphanFile
<1> QED
  BY InvAlways, <1>1, <1>2, <1>3, PTL DEF Spec
=============================================================================
