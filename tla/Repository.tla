----------------------------- MODULE Repository -----------------------------
(* The repository of one PrvAptMirror instance: the packages table, the pool   *)
(* of .deb files, the published index (repo/dists), the dirty flag and the     *)
(* last publish run, and every operation that changes them under publish.lock: *)
(* upload, delete, manual publish, the scheduler's retry and start-up          *)
(* recovery.  Each SQL statement commits on its own, each file operation is a  *)
(* step, and the process may crash between any two of them.                    *)
EXTENDS Naturals, Sequences, FiniteSets

CONSTANTS
    Package,        \* name, version, architecture: the UNIQUE key of packages
    Content,        \* what a .deb holds, told apart by its sha256
    Component,      \* components: the directories of the pool
    Setting,        \* settings that a request may run under
    Worker,         \* threads that upload, delete or publish for a request or a source
    Scheduler,      \* the scheduler's thread when it retries a pending publish
    Boot,           \* the start-up sequence
    None,           \* no row, no file, no tree, no request
    Skipped,        \* the index has no Packages file for the architecture
    MaxId,          \* bound on row ids
    MaxItems,       \* bound on the files of one upload
    MaxLost         \* bound on the packages whose file is missing at one time

ASSUME MaxIdAssumption == MaxId \in Nat \ {0}
ASSUME MaxItemsAssumption == MaxItems \in Nat \ {0}
ASSUME MaxLostAssumption == MaxLost \in Nat
ASSUME BootAssumption == Boot \notin Worker \cup {Scheduler}

VARIABLES
    rows,      \* table packages, by NVA: its id, sha256 and state
    pool,      \* repo/pool: the file at each path
    live,      \* repo/dists: each package's stanza, None if absent
    next,      \* repo/dists.next
    dirty,     \* settings.publish_dirty
    lastRun,   \* status of the last row of publish_runs
    up,        \* the service: down, starting or serving
    lock,      \* holder of publish.lock
    pc,        \* where the holder stands
    job,       \* the request each thread is working on
    loc,       \* local variables of the holder
    lost,      \* paths whose file vanished from outside (history)
    forgotten, \* packages whose delete was marked, not announced (history)
    moved,     \* packages whose listed file went to quarantine (history)
    stray      \* paths given up with the file in place, since the start (history)

db == <<rows, dirty, lastRun>>
disk == <<pool, live, next>>
history == <<lost, forgotten, moved, stray>>
vars == <<db, disk, up, lock, pc, job, loc, history>>

Client == Worker \cup {Scheduler}
Process == Client \cup {Boot}

\* A package's path in the pool depends on the component it was uploaded under.
Path == Package \X Component

\* A setting's packages: those of the architectures it names.
ASSUME SettingAssumption == Setting \subseteq [component : Component, packages : SUBSET Package]

\* dir: the component in the row's filename.
State == {"active", "pending_delete", "missing"}
Row == [id : 1 .. MaxId, hash : Content, dir : Component, state : State]
Pool == [Path -> Content \cup {None}]
Stanza == [hash : Content, dir : Component]
Tree == [Package -> Stanza \cup {None, Skipped}]
Item == [pkg : Package, hash : Content]
Items == UNION {[1 .. n -> Item] : n \in 1 .. MaxItems}   \* files of one upload

RunStatus == {"none", "running", "success", "failed"}

ClientOp == {"upload", "delete", "publish", "retry"}
JobRecord == [op : ClientOp \cup {"startup"}, items : Seq(Item), id : 0 .. MaxId,
              cfg : Setting \cup {None}]
Job(op, id) == [op |-> op, items |-> <<>>, id |-> id, cfg |-> None]

\* None stands apart from every value it replaces.
ASSUME NoneAssumption ==
    /\ None \notin Package \cup Content \cup Process \cup Setting
    /\ None \notin Row \cup Path \cup Stanza \cup Tree \cup JobRecord
    /\ Skipped \notin Stanza \cup {None}

\* Steps of publish_unlocked whose exceptions it turns into a failed run.
PublishPoint == {"scan", "flag", "stage", "install", "swap", "cleanup"}
Point == PublishPoint \cup
         {"idle", "place", "commit", "mark", "flag_delete", "retry", "run",
          "succeed", "clear", "fail", "fail_dirty", "unlink", "drop", "undirty",
          "finish", "purge", "purge_row", "orphan", "move", "boot_scan",
          "boot_flag", "decide"}

Locals == [todo : SUBSET Package, found : BOOLEAN, placed : BOOLEAN,
           created : BOOLEAN, target : Package \cup {None},
           orphans : SUBSET Path, blob : Path \cup {None},
           staged : Tree \cup {None}]
NoLocals == [todo |-> {}, found |-> FALSE, placed |-> FALSE,
             created |-> FALSE, target |-> None, orphans |-> {}, blob |-> None,
             staged |-> None]

Registered(p) == rows[p] # None
InState(p, s) == Registered(p) /\ rows[p].state = s
Active(p) == InState(p, "active")
Listed(p) == live # None /\ live[p] \notin {None, Skipped}
RowsIn(s) == {p \in Package : InState(p, s)}

\* The path in a row, and in a stanza.
FileOf(p) == <<p, rows[p].dir>>
ListedFile(p) == <<p, live[p].dir>>
Named(x) == Registered(x[1]) /\ x = FileOf(x[1])

Stored(x) == pool[x] # None

Init ==
    /\ rows = [p \in Package |-> None]
    /\ pool = [x \in Path |-> None]
    /\ live = None
    /\ next = None
    /\ dirty = FALSE
    /\ lastRun = "none"
    /\ up = "down"
    /\ lock = None
    /\ pc = "idle"
    /\ job = [t \in Process |-> None]
    /\ loc = NoLocals
    /\ lost = {}
    /\ forgotten = {}
    /\ moved = {}
    /\ stray = {}

-----------------------------------------------------------------------------
(* Requests.  A thread has done everything that happens outside the lock: an   *)
(* upload's files are parsed, a delete's row was read and its name confirmed.  *)
(* Which settings a request has read (those in force, or ones replaced since,  *)
(* see Settings) and which files an upload brings is chosen where it begins to *)
(* matter: at an upload's first file, at any other request's index.            *)

Request(t, j) ==
    /\ up = "serving"
    /\ job[t] = None
    /\ job' = [job EXCEPT ![t] = j]
    /\ UNCHANGED <<db, disk, up, lock, pc, loc, history>>

RequestUpload(t) == Request(t, Job("upload", 0))

RequestDelete(t) ==
    \E p \in Package :
        /\ Registered(p)
        /\ Request(t, Job("delete", rows[p].id))

RequestPublish(t) == Request(t, Job("publish", 0))

RequestRetry == Request(Scheduler, Job("retry", 0))

EntryPoint ==
    [upload |-> "place", delete |-> "mark", publish |-> "run", retry |-> "retry"]

\* parse_deb lets through the architectures of the request's settings.
Accepted(items, s) == \A n \in DOMAIN items : items[n].pkg \in s.packages

Acquire(t) ==
    /\ lock = None
    /\ job[t] # None
    /\ lock' = t
    /\ pc' = EntryPoint[job[t].op]
    /\ IF job[t].op = "upload"
       THEN \E s \in Setting, items \in Items :
                /\ Accepted(items, s)
                /\ job' = [job EXCEPT ![t].cfg = s, ![t].items = items]
       ELSE UNCHANGED job
    /\ UNCHANGED <<db, disk, up, loc, history>>

Release ==
    /\ lock' = None
    /\ pc' = "idle"
    /\ job' = [job EXCEPT ![lock] = None]
    /\ loc' = NoLocals
    /\ up' = "serving"

\* One step of the lock holder from one point to another.
Step(from, to) ==
    /\ pc = from
    /\ pc' = to
    /\ UNCHANGED <<up, lock>>

-----------------------------------------------------------------------------
(* upload_commit: exclusive_link_or_revive for each file, then one publish.    *)

item == Head(job[lock].items)
cfg == job[lock].cfg

\* pool_dest: where the upload under way puts its item.
dest == <<item.pkg, cfg.component>>

Refused(p, h) ==
    \/ (Registered(p) /\ (rows[p].hash # h \/ rows[p].state = "pending_delete"))
    \/ (Stored(dest) /\ (Active(p) \/ pool[dest] # h))

NextItem == [job EXCEPT ![lock].items = Tail(@)]

RefuseItem ==
    /\ Step("place", "place")
    /\ job[lock].items # <<>>
    /\ Refused(item.pkg, item.hash)
    /\ job' = NextItem
    /\ UNCHANGED <<db, disk, loc, history>>

\* os.link creates the file; a file that is there already is adopted.
LinkItem ==
    /\ Step("place", "commit")
    /\ job[lock].items # <<>>
    /\ ~Refused(item.pkg, item.hash)
    /\ pool' = IF Stored(dest) THEN pool ELSE [pool EXCEPT ![dest] = item.hash]
    /\ loc' = [loc EXCEPT !.created = ~Stored(dest)]
    /\ UNCHANGED <<db, live, next, job, history>>

FreshId(n) ==
    /\ \A p \in Package : Registered(p) => rows[p].id < n
    /\ n = 1 \/ (\E p \in Package : Registered(p) /\ rows[p].id = n - 1)

\* The row names the item's path from now on; a file at its former path stays.
PlaceRow ==
    /\ \E n \in 1 .. MaxId :
          /\ IF Registered(item.pkg) THEN n = rows[item.pkg].id ELSE FreshId(n)
          /\ rows' = [rows EXCEPT ![item.pkg] = [id |-> n, hash |-> item.hash,
                                                 dir |-> cfg.component, state |-> "active"]]
    /\ stray' = (stray \cup {x \in Path : Stored(x) /\ Named(x) /\ x[1] = item.pkg}) \ {dest}
    /\ lost' = IF Stored(dest) THEN lost \ {dest} ELSE lost
    /\ job' = NextItem
    /\ loc' = [loc EXCEPT !.created = FALSE, !.placed = TRUE]
    /\ UNCHANGED <<lastRun, disk, forgotten, moved>>

\* Fault: the row commits alone and upload_commit sets the flag afterwards.
CommitItemUnflagged ==
    /\ Step("commit", "place")
    /\ PlaceRow
    /\ UNCHANGED dirty

\* Row and dirty flag commit in one transaction.
CommitItem ==
    /\ Step("commit", "place")
    /\ PlaceRow
    /\ dirty' = TRUE

Placing == pc = "commit" \/ (pc = "place" /\ job[lock].items # <<>>)

\* Fault: the destination is unlinked whoever created it.
PlaceFailsUnlinking ==
    /\ Placing
    /\ pool' = [pool EXCEPT ![dest] = None]
    /\ Release
    /\ UNCHANGED <<db, live, next, history>>

\* Fault: nothing is undone.
PlaceFailsLeaving ==
    /\ Placing
    /\ Release
    /\ UNCHANGED <<db, disk, history>>

\* An OSError before the transaction: undo this call's file, abandon the rest.
PlaceFails ==
    /\ Placing
    /\ pool' = IF loc.created THEN [pool EXCEPT ![dest] = None] ELSE pool
    /\ Release
    /\ UNCHANGED <<db, live, next, history>>

\* The undo fails as well: the link stays until the next start.
UndoFails ==
    /\ pc = "commit"
    /\ loc.created
    /\ stray' = stray \cup {dest}
    /\ Release
    /\ UNCHANGED <<db, disk, lost, forgotten, moved>>

PublishPlaced ==
    /\ Step("place", "run")
    /\ job[lock].items = <<>>
    /\ loc.placed
    /\ dirty' = TRUE
    /\ UNCHANGED <<rows, lastRun, disk, job, loc, history>>

NothingPlaced ==
    /\ pc = "place"
    /\ job[lock].items = <<>>
    /\ ~loc.placed
    /\ Release
    /\ UNCHANGED <<db, disk, history>>

-----------------------------------------------------------------------------
(* delete_commit up to the publish.                                            *)

MarkDelete ==
    /\ Step("mark", "flag_delete")
    /\ \E p \in Package :
          /\ Registered(p)
          /\ rows[p].id = job[lock].id
          /\ rows' = [rows EXCEPT ![p].state = "pending_delete"]
          /\ loc' = [loc EXCEPT !.target = p]
    /\ UNCHANGED <<dirty, lastRun, disk, job, history>>

NotFound ==
    /\ pc = "mark"
    /\ \A p \in Package : Registered(p) => rows[p].id # job[lock].id
    /\ Release
    /\ UNCHANGED <<db, disk, history>>

FlagDelete ==
    /\ Step("flag_delete", "run")
    /\ dirty' = TRUE
    /\ UNCHANGED <<rows, lastRun, disk, job, loc, history>>

-----------------------------------------------------------------------------
(* retry_pending_publish up to the publish.                                    *)

RetryPublish ==
    /\ Step("retry", "run")
    /\ dirty
    /\ UNCHANGED <<db, disk, job, loc, history>>

\* Fault: the retry gives up although the flag is set.
GiveUpRetry ==
    /\ pc = "retry"
    /\ Release
    /\ UNCHANGED <<db, disk, history>>

NothingToRetry ==
    /\ pc = "retry"
    /\ ~dirty
    /\ Release
    /\ UNCHANGED <<db, disk, history>>

-----------------------------------------------------------------------------
(* _quarantine_missing, called by publish_unlocked and by startup_reconcile.   *)

ScanRow(at) ==
    /\ Step(at, at)
    /\ \E p \in loc.todo :
          /\ rows' = IF Stored(FileOf(p)) THEN rows
                                          ELSE [rows EXCEPT ![p].state = "missing"]
          /\ loc' = [loc EXCEPT !.todo = @ \ {p}, !.found = @ \/ ~Stored(FileOf(p))]
    /\ UNCHANGED <<dirty, lastRun, disk, job, history>>

ScanDone(at, flag) ==
    /\ Step(at, flag)
    /\ loc.todo = {}
    /\ UNCHANGED <<db, disk, job, loc, history>>

FlagMissing(flag, to) ==
    /\ Step(flag, to)
    /\ dirty' = (dirty \/ loc.found)
    /\ loc' = [loc EXCEPT !.found = FALSE]
    /\ UNCHANGED <<rows, lastRun, disk, job, history>>

-----------------------------------------------------------------------------
(* publish_unlocked.                                                           *)

StartRun ==
    /\ Step("run", "scan")
    /\ lastRun' = "running"
    /\ loc' = [loc EXCEPT !.todo = RowsIn("active")]
    /\ UNCHANGED <<rows, dirty, disk, job, history>>

\* Fault: rows are not filtered by state.
PresentInAnyState == {p \in Package : Registered(p) /\ Stored(FileOf(p))}

Present == {p \in RowsIn("active") : Stored(FileOf(p))}

\* What a package's stanza says of its row.
Offer(p) == [hash |-> rows[p].hash, dir |-> rows[p].dir]

\* Fault: the stanza carries the row instead of its hash and filename.
IndexOfRows(ps, s) == [p \in Package |-> IF p \in ps THEN rows[p] ELSE None]

\* rebuild_dists skips the packages of other architectures.
Index(ps, s) ==
    [p \in Package |-> IF p \notin s.packages THEN Skipped
                       ELSE IF p \in ps THEN Offer(p) ELSE None]

\* The settings that the index is built under.
Read == IF cfg = None THEN Setting ELSE {cfg}

\* List the active rows, build the index from them in staging/ and sign it.
Stage ==
    /\ Step("stage", "install")
    /\ rows' = [p \in Package |->
                   IF p \in RowsIn("active") \ Present
                   THEN [rows[p] EXCEPT !.state = "missing"] ELSE rows[p]]
    /\ \E s \in Read : loc' = [loc EXCEPT !.staged = Index(Present, s)]
    /\ UNCHANGED <<dirty, lastRun, disk, job, history>>

Install ==
    /\ Step("install", "swap")
    /\ next' = loc.staged
    /\ UNCHANGED <<db, pool, live, job, loc, history>>

Swap ==
    /\ Step("swap", "cleanup")
    /\ live' = next
    /\ next' = live
    /\ forgotten' = {}
    /\ moved' = {}
    /\ UNCHANGED <<db, pool, job, loc, lost, stray>>

Cleanup ==
    /\ Step("cleanup", "succeed")
    /\ next' = None
    /\ UNCHANGED <<db, pool, live, job, loc, history>>

Succeed ==
    /\ Step("succeed", "clear")
    /\ lastRun' = "success"
    /\ UNCHANGED <<rows, dirty, disk, job, loc, history>>

\* Fault: a delete drops its row without unlinking the file.
AfterPublishDropping == [delete |-> "drop", publish |-> "finish", retry |-> "finish"]

\* Where a successful publish returns to in its caller.
AfterPublish == [delete |-> "unlink", publish |-> "finish", retry |-> "finish"]

ClearDirty ==
    /\ pc = "clear"
    /\ dirty' = FALSE
    /\ IF job[lock].op \in {"upload", "startup"}
       THEN Release
       ELSE Step("clear", AfterPublish[job[lock].op]) /\ UNCHANGED <<job, loc>>
    /\ UNCHANGED <<rows, lastRun, disk, history>>

\* Missing fingerprint, signing error, disk error: caught by publish_unlocked.
PublishFails ==
    /\ pc \in PublishPoint
    /\ Step(pc, "fail")
    /\ loc' = [loc EXCEPT !.todo = {}, !.found = FALSE, !.staged = None]
    /\ UNCHANGED <<db, disk, job, history>>

RecordFailure ==
    /\ Step("fail", "fail_dirty")
    /\ lastRun' = "failed"
    /\ UNCHANGED <<rows, dirty, disk, job, loc, history>>

\* Fault: the failing path keeps the lock.
FlagFailureLocked ==
    /\ Step("fail_dirty", "fail_dirty")
    /\ dirty' = TRUE
    /\ UNCHANGED <<rows, lastRun, disk, job, loc, history>>

FlagFailure ==
    /\ pc = "fail_dirty"
    /\ dirty' = TRUE
    /\ Release
    /\ UNCHANGED <<rows, lastRun, disk, history>>

-----------------------------------------------------------------------------
(* delete_commit after a successful publish.                                   *)

Unlink ==
    /\ Step("unlink", "drop")
    /\ pool' = [pool EXCEPT ![FileOf(loc.target)] = None]
    /\ UNCHANGED <<db, live, next, job, loc, history>>

DropRow ==
    /\ Step("drop", "undirty")
    /\ rows' = [rows EXCEPT ![loc.target] = None]
    /\ UNCHANGED <<dirty, lastRun, disk, job, loc, history>>

DeleteDone ==
    /\ pc = "undirty"
    /\ dirty' = FALSE
    /\ Release
    /\ UNCHANGED <<rows, lastRun, disk, history>>

-----------------------------------------------------------------------------
(* _finish_orphaned_pending_deletes.                                           *)

AfterFinish == IF job[lock].op = "startup"
               THEN Step(pc, "decide") /\ loc' = NoLocals /\ UNCHANGED job
               ELSE Release

\* Fault: pending rows are purged whatever the last publish was.
StartPurgeUnchecked ==
    /\ Step("finish", "purge")
    /\ loc' = [loc EXCEPT !.todo = RowsIn("pending_delete")]
    /\ UNCHANGED <<db, disk, job, history>>

StartPurge ==
    /\ Step("finish", "purge")
    /\ lastRun = "success" /\ ~dirty
    /\ loc' = [loc EXCEPT !.todo = RowsIn("pending_delete")]
    /\ UNCHANGED <<db, disk, job, history>>

SkipPurge ==
    /\ pc = "finish"
    /\ lastRun # "success" \/ dirty
    /\ AfterFinish
    /\ UNCHANGED <<db, disk, history>>

PurgeBlob ==
    /\ Step("purge", "purge_row")
    /\ \E p \in loc.todo :
          /\ pool' = [pool EXCEPT ![FileOf(p)] = None]
          /\ loc' = [loc EXCEPT !.target = p]
    /\ UNCHANGED <<db, live, next, job, history>>

PurgeRow ==
    /\ Step("purge_row", "purge")
    /\ rows' = [rows EXCEPT ![loc.target] = None]
    /\ loc' = [loc EXCEPT !.todo = @ \ {loc.target}]
    /\ UNCHANGED <<dirty, lastRun, disk, job, history>>

PurgeDone ==
    /\ pc = "purge"
    /\ loc.todo = {}
    /\ AfterFinish
    /\ UNCHANGED <<db, disk, history>>

\* unlink raises: the request fails with the row still pending_delete.
UnlinkFails ==
    /\ pc = "unlink" \/ (pc = "purge" /\ loc.todo # {})
    /\ job[lock].op # "startup"
    /\ Release
    /\ UNCHANGED <<db, disk, history>>

-----------------------------------------------------------------------------
(* startup_reconcile.                                                          *)

Orphans == {x \in Path : Stored(x) /\ ~Named(x)}

Restart ==
    /\ up = "down"
    /\ up' = "starting"
    /\ lock' = Boot
    /\ pc' = "orphan"
    /\ job' = [job EXCEPT ![Boot] = Job("startup", 0)]
    /\ loc' = [NoLocals EXCEPT !.orphans = Orphans]
    /\ stray' = {}
    /\ UNCHANGED <<db, disk, lost, forgotten, moved>>

FlagOrphan ==
    /\ Step("orphan", "move")
    /\ \E x \in loc.orphans : loc' = [loc EXCEPT !.blob = x, !.orphans = @ \ {x}]
    /\ dirty' = TRUE
    /\ UNCHANGED <<rows, lastRun, disk, job, history>>

MoveOrphan ==
    /\ Step("move", "orphan")
    /\ pool' = [pool EXCEPT ![loc.blob] = None]
    /\ moved' = moved \cup {p \in Package : Listed(p) /\ ListedFile(p) = loc.blob}
    /\ UNCHANGED <<db, live, next, job, loc, lost, forgotten, stray>>

DiscardNext ==
    /\ Step("orphan", "boot_scan")
    /\ loc.orphans = {}
    /\ next' = None
    /\ loc' = [NoLocals EXCEPT !.todo = RowsIn("active")]
    /\ UNCHANGED <<db, pool, live, job, history>>

NeedsPublish == live = None \/ dirty \/ lastRun # "success"

DecidePublish ==
    /\ Step("decide", "run")
    /\ NeedsPublish
    /\ UNCHANGED <<db, disk, job, loc, history>>

ServeAsIs ==
    /\ pc = "decide"
    /\ ~NeedsPublish
    /\ Release
    /\ UNCHANGED <<db, disk, history>>

-----------------------------------------------------------------------------
(* The environment: the process dies; a file of the pool disappears.           *)

\* The row of a listed package is marked and the dirty flag not yet set: nothing
\* on disk says that the index is to be rebuilt before the file goes.
Unannounced ==
    {p \in Package : pc = "flag_delete" /\ p = loc.target /\ Listed(p) /\ ~NeedsPublish}

Crash ==
    /\ up # "down"
    /\ up' = "down"
    /\ lock' = None
    /\ pc' = "idle"
    /\ job' = [t \in Process |-> None]
    /\ loc' = NoLocals
    /\ forgotten' = forgotten \cup Unannounced
    /\ UNCHANGED <<db, disk, lost, moved, stray>>

LoseBlob(x) ==
    /\ Stored(x)
    /\ Cardinality(lost \cup {x}) <= MaxLost
    /\ pool' = [pool EXCEPT ![x] = None]
    /\ lost' = lost \cup {x}
    /\ UNCHANGED <<db, live, next, up, lock, pc, job, loc, forgotten, moved, stray>>

-----------------------------------------------------------------------------

UploadStep == RefuseItem \/ LinkItem \/ CommitItem \/ PublishPlaced \/ NothingPlaced
DeleteStep == MarkDelete \/ NotFound \/ FlagDelete \/ Unlink \/ DropRow \/ DeleteDone
RetryStep == RetryPublish \/ NothingToRetry
ScanStep ==
    \/ ScanRow("scan") \/ ScanDone("scan", "flag") \/ FlagMissing("flag", "stage")
    \/ ScanRow("boot_scan") \/ ScanDone("boot_scan", "boot_flag")
    \/ FlagMissing("boot_flag", "finish")
PublishStep ==
    \/ StartRun \/ Stage \/ Install \/ Swap \/ Cleanup \/ Succeed \/ ClearDirty
    \/ RecordFailure \/ FlagFailure
FinishStep == StartPurge \/ SkipPurge \/ PurgeBlob \/ PurgeRow \/ PurgeDone
StartupStep == FlagOrphan \/ MoveOrphan \/ DiscardNext \/ DecidePublish \/ ServeAsIs

\* What the lock holder does when nothing goes wrong.
Section ==
    UploadStep \/ DeleteStep \/ RetryStep \/ ScanStep \/ PublishStep \/ FinishStep
    \/ StartupStep

ClientRequest ==
    \/ \E t \in Worker : RequestUpload(t) \/ RequestDelete(t) \/ RequestPublish(t)
    \/ RequestRetry

Fault ==
    \/ Crash \/ PublishFails \/ PlaceFails \/ UndoFails \/ UnlinkFails
    \/ \E x \in Path : LoseBlob(x)

Next ==
    ClientRequest \/ (\E t \in Client : Acquire(t)) \/ Section \/ Restart \/ Fault

Spec == Init /\ [][Next]_vars
-----------------------------------------------------------------------------
(* Correctness.                                                                *)

TypeOK ==
    /\ rows \in [Package -> Row \cup {None}]
    /\ pool \in Pool
    /\ live \in Tree \cup {None}
    /\ next \in Tree \cup {None}
    /\ dirty \in BOOLEAN
    /\ lastRun \in RunStatus
    /\ up \in {"down", "starting", "serving"}
    /\ lock \in Process \cup {None}
    /\ pc \in Point
    /\ job \in [Process -> JobRecord \cup {None}]
    /\ loc \in Locals
    /\ lost \subseteq Path
    /\ forgotten \subseteq Package
    /\ moved \subseteq Package
    /\ stray \subseteq Path

\* What readyz's one transaction must read for a 200 (gpg key and pending
\* settings aside).  The InRelease it looks for afterwards, without the lock, can
\* only make it answer 503.
Ready == up = "serving" /\ ~dirty /\ lastRun = "success"

\* No client that follows the published index meets a file the service has
\* deleted or replaced.  Excepted are, apart from a file lost from outside, two
\* cases that last until the next publish: a delete that died unannounced, and an
\* upload under another component whose publish never came, after a start has put
\* the former file, which no row names any more, into quarantine.
IndexServable ==
    \A p \in Package :
        Listed(p) => \/ pool[ListedFile(p)] = live[p].hash
                     \/ ListedFile(p) \in lost
                     \/ p \in forgotten \cup moved

\* Decision K13, which knows no such exceptions.
NeverDangling ==
    \A p \in Package : Listed(p) => pool[ListedFile(p)] = live[p].hash \/ ListedFile(p) \in lost

\* Every active row has its own bytes at its path, whichever mix of uploads,
\* adoptions, undone links, changes of component, deletes and crashes led here:
\* what backup verifies.
ActiveStored ==
    \A p \in Package : Active(p) => pool[FileOf(p)] = rows[p].hash \/ FileOf(p) \in lost

\* What readyz promises.  Whenever it answers 200 there is an index, and every
\* accepted upload is in it with the bytes and the path of its row, unless the
\* architecture is not one of the index -- even while a thread is inside the
\* lock.  When no thread is, the index lists nothing else, but for a lost file
\* and a delete that died unannounced; a file in quarantine is no excuse here.
ReadyMeansPublished ==
    Ready =>
        /\ live # None
        /\ \A p \in Package :
              /\ Active(p) => live[p] \in {Offer(p), Skipped}
              /\ lock = None /\ Listed(p) =>
                    Active(p) \/ ListedFile(p) \in lost \/ p \in forgotten
              /\ Listed(p) => p \notin moved

\* A file that no row names is a crash leftover that the next start removes.  While
\* the service runs and nobody holds the lock there is none, but for those that
\* were given up since that start: a row has moved to another component's path, or
\* the undo of a failed upload failed.
NoOrphanFile ==
    up = "serving" /\ lock = None => \A x \in Path : Stored(x) => Named(x) \/ x \in stray

\* A row is deleted last: the index no longer lists it and its file is gone.
RowDeletedLast ==
    [][\A p \in Package :
          Registered(p) /\ ~Registered(p)' =>
              ~Stored(FileOf(p)) /\ (Listed(p) => p \in forgotten)]_vars

-----------------------------------------------------------------------------
(* The repository implements the catalogue: active rows are what it offers.    *)

Offered == [p \in Package |-> IF Active(p) THEN Offer(p) ELSE None]

Abstract == INSTANCE Catalogue WITH
    offered <- Offered, index <- live, files <- pool, abandoned <- forgotten \cup moved

\* Every step of every operation, of recovery and of a crash is one step of the
\* catalogue or none.
ImplementsCatalogue == Abstract!Spec

-----------------------------------------------------------------------------
(* Liveness.  The holder keeps running, a stopped service is restarted, every  *)
(* cycle of the scheduler asks for a retry, and a thread blocked in flock gets *)
(* the lock if it becomes free again and again.  Faults stop at some point.    *)

Fairness ==
    /\ WF_vars(Section)
    /\ WF_vars(Restart)
    /\ WF_vars(RequestRetry)
    /\ \A t \in Client : SF_vars(Acquire(t))

FairSpec == Spec /\ Fairness /\ <>[][Fault => Section]_vars

\* A change that is committed but not published is published in the end, by its
\* own request, by the scheduler or by the next start.
DirtyCleared == dirty ~> ~dirty

\* Every request ends: nobody keeps the lock or waits for it for ever.
RequestsEnd == \A t \in Client : job[t] # None ~> job[t] = None
=============================================================================
