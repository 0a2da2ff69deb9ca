----------------------------- MODULE SourceSync -----------------------------
(* Package sources: the scheduler's thread claims a source that is due, reads  *)
(* what its location offers, imports what it has not dealt with yet and        *)
(* records the outcome of each asset and of the run, while administrators      *)
(* create, edit, queue and delete sources and upload and delete packages, and  *)
(* the process may crash.  An import is one upload_commit: see Repository for  *)
(* what happens inside.                                                        *)
EXTENDS Naturals, FiniteSets

CONSTANTS
    MaxSource,      \* bound on source ids
    GitHub,         \* repositories whose releases a source can read,
    Directory,      \* HTTP directories,
    File,           \* and addresses of one .deb
    Package,        \* name, version, architecture
    Content,        \* what a .deb holds, told apart by its sha256
    None            \* no row, no run, no package, no validator

ASSUME MaxSourceAssumption == MaxSource \in Nat \ {0}
ASSUME LocationAssumption == /\ GitHub \cap Directory = {} /\ GitHub \cap File = {}
                             /\ Directory \cap File = {}

VARIABLES
    source,     \* table package_sources, by id
    artifact,   \* table source_artifacts: outcome of each asset for each source
    repo,       \* the sha256 of each package the repository holds
    run,        \* what the scheduler's thread is doing, None between two runs
    deleting,   \* ids that a delete request has seen not running
    lost,       \* ids left running since the start: their end was not written
    up          \* the service is running

vars == <<source, artifact, repo, run, deleting, lost, up>>

Source == 1 .. MaxSource

Location == GitHub \cup Directory \cup File

\* What a location offers.
Asset == [at : Location, pkg : Package, hash : Content]

\* Its external id: id and time of a release asset, which stand for its bytes;
\* the address of a directory's file, whatever it holds; the digest of a fixed
\* file, wherever it is.
Key(a) ==
    [at |-> IF a.at \in File THEN None ELSE a.at, pkg |-> a.pkg,
     hash |-> IF a.at \in Directory THEN None ELSE a.hash]

ExternalId == {Key(a) : a \in Asset}

Status == {"never", "queued", "running", "success", "error"}
Row == [loc : Location, enabled : BOOLEAN, status : Status, due : BOOLEAN,
        etag : Asset \cup {None}]

Outcome == {"pending", "imported", "skipped", "rejected", "conflict", "failed"}
FINAL_ARTIFACT_STATUSES == {"imported", "skipped", "rejected", "conflict"}
Retryable == {"rejected", "conflict"}
NoArtifacts == [k \in ExternalId |-> None]

\* manual: claimed while queued; cut: its source was deleted under it (history);
\* seen: what the location offered; todo, batch: assets not begun, downloaded;
\* placed: those of the batch that upload_commit accepted.
Run == [id : Source, loc : Location, etag : Asset \cup {None}, manual : BOOLEAN,
        cut : BOOLEAN, pc : {"publish", "fetch", "begin", "download", "record",
                             "validator", "finish"},
        seen : SUBSET Asset, todo : SUBSET Asset, asset : Asset \cup {None},
        batch : SUBSET Asset, placed : SUBSET Asset, error : BOOLEAN]

ASSUME NoneAssumption == /\ None \notin Asset /\ None \notin Row
                         /\ None \notin Run /\ None \notin Outcome

Exists(s) == source[s] # None
Idle == run = None
At(point) == up /\ run # None /\ run.pc = point
Fixed == run.loc \in File

Init ==
    /\ source = [s \in Source |-> None]
    /\ artifact = [s \in Source |-> NoArtifacts]
    /\ repo = [p \in Package |-> None]
    /\ run = None
    /\ deleting = {}
    /\ lost = {}
    /\ up = FALSE

-----------------------------------------------------------------------------
(* Administration of sources.                                                  *)

\* SQLite gives the id after the highest in use: a deleted one comes back.
create_source(s) ==
    /\ up
    /\ \A t \in Source : (Exists(t) => t < s) /\ (t = s - 1 => Exists(t))
    /\ \E l \in Location, on \in BOOLEAN :
          source' = [source EXCEPT ![s] =
             [loc |-> l, enabled |-> on, status |-> "never", due |-> TRUE, etag |-> None]]
    /\ UNCHANGED <<artifact, repo, run, deleting, lost, up>>

\* The schedule starts anew; status and validator stay.
update_source(s) ==
    /\ up
    /\ Exists(s)
    /\ \E l \in Location, on \in BOOLEAN :
          source' = [source EXCEPT ![s].loc = l, ![s].enabled = on, ![s].due = TRUE]
    /\ UNCHANGED <<artifact, repo, run, deleting, lost, up>>

queue_source(s) ==
    /\ up
    /\ Exists(s)
    /\ source[s].enabled
    /\ source[s].status # "running"
    /\ source' = [source EXCEPT ![s].status = "queued", ![s].due = TRUE]
    /\ UNCHANGED <<artifact, repo, run, deleting, lost, up>>

\* The handler reads the row, then deletes it in a statement of its own.
CheckDelete(s) ==
    /\ up
    /\ Exists(s)
    /\ source[s].status # "running"
    /\ s \notin deleting
    /\ deleting' = deleting \cup {s}
    /\ UNCHANGED <<source, artifact, repo, run, lost, up>>

\* Artifacts and runs go with the row (ON DELETE CASCADE).
delete_source(s) ==
    /\ up
    /\ s \in deleting
    /\ deleting' = deleting \ {s}
    /\ source' = [source EXCEPT ![s] = None]
    /\ artifact' = [artifact EXCEPT ![s] = NoArtifacts]
    /\ run' = IF ~Idle /\ run.id = s THEN [run EXCEPT !.cut = TRUE] ELSE run
    /\ lost' = lost \ {s}
    /\ UNCHANGED <<repo, up>>

-----------------------------------------------------------------------------
(* The rest of the repository, and the clock.                                  *)

UploadPackage(a) ==
    /\ up
    /\ repo[a.pkg] = None
    /\ repo' = [repo EXCEPT ![a.pkg] = a.hash]
    /\ UNCHANGED <<source, artifact, run, deleting, lost, up>>

DeletePackage(p) ==
    /\ up
    /\ repo[p] # None
    /\ repo' = [repo EXCEPT ![p] = None]
    /\ UNCHANGED <<source, artifact, run, deleting, lost, up>>

TimePasses(s) ==
    /\ Exists(s)
    /\ ~source[s].due
    /\ source' = [source EXCEPT ![s].due = TRUE]
    /\ UNCHANGED <<artifact, repo, run, deleting, lost, up>>

-----------------------------------------------------------------------------
(* sync_source_once.                                                           *)

\* Fault: a queued source counts as busy.
ClaimableUnqueued(s) ==
    /\ Exists(s)
    /\ source[s].enabled
    /\ source[s].status \notin {"running", "queued"}
    /\ source[s].due

Claimable(s) ==
    /\ Exists(s)
    /\ source[s].enabled
    /\ source[s].status # "running"
    /\ source[s].due

_claim_source(s) ==
    /\ up
    /\ Idle
    /\ Claimable(s)
    /\ source' = [source EXCEPT ![s].status = "running"]
    /\ run' = [id |-> s, loc |-> source[s].loc, etag |-> source[s].etag,
               manual |-> source[s].status = "queued", cut |-> FALSE, pc |-> "publish",
               seen |-> {}, todo |-> {}, asset |-> None, batch |-> {}, placed |-> {},
               error |-> FALSE]
    /\ UNCHANGED <<artifact, repo, deleting, lost, up>>

Goto(point) == run' = [run EXCEPT !.pc = point]
Fail(point) == run' = [run EXCEPT !.pc = point, !.error = TRUE]

\* retry_pending_publish first: a source is not read while the index is stuck.
Published ==
    /\ At("publish")
    /\ Goto("fetch")
    /\ UNCHANGED <<source, artifact, repo, deleting, lost, up>>

\* Whatever raises ends the run with an error: the retried publish, a location
\* that does not answer, a fixed file that is not a .deb, a statement that the
\* database refuses.
RunFails ==
    /\ up /\ ~Idle /\ ~At("finish")
    /\ Fail("finish")
    /\ UNCHANGED <<source, artifact, repo, deleting, lost, up>>

\* Of a directory's files only the latest version of each package counts.
Offers(l) ==
    {offered \in SUBSET {a \in Asset : a.at = l} :
        l \in Directory => \A a, b \in offered : a.pkg = b.pkg => a = b}

ListAssets ==
    /\ At("fetch")
    /\ ~Fixed
    /\ \E offered \in Offers(run.loc) :
          run' = [run EXCEPT !.pc = "begin", !.seen = offered, !.todo = offered]
    /\ UNCHANGED <<source, artifact, repo, deleting, lost, up>>

\* 304: the location still offers what the stored validator belongs to.  If the
\* validator came from another address, Last-Modified answers for any file that
\* is older than it.
NotModified ==
    /\ At("fetch")
    /\ Fixed
    /\ run.etag # None
    /\ \E a \in Asset :
          /\ a.at = run.loc
          /\ run.etag.at = run.loc => a = run.etag
          /\ run' = [run EXCEPT !.pc = "finish", !.seen = {a}]
    /\ UNCHANGED <<source, artifact, repo, deleting, lost, up>>

FetchFile ==
    /\ At("fetch")
    /\ Fixed
    /\ \E a \in Asset :
          /\ a.at = run.loc
          /\ run' = [run EXCEPT !.pc = "begin", !.seen = {a}, !.todo = {a}]
    /\ UNCHANGED <<source, artifact, repo, deleting, lost, up>>

\* Fault: every final status is final for a manual run too.
FinalForAll(a) == artifact[run.id][Key(a)] \in FINAL_ARTIFACT_STATUSES

\* Fault: scheduled runs retry as well.
FinalUnlessRetryable(a) ==
    artifact[run.id][Key(a)] \in FINAL_ARTIFACT_STATUSES \ Retryable

Final(a) ==
    /\ artifact[run.id][Key(a)] \in FINAL_ARTIFACT_STATUSES
    /\ ~(run.manual /\ artifact[run.id][Key(a)] \in Retryable)

SkipFinal(a) ==
    /\ At("begin")
    /\ a \in run.todo
    /\ Final(a)
    /\ run' = [run EXCEPT !.todo = @ \ {a}, !.asset = a,
                          !.pc = IF Fixed THEN "validator" ELSE "begin"]
    /\ UNCHANGED <<source, artifact, repo, deleting, lost, up>>

\* Fault: artifacts do not refer to their source.
BeginUnbound(a) ==
    /\ At("begin")
    /\ a \in run.todo
    /\ ~Final(a)
    /\ artifact' = [artifact EXCEPT ![run.id][Key(a)] = "pending"]
    /\ run' = [run EXCEPT !.todo = @ \ {a}, !.asset = a,
                          !.batch = IF Fixed THEN {a} ELSE @,
                          !.pc = IF Fixed THEN "begin" ELSE "download"]
    /\ UNCHANGED <<source, repo, deleting, lost, up>>

\* A fixed file is on disk when its artifact begins, a listed asset is not.
_begin_artifact(a) ==
    /\ At("begin")
    /\ a \in run.todo
    /\ ~Final(a)
    /\ Exists(run.id)
    /\ artifact' = [artifact EXCEPT ![run.id][Key(a)] = "pending"]
    /\ run' = [run EXCEPT !.todo = @ \ {a}, !.asset = a,
                          !.batch = IF Fixed THEN {a} ELSE @,
                          !.pc = IF Fixed THEN "begin" ELSE "download"]
    /\ UNCHANGED <<source, repo, deleting, lost, up>>

\* The INSERT violates the foreign key: the source is gone.
SourceGone ==
    /\ At("begin")
    /\ \E a \in run.todo : ~Final(a)
    /\ ~Exists(run.id)
    /\ Fail("finish")
    /\ UNCHANGED <<source, artifact, repo, deleting, lost, up>>

\* An UPDATE by artifact id: without effect when the row went with its source.
Recorded(a, outcome) ==
    IF artifact[run.id][Key(a)] = None
    THEN artifact ELSE [artifact EXCEPT ![run.id][Key(a)] = outcome]

_download ==
    /\ At("download")
    /\ run' = [run EXCEPT !.pc = "begin", !.batch = @ \cup {run.asset}]
    /\ UNCHANGED <<source, artifact, repo, deleting, lost, up>>

\* Not a .deb, too big, wrong architecture: rejected; anything else: failed.
DownloadFails ==
    /\ At("download")
    /\ \E outcome \in {"rejected", "failed"} : artifact' = Recorded(run.asset, outcome)
    /\ Fail("begin")
    /\ UNCHANGED <<source, repo, deleting, lost, up>>

\* What one upload_commit of the batch can accept: one asset of each package the
\* repository does not hold.
Accepted(placed) ==
    /\ placed \subseteq run.batch
    /\ \A a \in placed : repo[a.pkg] = None
    /\ \A a, b \in placed : a.pkg = b.pkg => a = b

WithPlaced(placed) ==
    [p \in Package |-> IF \E a \in placed : a.pkg = p
                       THEN (CHOOSE a \in placed : a.pkg = p).hash ELSE repo[p]]

upload_commit ==
    /\ At("begin")
    /\ run.todo = {}
    /\ run.batch # {}
    /\ \E placed \in SUBSET run.batch, published \in BOOLEAN :
          /\ Accepted(placed)
          /\ \A a \in run.batch : repo[a.pkg] = None => \E b \in placed : b.pkg = a.pkg
          /\ published \/ placed # {}
          /\ repo' = WithPlaced(placed)
          /\ run' = [run EXCEPT !.pc = "record", !.placed = placed,
                                !.error = @ \/ ~published]
    /\ UNCHANGED <<source, artifact, deleting, lost, up>>

\* An OSError in the middle: some are in, nothing is recorded.
UploadFails ==
    /\ At("begin")
    /\ run.todo = {}
    /\ run.batch # {}
    /\ \E placed \in SUBSET run.batch : Accepted(placed) /\ repo' = WithPlaced(placed)
    /\ Fail("finish")
    /\ UNCHANGED <<source, artifact, deleting, lost, up>>

NothingToImport ==
    /\ At("begin")
    /\ run.todo = {} /\ run.batch = {}
    /\ Goto("finish")
    /\ UNCHANGED <<source, artifact, repo, deleting, lost, up>>

\* Fault: the status of a run in place of an asset's.
RunResult(a) == IF a \in run.placed THEN "success" ELSE "error"

\* The package is looked up when upload_commit is over and the lock released.
Result(a) ==
    IF a \in run.placed THEN "imported"
    ELSE IF repo[a.pkg] = a.hash THEN "skipped" ELSE "conflict"

\* Fault: what was uploaded stays pending.
ForgetResult(a) ==
    /\ At("record")
    /\ a \in run.batch
    /\ run' = [run EXCEPT !.batch = @ \ {a}]
    /\ UNCHANGED <<source, artifact, repo, deleting, lost, up>>

RecordResult(a) ==
    /\ At("record")
    /\ a \in run.batch
    /\ artifact' = Recorded(a, Result(a))
    /\ run' = [run EXCEPT !.batch = @ \ {a}, !.error = @ \/ Result(a) = "conflict"]
    /\ UNCHANGED <<source, repo, deleting, lost, up>>

RecordDone ==
    /\ At("record")
    /\ run.batch = {}
    /\ Goto(IF Fixed /\ ~run.error THEN "validator" ELSE "finish")
    /\ UNCHANGED <<source, artifact, repo, deleting, lost, up>>

\* The response's validator is kept, if it carried one.
SaveValidator ==
    /\ At("validator")
    /\ \E tag \in {None, run.asset} :
          source' = IF Exists(run.id) THEN [source EXCEPT ![run.id].etag = tag] ELSE source
    /\ Goto("finish")
    /\ UNCHANGED <<artifact, repo, deleting, lost, up>>

\* Fault: a failed run leaves the status for somebody else to clear.
FinishSuccessOnly ==
    /\ At("finish")
    /\ source' = IF Exists(run.id) /\ ~run.error
                 THEN [source EXCEPT ![run.id].status = "success", ![run.id].due = FALSE]
                 ELSE source
    /\ run' = None
    /\ UNCHANGED <<artifact, repo, deleting, lost, up>>

\* Fault: the next check is not put off.
FinishStillDue ==
    /\ At("finish")
    /\ source' = IF Exists(run.id)
                 THEN [source EXCEPT
                         ![run.id].status = IF run.error THEN "error" ELSE "success"]
                 ELSE source
    /\ run' = None
    /\ UNCHANGED <<artifact, repo, deleting, lost, up>>

_finish_source ==
    /\ At("finish")
    /\ source' = IF Exists(run.id)
                 THEN [source EXCEPT
                         ![run.id].status = IF run.error THEN "error" ELSE "success",
                         ![run.id].due = FALSE]
                 ELSE source
    /\ run' = None
    /\ UNCHANGED <<artifact, repo, deleting, lost, up>>

\* The database refuses the UPDATE: the thread goes on with other sources.
FinishFails ==
    /\ At("finish")
    /\ lost' = lost \cup {s \in {run.id} : Exists(s) /\ source[s].status = "running"}
    /\ run' = None
    /\ UNCHANGED <<source, artifact, repo, deleting, up>>

-----------------------------------------------------------------------------
(* Crash and start.                                                            *)

Crash ==
    /\ up
    /\ up' = FALSE
    /\ run' = None
    /\ deleting' = {}
    /\ UNCHANGED <<source, artifact, repo, lost>>

\* Fault: sources that were running are left alone.
RestartOnly ==
    /\ ~up
    /\ up' = TRUE
    /\ lost' = {}
    /\ UNCHANGED <<source, artifact, repo, run, deleting>>

recover_interrupted_source_runs ==
    /\ ~up
    /\ up' = TRUE
    /\ lost' = {}
    /\ source' = [s \in Source |->
                     IF Exists(s) /\ source[s].status = "running"
                     THEN [source[s] EXCEPT !.status = "error", !.due = TRUE]
                     ELSE source[s]]
    /\ UNCHANGED <<artifact, repo, run, deleting>>

-----------------------------------------------------------------------------

Admin ==
    \/ \E s \in Source : create_source(s) \/ update_source(s) \/ queue_source(s)
                         \/ CheckDelete(s) \/ delete_source(s)
    \/ \E a \in Asset : UploadPackage(a)
    \/ \E p \in Package : DeletePackage(p)

\* The thread of the scheduler, once it has claimed a source.
Sync ==
    \/ Published \/ ListAssets \/ NotModified \/ FetchFile
    \/ \E a \in Asset : SkipFinal(a) \/ _begin_artifact(a) \/ RecordResult(a)
    \/ SourceGone \/ _download \/ upload_commit \/ NothingToImport \/ RecordDone
    \/ SaveValidator \/ _finish_source

Fault == RunFails \/ DownloadFails \/ UploadFails \/ FinishFails \/ Crash

Next ==
    \/ Admin
    \/ \E s \in Source : TimePasses(s) \/ _claim_source(s)
    \/ Sync
    \/ recover_interrupted_source_runs
    \/ Fault

Spec == Init /\ [][Next]_vars

-----------------------------------------------------------------------------
(* Correctness.                                                                *)

TypeOK ==
    /\ source \in [Source -> Row \cup {None}]
    /\ artifact \in [Source -> [ExternalId -> Outcome \cup {None}]]
    /\ repo \in [Package -> Content \cup {None}]
    /\ run \in Run \cup {None}
    /\ deleting \subseteq Source
    /\ lost \subseteq Source
    /\ up \in BOOLEAN

\* A source says that it is running only while the thread works on it, so that
\* it can be claimed again, whatever failed, was edited, deleted under the run,
\* or died.  The exception is a run whose end the database refused.
RunningHasRunner ==
    up => \A s \in Source \ lost :
             Exists(s) /\ source[s].status = "running" => ~Idle /\ run.id = s

\* Nothing is recorded for a source that is not there, even if it was deleted
\* between its check and a claim.
NoStrayArtifact == \A s \in Source : ~Exists(s) => artifact[s] = NoArtifacts

\* A run that ends well has settled every asset that its listing selected,
\* through any number of failed and repeated runs before it.
Finished(outcome) == ~Idle /\ Idle' /\ up' /\ run.error = (outcome = "error")

Settled ==
    Finished("success") /\ ~run.cut =>
        \A a \in run.seen : artifact[run.id][Key(a)] \in FINAL_ARTIFACT_STATUSES

ListingComplete == [][~Idle /\ ~Fixed => Settled]_vars

\* README, "Automatic package sources": a fixed address is periodically fetched,
\* ETag and Last-Modified only spare what is known.  So when a run of it ends
\* well, the file at that address has been settled.
FileFetched == [][~Idle /\ Fixed => Settled]_vars

\* What was imported or skipped is never taken up again, and what was rejected
\* or in conflict only by a manual run.
LedgerSettled ==
    [][\A s \in Source, k \in ExternalId :
          Exists(s)' /\ artifact[s][k] \in FINAL_ARTIFACT_STATUSES
             /\ artifact'[s][k] # artifact[s][k]
          => artifact[s][k] \in Retryable /\ run.manual]_vars

Retried ==
    Finished("success") /\ run.manual /\ ~run.cut =>
        \A a \in run.seen : artifact[run.id][Key(a)] \notin Retryable

\* README, "Automatic package sources": a manually queued synchronization
\* retries selected rejected or conflicting assets.  So when one of a location
\* that lists assets ends well, none that it offers is left in such a status.
ManualListingRetries == [][~Idle /\ ~Fixed => Retried]_vars

\* The columns of the rows, and the thread, that the contract speaks of.
StatusOf == [s \in Source |-> IF Exists(s) THEN source[s].status ELSE "none"]
EnabledOnes == {s \in Source : Exists(s) /\ source[s].enabled}
DueOnes == {s \in Source : Exists(s) /\ source[s].due}
Claimed == IF Idle THEN {} ELSE {run.id}
Mode == IF up THEN "up" ELSE "dead"

\* Runs that fail half way, sources that are edited, deleted and created anew
\* under them, ends that the database refuses, crashes: the rows stay with the
\* contract that the scheduler counts on.
Table == INSTANCE SourceTable WITH
    status <- StatusOf, enabled <- EnabledOnes, due <- DueOnes, claimed <- Claimed,
    refused <- lost, mode <- Mode

ImplementsTable == Table!Spec

-----------------------------------------------------------------------------
(* Liveness.  The thread keeps running, a stopped service is restarted, time   *)
(* passes; the oldest due source is claimed first, so that a claimable source  *)
(* is claimed if the thread keeps coming back for one.                         *)

Fairness ==
    /\ WF_vars(Sync)
    /\ WF_vars(recover_interrupted_source_runs)
    /\ \A s \in Source : WF_vars(TimePasses(s)) /\ SF_vars(_claim_source(s))

FairSpec == Spec /\ Fairness /\ <>[][Fault => Sync]_vars

InStatus(s, status) == Exists(s) /\ source[s].enabled /\ source[s].status = status

\* A request to synchronise now is answered, unless the source is disabled or
\* deleted first.
QueuedServed ==
    \A s \in Source : InStatus(s, "queued") ~> ~InStatus(s, "queued")

\* No source runs for ever, crashes included, unless its end was refused.
RunningEnds ==
    \A s \in Source : InStatus(s, "running") ~> ~InStatus(s, "running") \/ s \in lost
=============================================================================
