------------------------------ MODULE Settings ------------------------------
(* The repository settings (suite, codename, component, architectures, origin, *)
(* label) as stored in the database and as published in the index: the change  *)
(* made in the admin pages, which publishes under the candidate before it      *)
(* saves it and rolls back if it cannot, and everything else that publishes:   *)
(* requests under the snapshot they began with, the scheduler's retry and the  *)
(* start-up recovery.  Packages are left to module Repository.                 *)
EXTENDS Naturals

CONSTANTS
    Suite,          \* suite names: readyz looks for the suite's InRelease
    Metadata,       \* the other repository settings, taken together
    Worker,         \* threads that serve requests or import from a source
    Scheduler,      \* the scheduler's thread when it retries a pending publish
    Boot,           \* the start-up sequence
    None            \* no index, no request, nothing read yet

ASSUME ProcessAssumption == Scheduler \notin Worker /\ Boot \notin Worker \cup {Scheduler}

VARIABLES
    stored,      \* table settings: the repository settings in force
    pending,     \* app.settings_pending
    dirty,       \* settings.publish_dirty
    lastRun,     \* status of the last row of publish_runs
    indexed,     \* the settings that repo/dists was built under
    accepted,    \* settings that have been in force (history)
    overlapped,  \* a request has overlapped a change of settings (history)
    up,          \* the service: down, starting or serving
    lock,        \* holder of publish.lock
    pc,          \* where the holder stands
    job,         \* what each thread works on
    loc          \* the publish under way: under what, and on whose behalf

db == <<stored, pending, dirty, lastRun>>
vars == <<db, indexed, accepted, overlapped, up, lock, pc, job, loc>>

Client == Worker \cup {Scheduler}
Process == Client \cup {Boot}

Config == [suite : Suite, rest : Metadata]

Op == {"settings", "change", "publish", "retry", "startup"}

\* seen is what the thread has read of the stored settings: a request's
\* snapshot, a settings change's previous configuration.
JobRecord == [op : Op, candidate : Config \cup {None}, seen : Config \cup {None}]
Job(op, candidate, seen) == [op |-> op, candidate |-> candidate, seen |-> seen]

Phase == {"none", "candidate", "rollback", "request", "retry", "recover", "reconcile"}
Locals == [cfg : Config \cup {None}, phase : Phase]
NoLocals == [cfg |-> None, phase |-> "none"]

ASSUME NoneAssumption ==
    /\ None \notin Config
    /\ None \notin Process
    /\ None \notin JobRecord

Point == {"idle", "mark", "commit", "request", "check", "run", "exchange", "record",
          "clear", "fail", "fail_dirty", "save", "settle", "boot", "reconcile"}

\* The first start seeds the settings from the environment.
Init ==
    /\ stored \in Config
    /\ pending = FALSE
    /\ dirty = FALSE
    /\ lastRun = "none"
    /\ indexed = None
    /\ accepted = {stored}
    /\ overlapped = FALSE
    /\ up = "down"
    /\ lock = None
    /\ pc = "idle"
    /\ job = [t \in Process |-> None]
    /\ loc = NoLocals

-----------------------------------------------------------------------------
(* Before the lock.                                                            *)

Changing == \E t \in Worker : job[t] # None /\ job[t].op = "settings"
Requesting == \E t \in Worker : job[t] # None /\ job[t].op \in {"change", "publish"}

Begin(t, j) ==
    /\ up = "serving"
    /\ job[t] = None
    /\ job' = [job EXCEPT ![t] = j]
    /\ UNCHANGED <<db, indexed, accepted, up, lock, pc, loc>>

\* The middleware loads the settings once for the whole request; an import
\* loads them before it downloads.
RequestPublish(t) ==
    /\ overlapped' = (overlapped \/ Changing)
    /\ \E op \in {"change", "publish"} : Begin(t, Job(op, None, stored))

RequestRetry == Begin(Scheduler, Job("retry", None, None)) /\ UNCHANGED overlapped

\* A form that validated, and was confirmed where it changes the repository.
RequestSettings(t) ==
    /\ overlapped' = (overlapped \/ Changing \/ Requesting)
    /\ \E c \in Config : Begin(t, Job("settings", c, None))

ReadBefore(t) ==
    /\ job[t] # None
    /\ job[t].op = "settings"
    /\ job[t].seen = None
    /\ job' = [job EXCEPT ![t].seen = stored]
    /\ UNCHANGED <<db, indexed, accepted, overlapped, up, lock, pc, loc>>

\* Only other application settings changed: saved as a whole, without the lock.
SavePlain(t) ==
    /\ job[t] # None
    /\ job[t].op = "settings"
    /\ job[t].seen = job[t].candidate
    /\ stored' = job[t].candidate
    /\ accepted' = accepted \cup {stored'}
    /\ job' = [job EXCEPT ![t] = None]
    /\ UNCHANGED <<pending, dirty, lastRun, indexed, overlapped, up, lock, pc, loc>>

EntryPoint ==
    [settings |-> "mark", change |-> "commit", publish |-> "request", retry |-> "check"]

Acquire(t) ==
    /\ lock = None
    /\ job[t] # None
    /\ job[t].op = "settings" => job[t].seen \notin {None, job[t].candidate}
    /\ lock' = t
    /\ pc' = EntryPoint[job[t].op]
    /\ UNCHANGED <<db, indexed, accepted, overlapped, up, job, loc>>

Release ==
    /\ lock' = None
    /\ pc' = "idle"
    /\ job' = [job EXCEPT ![lock] = None]
    /\ loc' = NoLocals
    /\ up' = "serving"

Die ==
    /\ up' = "down"
    /\ lock' = None
    /\ pc' = "idle"
    /\ job' = [t \in Process |-> None]
    /\ loc' = NoLocals

Step(from, to) ==
    /\ pc = from
    /\ pc' = to
    /\ UNCHANGED <<up, lock, job>>

\* Call publish_unlocked under cfg.
Publish(from, cfg, phase) ==
    /\ Step(from, "run")
    /\ loc' = [cfg |-> cfg, phase |-> phase]

-----------------------------------------------------------------------------
(* Up to the publish: the settings change, a request, the retry.               *)

\* Fault: the publish under the candidate starts without the pending key.
MarkNothing ==
    /\ Publish("mark", job[lock].candidate, "candidate")
    /\ UNCHANGED <<db, indexed, accepted, overlapped>>

\* Fault: the candidate is saved first and published afterwards.
SaveThenPublish ==
    /\ Publish("mark", job[lock].candidate, "candidate")
    /\ pending' = TRUE
    /\ stored' = job[lock].candidate
    /\ accepted' = accepted \cup {stored'}
    /\ UNCHANGED <<dirty, lastRun, indexed, overlapped>>

MarkPending ==
    /\ Publish("mark", job[lock].candidate, "candidate")
    /\ pending' = TRUE
    /\ UNCHANGED <<stored, dirty, lastRun, indexed, accepted, overlapped>>

\* upload_commit and delete_commit set the flag before they publish.
CommitChange ==
    /\ Publish("commit", job[lock].seen, "request")
    /\ dirty' = TRUE
    /\ UNCHANGED <<stored, pending, lastRun, indexed, accepted, overlapped>>

PublishRequest ==
    /\ Publish("request", job[lock].seen, "request")
    /\ UNCHANGED <<db, indexed, accepted, overlapped>>

\* Fault: the pending key alone does not bring a retry.
DirtyOnly == dirty

NeedsRetry == dirty \/ pending

RetryPublish ==
    /\ NeedsRetry
    /\ Publish("check", stored, "retry")
    /\ UNCHANGED <<db, indexed, accepted, overlapped>>

\* Fault: the retry gives up although something is flagged.
GiveUpRetry ==
    /\ pc = "check"
    /\ Release
    /\ UNCHANGED <<db, indexed, accepted, overlapped>>

NothingToRetry ==
    /\ pc = "check"
    /\ ~NeedsRetry
    /\ Release
    /\ UNCHANGED <<db, indexed, accepted, overlapped>>

-----------------------------------------------------------------------------
(* publish_unlocked.                                                           *)

StartRun ==
    /\ Step("run", "exchange")
    /\ lastRun' = "running"
    /\ UNCHANGED <<stored, pending, dirty, indexed, accepted, overlapped, loc>>

Exchange ==
    /\ Step("exchange", "record")
    /\ indexed' = loc.cfg
    /\ UNCHANGED <<db, accepted, overlapped, loc>>

Record ==
    /\ Step("record", "clear")
    /\ lastRun' = "success"
    /\ UNCHANGED <<stored, pending, dirty, indexed, accepted, overlapped, loc>>

\* Where a successful publish returns to in its caller.
AfterPublish == [candidate |-> "save", rollback |-> "settle", retry |-> "settle",
                 recover |-> "settle"]

ClearDirty ==
    /\ pc = "clear"
    /\ dirty' = FALSE
    /\ IF loc.phase \in {"request", "reconcile"}
       THEN Release
       ELSE Step("clear", AfterPublish[loc.phase]) /\ UNCHANGED loc
    /\ UNCHANGED <<stored, pending, lastRun, indexed, accepted, overlapped>>

\* Before the exchange, or after it while the old tree is removed.
PublishFails ==
    /\ pc \in {"exchange", "record"}
    /\ Step(pc, "fail")
    /\ UNCHANGED <<db, indexed, accepted, overlapped, loc>>

\* Fault: the status word of source runs.
RecordError ==
    /\ Step("fail", "fail_dirty")
    /\ lastRun' = "error"
    /\ UNCHANGED <<stored, pending, dirty, indexed, accepted, overlapped, loc>>

RecordFailure ==
    /\ Step("fail", "fail_dirty")
    /\ lastRun' = "failed"
    /\ UNCHANGED <<stored, pending, dirty, indexed, accepted, overlapped, loc>>

\* Fault: a failed request keeps the lock.
FlagFailureLocked ==
    /\ pc = "fail_dirty"
    /\ dirty' = TRUE
    /\ \/ loc.phase = "candidate" /\ Publish("fail_dirty", job[lock].seen, "rollback")
       \/ loc.phase = "recover" /\ Die
       \/ loc.phase \notin {"candidate", "recover"} /\ Step(pc, pc) /\ UNCHANGED loc
    /\ UNCHANGED <<stored, pending, lastRun, indexed, accepted, overlapped>>

\* A candidate is rolled back; a failed recovery ends the process.
FlagFailure ==
    /\ pc = "fail_dirty"
    /\ dirty' = TRUE
    /\ \/ loc.phase = "candidate" /\ Publish("fail_dirty", job[lock].seen, "rollback")
       \/ loc.phase = "recover" /\ Die
       \/ loc.phase \notin {"candidate", "recover"} /\ Release
    /\ UNCHANGED <<stored, pending, lastRun, indexed, accepted, overlapped>>

-----------------------------------------------------------------------------
(* After the publish.                                                          *)

\* The candidate and the pending key commit in one transaction.
Save ==
    /\ pc = "save"
    /\ stored' = job[lock].candidate
    /\ accepted' = accepted \cup {stored'}
    /\ pending' = FALSE
    /\ Release
    /\ UNCHANGED <<dirty, lastRun, indexed, overlapped>>

\* Fault: the failed save clears the key and leaves the candidate's index.
SaveFailsQuietly ==
    /\ pc = "save"
    /\ pending' = FALSE
    /\ Release
    /\ UNCHANGED <<stored, dirty, lastRun, indexed, accepted, overlapped>>

\* The transaction is rolled back, and the index with it.
SaveFails ==
    /\ Publish("save", job[lock].seen, "rollback")
    /\ UNCHANGED <<db, indexed, accepted, overlapped>>

Settle ==
    /\ pc = "settle"
    /\ pending' = FALSE
    /\ IF loc.phase = "recover"
       THEN Step("settle", "reconcile") /\ loc' = NoLocals
       ELSE Release
    /\ UNCHANGED <<stored, dirty, lastRun, indexed, accepted, overlapped>>

-----------------------------------------------------------------------------
(* Start-up and crashes.                                                       *)

Restart ==
    /\ up = "down"
    /\ up' = "starting"
    /\ lock' = Boot
    /\ pc' = "boot"
    /\ job' = [job EXCEPT ![Boot] = Job("startup", None, stored)]
    /\ UNCHANGED <<db, indexed, accepted, overlapped, loc>>

Recover ==
    /\ pending
    /\ Publish("boot", job[Boot].seen, "recover")
    /\ UNCHANGED <<db, indexed, accepted, overlapped>>

NothingPending ==
    /\ ~pending
    /\ Step("boot", "reconcile")
    /\ UNCHANGED <<db, indexed, accepted, overlapped, loc>>

\* startup_reconcile; found: it met an orphaned or a missing file.
Reconcile ==
    /\ pc = "reconcile"
    /\ \E found \in BOOLEAN :
          /\ dirty' = (dirty \/ found)
          /\ IF indexed = None \/ dirty' \/ lastRun # "success"
             THEN Publish("reconcile", job[Boot].seen, "reconcile")
             ELSE Release
    /\ UNCHANGED <<stored, pending, lastRun, indexed, accepted, overlapped>>

Crash ==
    /\ up # "down"
    /\ Die
    /\ UNCHANGED <<db, indexed, accepted, overlapped>>

-----------------------------------------------------------------------------

RequestStep ==
    \/ \E t \in Worker : RequestPublish(t) \/ RequestSettings(t)
    \/ RequestRetry

SettingsStep(t) == ReadBefore(t) \/ SavePlain(t)

Section ==
    \/ MarkPending \/ CommitChange \/ PublishRequest \/ RetryPublish \/ NothingToRetry
    \/ StartRun \/ Exchange \/ Record \/ ClearDirty \/ RecordFailure \/ FlagFailure
    \/ Save \/ Settle \/ Recover \/ NothingPending \/ Reconcile

Fault == PublishFails \/ SaveFails \/ Crash

Next ==
    \/ RequestStep
    \/ \E t \in Worker : SettingsStep(t)
    \/ \E t \in Client : Acquire(t)
    \/ Section \/ Restart \/ Fault

Spec == Init /\ [][Next]_vars
-----------------------------------------------------------------------------
(* Correctness.                                                                *)

TypeOK ==
    /\ stored \in Config
    /\ pending \in BOOLEAN
    /\ dirty \in BOOLEAN
    /\ lastRun \in {"none", "running", "success", "failed"}
    /\ indexed \in Config \cup {None}
    /\ accepted \subseteq Config
    /\ overlapped \in BOOLEAN
    /\ up \in {"down", "starting", "serving"}
    /\ lock \in Process \cup {None}
    /\ pc \in Point
    /\ job \in [Process -> JobRecord \cup {None}]
    /\ loc \in Locals

\* The flags and the last run from which readyz, the scheduler and the next
\* start conclude that nothing is left to do.
Quiet == ~pending /\ ~dirty /\ lastRun = "success"

\* If nothing is flagged, the index was built under the settings in force: after
\* a change, after one that failed and was rolled back, after a crash in any of
\* its steps, with the scheduler's retries in between.  (A form or a request that
\* overlaps a change breaks this, see DescribedWhenReady.)
QuietMeansDescribed == ~overlapped /\ Quiet => indexed = stored

\* Settings that were never saved do not stay published without the pending key
\* that makes the scheduler or the next start publish again, whatever overlaps.
OnlySavedPublished == indexed \in accepted \cup {None} \/ pending

\* readyz: the suite in force has an InRelease and nothing is flagged.
Ready ==
    /\ up = "serving"
    /\ indexed # None /\ indexed.suite = stored.suite
    /\ Quiet

\* README, "Web settings": saved settings are authoritative, and a change of the
\* repository's metadata rebuilds the index, so one that readyz vouches for was
\* built under them.
DescribedWhenReady == Ready => indexed = stored

\* Between the admin's confirmation and the saved settings stand a publish, a
\* transaction, roll-backs and a recovery, each of which may fail or be cut off:
\* seen from outside, settings come into force only when the index was built under
\* them, the index changes only while something is flagged, and nothing is flagged
\* any more only when the index follows.
Register == INSTANCE PublishedSettings WITH
    flagged <- ~Quiet, contended <- overlapped

ImplementsRegister == Register!Spec

-----------------------------------------------------------------------------
(* Liveness, under the fairness of module Repository: the holder keeps running *)
(* and so does a settings thread before its lock, the service is restarted,    *)
(* the scheduler retries in every cycle, and flock is granted again and again. *)

Fairness ==
    /\ WF_vars(Section)
    /\ WF_vars(Restart)
    /\ WF_vars(RequestRetry)
    /\ \A t \in Worker : WF_vars(SettingsStep(t))
    /\ \A t \in Client : SF_vars(Acquire(t))

FairSpec == Spec /\ Fairness /\ <>[][Fault => Section]_vars

\* The index comes to follow the settings in force, however often a publish
\* failed or the process died in between.
Converges == indexed # stored ~> indexed = stored \/ overlapped

\* An interrupted change is reconciled by its own thread, the scheduler or the
\* next start.
PendingCleared == pending ~> ~pending

\* Every request ends, those that wait for a change of settings included.
RequestsEnd == \A t \in Client : job[t] # None ~> job[t] = None
=============================================================================
