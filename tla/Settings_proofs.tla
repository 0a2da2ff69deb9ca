--------------------------- MODULE Settings_proofs ---------------------------
(* Proofs about Settings: what overlapping changes and requests cannot break,  *)
(* and that without overlap the index describes the settings in force.         *)
EXTENDS Settings, TLAPS

\* What a thread may be working on, and what it has read by then.
JobInv ==
    /\ \A t \in Worker : job[t] # None =>
          /\ job[t].op \in {"settings", "change", "publish"}
          /\ job[t].op = "settings" => job[t].candidate \in Config
          /\ job[t].op # "settings" => job[t].seen \in Config
    /\ job[Scheduler] # None => job[Scheduler].op = "retry" /\ job[Scheduler].seen = None
    /\ job[Boot] # None => job[Boot].op = "startup" /\ job[Boot].seen \in Config

\* The lock, the point and the phase belong together.
HolderInv ==
    /\ lock = None <=> pc = "idle"
    /\ lock # None => job[lock] # None
    /\ job[Boot] # None <=> lock = Boot
    /\ up = "starting" <=> lock = Boot
    /\ up = "down" => lock = None /\ \A t \in Process : job[t] = None
    /\ pc \in {"idle", "mark", "commit", "request", "check", "boot", "reconcile"}
          <=> loc.phase = "none"
    /\ pc = "save" => loc.phase = "candidate"
    /\ pc = "settle" => loc.phase \in {"rollback", "retry", "recover"}
    /\ pc \in {"boot", "reconcile"} \/ loc.phase \in {"recover", "reconcile"} => lock = Boot

\* Whose job the holder is doing.
EntryInv ==
    /\ pc = "commit" => lock \in Worker /\ job[lock].op = "change"
    /\ pc = "request" => lock \in Worker /\ job[lock].op = "publish"
    /\ pc = "mark" \/ loc.phase = "candidate" =>
          lock \in Worker /\ job[lock].op = "settings"
    /\ lock # None /\ job[lock].op = "settings"
          => job[lock].seen \notin {None, job[lock].candidate}
    /\ loc.phase = "candidate" => loc.cfg = job[lock].candidate

\* A publish leaves the settings it was called with in the index, and a change
\* publishes its candidate with the key set.
PublishInv ==
    /\ loc.phase # "none" => loc.cfg \in Config
    /\ loc.phase = "candidate" => pending
    /\ pc \in {"record", "clear", "save", "settle"} => indexed = loc.cfg

\* Whatever a thread has read, and whatever is published but a candidate, has
\* been in force.
SavedInv ==
    /\ stored \in accepted
    /\ \A t \in Process : job[t] # None /\ job[t].seen # None => job[t].seen \in accepted
    /\ loc.phase \notin {"none", "candidate"} => loc.cfg \in accepted
    /\ OnlySavedPublished

Inv == TypeOK /\ JobInv /\ HolderInv /\ EntryInv /\ PublishInv /\ SavedInv

\* As long as no request has overlapped a change, nobody who publishes holds
\* settings that have been replaced.
CurrentInv == ~overlapped =>
    /\ \A t, u \in Worker :
          job[t] # None /\ job[t].op = "settings" /\ job[u] # None => u = t
    /\ \A t \in Process : job[t] # None /\ job[t].seen # None => job[t].seen = stored
    /\ loc.phase \notin {"none", "candidate"} => loc.cfg = stored
    /\ QuietMeansDescribed

\* Every step keeps the types.
LEMMA TypeStep ==
    ASSUME TypeOK, JobInv, HolderInv, EntryInv, [Next]_vars
    PROVE  TypeOK'
<1> USE ProcessAssumption, NoneAssumption
    DEF TypeOK, JobRecord, Locals, Phase, Point, Op, NoLocals, Client, Process, Step,
        Release, db, JobInv, HolderInv, EntryInv
<1>1. ASSUME \E t \in Worker : RequestPublish(t) \/ RequestSettings(t) PROVE TypeOK'
  <2>1. overlapped' \in BOOLEAN
    BY <1>1, Zenon DEF RequestPublish, RequestSettings, Changing, Requesting
  <2>2. UNCHANGED <<db, indexed, accepted, up, lock, pc, loc>>
    BY <1>1 DEF RequestPublish, RequestSettings, Begin
  <2>3. job' \in [Process -> JobRecord \cup {None}]
    BY <1>1 DEF RequestPublish, RequestSettings, Begin, Job
  <2> QED
    BY <2>1, <2>2, <2>3
<1>2. ASSUME RequestRetry PROVE TypeOK'
  BY <1>2 DEF RequestRetry, Begin, Job
<1>3. ASSUME \E t \in Worker : ReadBefore(t) PROVE TypeOK'
  BY <1>3 DEF ReadBefore
<1>4. ASSUME \E t \in Worker : SavePlain(t) PROVE TypeOK'
  BY <1>4 DEF SavePlain
<1>5. ASSUME \E t \in Client : Acquire(t) PROVE TypeOK'
  BY <1>5 DEF Acquire, EntryPoint
<1>6. ASSUME MarkPending \/ CommitChange \/ PublishRequest PROVE TypeOK'
  <2>1. ASSUME MarkPending PROVE TypeOK'
    BY <1>6, <2>1 DEF MarkPending, Publish
  <2>2. ASSUME CommitChange PROVE TypeOK'
    BY <1>6, <2>2 DEF CommitChange, Publish
  <2>3. ASSUME PublishRequest PROVE TypeOK'
    BY <1>6, <2>3 DEF PublishRequest, Publish
  <2> QED
    BY <1>6, <2>1, <2>2, <2>3
<1>7. ASSUME RetryPublish \/ NothingToRetry PROVE TypeOK'
  BY <1>7 DEF RetryPublish, NothingToRetry, Publish
<1>8. ASSUME StartRun \/ Exchange \/ Record PROVE TypeOK'
  BY <1>8 DEF StartRun, Exchange, Record
<1>9. ASSUME ClearDirty PROVE TypeOK'
  <2>1. loc.phase \notin {"request", "reconcile"} => AfterPublish[loc.phase] \in
     {"save", "settle"}
    BY <1>9 DEF ClearDirty, AfterPublish
  <2>2. pc' \in Point /\ loc' \in Locals
    BY <1>9, <2>1 DEF ClearDirty
  <2>3. job' \in [Process -> JobRecord \cup {None}]
    BY <1>9 DEF ClearDirty
  <2> QED
    BY <1>9, <2>2, <2>3 DEF ClearDirty
<1>10. ASSUME PublishFails \/ RecordFailure PROVE TypeOK'
  BY <1>10 DEF PublishFails, RecordFailure
<1>11. ASSUME FlagFailure PROVE TypeOK'
  BY <1>11 DEF FlagFailure, Publish, Die
<1>12. ASSUME Save PROVE TypeOK'
  BY <1>12 DEF Save
<1>13. ASSUME SaveFails PROVE TypeOK'
  BY <1>13 DEF SaveFails, Publish
<1>14. ASSUME Settle PROVE TypeOK'
  <2>1. pc' \in Point /\ loc' \in Locals /\ lock' \in Process \cup {None}
    BY <1>14 DEF Settle
  <2>2. job' \in [Process -> JobRecord \cup {None}]
    BY <1>14 DEF Settle
  <2>3. up' \in {"down", "starting", "serving"}
    BY <1>14 DEF Settle
  <2> QED
    BY <1>14, <2>1, <2>2, <2>3 DEF Settle
<1>15. ASSUME Restart PROVE TypeOK'
  BY <1>15 DEF Restart, Job
<1>16. ASSUME Recover \/ NothingPending PROVE TypeOK'
  BY <1>16 DEF Recover, NothingPending, Publish
<1>17. ASSUME Reconcile PROVE TypeOK'
  BY <1>17 DEF Reconcile, Publish
<1>18. ASSUME Crash PROVE TypeOK'
  BY <1>18 DEF Crash, Die
<1>19. ASSUME UNCHANGED vars PROVE TypeOK'
  BY <1>19 DEF vars
<1> QED
  BY <1>1, <1>2, <1>3, <1>4, <1>5, <1>6, <1>7, <1>8, <1>9, <1>10, <1>11, <1>12, <1>13,
     <1>14, <1>15, <1>16, <1>17, <1>18, <1>19
  DEF Next, RequestStep, SettingsStep, Section, Fault

\* Every step keeps what is known of the jobs.
LEMMA JobStep ==
    ASSUME TypeOK, JobInv, HolderInv, [Next]_vars
    PROVE  JobInv'
<1> USE ProcessAssumption, NoneAssumption
    DEF TypeOK, JobRecord, Locals, Phase, Point, Op, NoLocals, Client, Process, Step,
        Release, db, JobInv, HolderInv
<1>1. ASSUME \E t \in Worker : RequestPublish(t) \/ RequestSettings(t) PROVE JobInv'
  BY <1>1 DEF RequestPublish, RequestSettings, Begin, Job
<1>2. ASSUME RequestRetry PROVE JobInv'
  BY <1>2 DEF RequestRetry, Begin, Job
<1>3. ASSUME \E t \in Worker : ReadBefore(t) PROVE JobInv'
  BY <1>3 DEF ReadBefore
<1>4. ASSUME \E t \in Worker : SavePlain(t) PROVE JobInv'
  BY <1>4 DEF SavePlain
<1>5. ASSUME \E t \in Client : Acquire(t) PROVE JobInv'
  BY <1>5 DEF Acquire, EntryPoint
<1>6. ASSUME MarkPending \/ CommitChange \/ PublishRequest PROVE JobInv'
  BY <1>6 DEF MarkPending, CommitChange, PublishRequest, Publish
<1>7. ASSUME RetryPublish \/ NothingToRetry PROVE JobInv'
  BY <1>7 DEF RetryPublish, NothingToRetry, Publish
<1>8. ASSUME StartRun \/ Exchange \/ Record PROVE JobInv'
  BY <1>8 DEF StartRun, Exchange, Record
<1>9. ASSUME ClearDirty PROVE JobInv'
  BY <1>9 DEF ClearDirty, AfterPublish
<1>10. ASSUME PublishFails \/ RecordFailure PROVE JobInv'
  BY <1>10 DEF PublishFails, RecordFailure
<1>11. ASSUME FlagFailure PROVE JobInv'
  BY <1>11 DEF FlagFailure, Publish, Die
<1>12. ASSUME Save PROVE JobInv'
  BY <1>12 DEF Save
<1>13. ASSUME SaveFails PROVE JobInv'
  BY <1>13 DEF SaveFails, Publish
<1>14. ASSUME Settle PROVE JobInv'
  BY <1>14 DEF Settle
<1>15. ASSUME Restart PROVE JobInv'
  BY <1>15 DEF Restart, Job
<1>16. ASSUME Recover \/ NothingPending PROVE JobInv'
  BY <1>16 DEF Recover, NothingPending, Publish
<1>17. ASSUME Reconcile PROVE JobInv'
  BY <1>17 DEF Reconcile, Publish
<1>18. ASSUME Crash PROVE JobInv'
  BY <1>18 DEF Crash, Die
<1>19. ASSUME UNCHANGED vars PROVE JobInv'
  BY <1>19 DEF vars
<1> QED
  BY <1>1, <1>2, <1>3, <1>4, <1>5, <1>6, <1>7, <1>8, <1>9, <1>10, <1>11, <1>12, <1>13,
     <1>14, <1>15, <1>16, <1>17, <1>18, <1>19
  DEF Next, RequestStep, SettingsStep, Section, Fault

\* Every step keeps lock, point and phase together.
LEMMA HolderStep ==
    ASSUME TypeOK, JobInv, HolderInv, EntryInv, [Next]_vars
    PROVE  HolderInv'
<1> USE ProcessAssumption, NoneAssumption
    DEF TypeOK, JobRecord, Locals, Phase, Point, Op, NoLocals, Client, Process, Step,
        Release, db, JobInv, HolderInv, EntryInv
<1>1. ASSUME \E t \in Worker : RequestPublish(t) \/ RequestSettings(t) PROVE HolderInv'
  BY <1>1 DEF RequestPublish, RequestSettings, Begin, Job
<1>2. ASSUME RequestRetry PROVE HolderInv'
  BY <1>2 DEF RequestRetry, Begin, Job
<1>3. ASSUME \E t \in Worker : ReadBefore(t) PROVE HolderInv'
  BY <1>3 DEF ReadBefore
<1>4. ASSUME \E t \in Worker : SavePlain(t) PROVE HolderInv'
  BY <1>4 DEF SavePlain
<1>5. ASSUME \E t \in Client : Acquire(t) PROVE HolderInv'
  <2>1. PICK t \in Client : Acquire(t)
    BY <1>5
  <2>2. job[t].op \in {"settings", "change", "publish", "retry"}
    BY <2>1 DEF Acquire
  <2>3. pc' \in {"mark", "commit", "request", "check"}
    BY <2>1, <2>2 DEF Acquire, EntryPoint
  <2>4. lock = None /\ lock' = t /\ t # None /\ t # Boot /\ job[t] # None
    BY <2>1 DEF Acquire
  <2>5. pc = "idle" /\ loc.phase = "none" /\ UNCHANGED <<up, job, loc>>
    BY <2>1, <2>4 DEF Acquire
  <2>6. loc'.phase = "none" /\ lock' # Boot /\ lock' # None
    BY <2>4, <2>5
  <2>7. job'[lock'] # None /\ job'[Boot] = None /\ up' \notin {"starting", "down"}
    BY <2>4, <2>5, <2>1 DEF Acquire
  <2> QED
    BY <2>3, <2>6, <2>7
<1>6. ASSUME MarkPending \/ CommitChange \/ PublishRequest PROVE HolderInv'
  BY <1>6 DEF MarkPending, CommitChange, PublishRequest, Publish
<1>7. ASSUME RetryPublish \/ NothingToRetry PROVE HolderInv'
  BY <1>7 DEF RetryPublish, NothingToRetry, Publish
<1>8. ASSUME StartRun \/ Exchange \/ Record PROVE HolderInv'
  BY <1>8 DEF StartRun, Exchange, Record
<1>9. ASSUME ClearDirty PROVE HolderInv'
  BY <1>9 DEF ClearDirty, AfterPublish
<1>10. ASSUME PublishFails \/ RecordFailure PROVE HolderInv'
  BY <1>10 DEF PublishFails, RecordFailure
<1>11. ASSUME FlagFailure PROVE HolderInv'
  BY <1>11 DEF FlagFailure, Publish, Die
<1>12. ASSUME Save PROVE HolderInv'
  BY <1>12 DEF Save
<1>13. ASSUME SaveFails PROVE HolderInv'
  BY <1>13 DEF SaveFails, Publish
<1>14. ASSUME Settle PROVE HolderInv'
  BY <1>14 DEF Settle
<1>15. ASSUME Restart PROVE HolderInv'
  BY <1>15 DEF Restart, Job
<1>16. ASSUME Recover \/ NothingPending PROVE HolderInv'
  BY <1>16 DEF Recover, NothingPending, Publish
<1>17. ASSUME Reconcile PROVE HolderInv'
  BY <1>17 DEF Reconcile, Publish
<1>18. ASSUME Crash PROVE HolderInv'
  BY <1>18 DEF Crash, Die
<1>19. ASSUME UNCHANGED vars PROVE HolderInv'
  BY <1>19 DEF vars
<1> QED
  BY <1>1, <1>2, <1>3, <1>4, <1>5, <1>6, <1>7, <1>8, <1>9, <1>10, <1>11, <1>12, <1>13,
     <1>14, <1>15, <1>16, <1>17, <1>18, <1>19
  DEF Next, RequestStep, SettingsStep, Section, Fault

\* Every step keeps what is known of the holder's job.
LEMMA EntryStep ==
    ASSUME TypeOK, JobInv, HolderInv, EntryInv, [Next]_vars
    PROVE  EntryInv'
<1> USE ProcessAssumption, NoneAssumption
    DEF TypeOK, JobRecord, Locals, Phase, Point, Op, NoLocals, Client, Process, Step,
        Release, db, JobInv, HolderInv, EntryInv
<1>1. ASSUME \E t \in Worker : RequestPublish(t) \/ RequestSettings(t) PROVE EntryInv'
  BY <1>1 DEF RequestPublish, RequestSettings, Begin, Job
<1>2. ASSUME RequestRetry PROVE EntryInv'
  BY <1>2 DEF RequestRetry, Begin, Job
<1>3. ASSUME \E t \in Worker : ReadBefore(t) PROVE EntryInv'
  BY <1>3 DEF ReadBefore
<1>4. ASSUME \E t \in Worker : SavePlain(t) PROVE EntryInv'
  BY <1>4 DEF SavePlain
<1>5. ASSUME \E t \in Client : Acquire(t) PROVE EntryInv'
  BY <1>5 DEF Acquire, EntryPoint
<1>6. ASSUME MarkPending \/ CommitChange \/ PublishRequest PROVE EntryInv'
  BY <1>6 DEF MarkPending, CommitChange, PublishRequest, Publish
<1>7. ASSUME RetryPublish \/ NothingToRetry PROVE EntryInv'
  BY <1>7 DEF RetryPublish, NothingToRetry, Publish
<1>8. ASSUME StartRun \/ Exchange \/ Record PROVE EntryInv'
  BY <1>8 DEF StartRun, Exchange, Record
<1>9. ASSUME ClearDirty PROVE EntryInv'
  BY <1>9 DEF ClearDirty, AfterPublish
<1>10. ASSUME PublishFails \/ RecordFailure PROVE EntryInv'
  BY <1>10 DEF PublishFails, RecordFailure
<1>11. ASSUME FlagFailure PROVE EntryInv'
  BY <1>11 DEF FlagFailure, Publish, Die
<1>12. ASSUME Save PROVE EntryInv'
  BY <1>12 DEF Save
<1>13. ASSUME SaveFails PROVE EntryInv'
  BY <1>13 DEF SaveFails, Publish
<1>14. ASSUME Settle PROVE EntryInv'
  BY <1>14 DEF Settle
<1>15. ASSUME Restart PROVE EntryInv'
  BY <1>15 DEF Restart, Job
<1>16. ASSUME Recover \/ NothingPending PROVE EntryInv'
  BY <1>16 DEF Recover, NothingPending, Publish
<1>17. ASSUME Reconcile PROVE EntryInv'
  BY <1>17 DEF Reconcile, Publish
<1>18. ASSUME Crash PROVE EntryInv'
  BY <1>18 DEF Crash, Die
<1>19. ASSUME UNCHANGED vars PROVE EntryInv'
  BY <1>19 DEF vars
<1> QED
  BY <1>1, <1>2, <1>3, <1>4, <1>5, <1>6, <1>7, <1>8, <1>9, <1>10, <1>11, <1>12, <1>13,
     <1>14, <1>15, <1>16, <1>17, <1>18, <1>19
  DEF Next, RequestStep, SettingsStep, Section, Fault

\* Every step keeps what is known of the publish under way.
LEMMA PublishStep ==
    ASSUME TypeOK, JobInv, HolderInv, EntryInv, PublishInv, [Next]_vars
    PROVE  PublishInv'
<1> USE ProcessAssumption, NoneAssumption
    DEF TypeOK, JobRecord, Locals, Phase, Point, Op, NoLocals, Client, Process, Step,
        Release, db, JobInv, HolderInv, EntryInv, PublishInv
<1>1. ASSUME \E t \in Worker : RequestPublish(t) \/ RequestSettings(t) PROVE PublishInv'
  BY <1>1 DEF RequestPublish, RequestSettings, Begin, Job
<1>2. ASSUME RequestRetry PROVE PublishInv'
  BY <1>2 DEF RequestRetry, Begin, Job
<1>3. ASSUME \E t \in Worker : ReadBefore(t) PROVE PublishInv'
  BY <1>3 DEF ReadBefore
<1>4. ASSUME \E t \in Worker : SavePlain(t) PROVE PublishInv'
  BY <1>4 DEF SavePlain
<1>5. ASSUME \E t \in Client : Acquire(t) PROVE PublishInv'
  BY <1>5 DEF Acquire, EntryPoint
<1>6. ASSUME MarkPending \/ CommitChange \/ PublishRequest PROVE PublishInv'
  BY <1>6 DEF MarkPending, CommitChange, PublishRequest, Publish
<1>7. ASSUME RetryPublish \/ NothingToRetry PROVE PublishInv'
  BY <1>7 DEF RetryPublish, NothingToRetry, Publish
<1>8. ASSUME StartRun \/ Exchange \/ Record PROVE PublishInv'
  BY <1>8 DEF StartRun, Exchange, Record
<1>9. ASSUME ClearDirty PROVE PublishInv'
  BY <1>9 DEF ClearDirty, AfterPublish
<1>10. ASSUME PublishFails \/ RecordFailure PROVE PublishInv'
  BY <1>10 DEF PublishFails, RecordFailure
<1>11. ASSUME FlagFailure PROVE PublishInv'
  BY <1>11 DEF FlagFailure, Publish, Die
<1>12. ASSUME Save PROVE PublishInv'
  BY <1>12 DEF Save
<1>13. ASSUME SaveFails PROVE PublishInv'
  BY <1>13 DEF SaveFails, Publish
<1>14. ASSUME Settle PROVE PublishInv'
  BY <1>14 DEF Settle
<1>15. ASSUME Restart PROVE PublishInv'
  BY <1>15 DEF Restart, Job
<1>16. ASSUME Recover \/ NothingPending PROVE PublishInv'
  BY <1>16 DEF Recover, NothingPending, Publish
<1>17. ASSUME Reconcile PROVE PublishInv'
  BY <1>17 DEF Reconcile, Publish
<1>18. ASSUME Crash PROVE PublishInv'
  BY <1>18 DEF Crash, Die
<1>19. ASSUME UNCHANGED vars PROVE PublishInv'
  BY <1>19 DEF vars
<1> QED
  BY <1>1, <1>2, <1>3, <1>4, <1>5, <1>6, <1>7, <1>8, <1>9, <1>10, <1>11, <1>12, <1>13,
     <1>14, <1>15, <1>16, <1>17, <1>18, <1>19
  DEF Next, RequestStep, SettingsStep, Section, Fault

\* Every step keeps unsaved settings flagged.
LEMMA SavedStep ==
    ASSUME TypeOK, JobInv, HolderInv, EntryInv, PublishInv, SavedInv, [Next]_vars
    PROVE  SavedInv'
<1> USE ProcessAssumption, NoneAssumption
    DEF TypeOK, JobRecord, Locals, Phase, Point, Op, NoLocals, Client, Process, Step,
        Release, db, JobInv, HolderInv, EntryInv, PublishInv, SavedInv,
        OnlySavedPublished
<1>1. ASSUME \E t \in Worker : RequestPublish(t) \/ RequestSettings(t) PROVE SavedInv'
  BY <1>1 DEF RequestPublish, RequestSettings, Begin, Job
<1>2. ASSUME RequestRetry PROVE SavedInv'
  BY <1>2 DEF RequestRetry, Begin, Job
<1>3. ASSUME \E t \in Worker : ReadBefore(t) PROVE SavedInv'
  BY <1>3 DEF ReadBefore
<1>4. ASSUME \E t \in Worker : SavePlain(t) PROVE SavedInv'
  BY <1>4 DEF SavePlain
<1>5. ASSUME \E t \in Client : Acquire(t) PROVE SavedInv'
  BY <1>5 DEF Acquire, EntryPoint
<1>6. ASSUME MarkPending \/ CommitChange \/ PublishRequest PROVE SavedInv'
  BY <1>6 DEF MarkPending, CommitChange, PublishRequest, Publish
<1>7. ASSUME RetryPublish \/ NothingToRetry PROVE SavedInv'
  BY <1>7 DEF RetryPublish, NothingToRetry, Publish
<1>8. ASSUME StartRun \/ Exchange \/ Record PROVE SavedInv'
  BY <1>8 DEF StartRun, Exchange, Record
<1>9. ASSUME ClearDirty PROVE SavedInv'
  BY <1>9 DEF ClearDirty, AfterPublish
<1>10. ASSUME PublishFails \/ RecordFailure PROVE SavedInv'
  BY <1>10 DEF PublishFails, RecordFailure
<1>11. ASSUME FlagFailure PROVE SavedInv'
  BY <1>11 DEF FlagFailure, Publish, Die
<1>12. ASSUME Save PROVE SavedInv'
  BY <1>12 DEF Save
<1>13. ASSUME SaveFails PROVE SavedInv'
  BY <1>13 DEF SaveFails, Publish
<1>14. ASSUME Settle PROVE SavedInv'
  BY <1>14 DEF Settle
<1>15. ASSUME Restart PROVE SavedInv'
  BY <1>15 DEF Restart, Job
<1>16. ASSUME Recover \/ NothingPending PROVE SavedInv'
  BY <1>16 DEF Recover, NothingPending, Publish
<1>17. ASSUME Reconcile PROVE SavedInv'
  BY <1>17 DEF Reconcile, Publish
<1>18. ASSUME Crash PROVE SavedInv'
  BY <1>18 DEF Crash, Die
<1>19. ASSUME UNCHANGED vars PROVE SavedInv'
  BY <1>19 DEF vars
<1> QED
  BY <1>1, <1>2, <1>3, <1>4, <1>5, <1>6, <1>7, <1>8, <1>9, <1>10, <1>11, <1>12, <1>13,
     <1>14, <1>15, <1>16, <1>17, <1>18, <1>19
  DEF Next, RequestStep, SettingsStep, Section, Fault

-----------------------------------------------------------------------------
(* Whatever overlaps.                                                          *)

\* The initial states satisfy the invariant.
LEMMA InitInv == Init => Inv
<1> SUFFICES ASSUME Init PROVE Inv
  OBVIOUS
<1> USE ProcessAssumption, NoneAssumption DEF Init, NoLocals, Process, Client
<1>1. TypeOK
  BY DEF TypeOK, Locals, Phase, Point
<1>2. JobInv /\ EntryInv
  BY DEF JobInv, EntryInv
<1>3. HolderInv
  BY DEF HolderInv
<1>4. PublishInv /\ SavedInv
  BY DEF PublishInv, SavedInv, OnlySavedPublished
<1> QED
  BY <1>1, <1>2, <1>3, <1>4 DEF Inv

\* Every step preserves the invariant.
LEMMA NextInv == Inv /\ [Next]_vars => Inv'
<1> SUFFICES ASSUME Inv, [Next]_vars PROVE Inv'
  OBVIOUS
<1> TypeOK /\ JobInv /\ HolderInv /\ EntryInv /\ PublishInv /\ SavedInv
  BY DEF Inv
<1>1. TypeOK' /\ JobInv' /\ HolderInv' /\ EntryInv'
  BY TypeStep, JobStep, HolderStep, EntryStep
<1>2. PublishInv' /\ SavedInv'
  BY PublishStep, SavedStep
<1> QED
  BY <1>1, <1>2 DEF Inv

\* The inductive invariant holds in every reachable state.
THEOREM InvAlways == Spec => []Inv
  BY InitInv, NextInv, PTL DEF Spec

\* Every variable keeps its type (settings.py, routes/admin.py:867-897).
THEOREM TypeCorrect == Spec => []TypeOK
<1>1. Inv => TypeOK
  BY DEF Inv
<1> QED
  BY InvAlways, <1>1, PTL

\* However changes, requests, failures and crashes overlap, the index is built
\* under settings that were saved at some time, or the pending key is set.
THEOREM OnlySavedAlwaysPublished == Spec => []OnlySavedPublished
<1>1. Inv => OnlySavedPublished
  BY DEF Inv, SavedInv
<1> QED
  BY InvAlways, <1>1, PTL

-----------------------------------------------------------------------------
(* Without overlap.                                                            *)

\* Without overlap every step keeps what threads have read current.
LEMMA CurrentStep ==
    ASSUME Inv, CurrentInv, [Next]_vars
    PROVE  CurrentInv'
<1> USE ProcessAssumption, NoneAssumption
    DEF Inv, TypeOK, JobRecord, Locals, NoLocals, Client, Process, Step, Release, db,
        JobInv, HolderInv, EntryInv, PublishInv, CurrentInv, QuietMeansDescribed, Quiet
<1>1. ASSUME NEW t \in Worker, RequestPublish(t) PROVE CurrentInv'
  <2>1. overlapped \/ Changing => overlapped'
    BY <1>1 DEF RequestPublish
  <2> QED
    BY <1>1, <2>1 DEF RequestPublish, Begin, Job, Changing
<1>20. ASSUME NEW t \in Worker, RequestSettings(t) PROVE CurrentInv'
  <2>1. overlapped \/ Changing \/ Requesting => overlapped'
    BY <1>20 DEF RequestSettings
  <2> QED
    BY <1>20, <2>1 DEF RequestSettings, Begin, Job, Changing, Requesting
<1>2. ASSUME RequestRetry PROVE CurrentInv'
  BY <1>2 DEF RequestRetry, Begin, Job
<1>3. ASSUME \E t \in Worker : ReadBefore(t) PROVE CurrentInv'
  BY <1>3 DEF ReadBefore
<1>4. ASSUME \E t \in Worker : SavePlain(t) PROVE CurrentInv'
  BY <1>4 DEF SavePlain
<1>5. ASSUME \E t \in Client : Acquire(t) PROVE CurrentInv'
  BY <1>5 DEF Acquire
<1>6. ASSUME MarkPending \/ CommitChange \/ PublishRequest PROVE CurrentInv'
  BY <1>6 DEF MarkPending, CommitChange, PublishRequest, Publish
<1>7. ASSUME RetryPublish \/ NothingToRetry PROVE CurrentInv'
  BY <1>7 DEF RetryPublish, NothingToRetry, Publish
<1>8. ASSUME StartRun \/ Exchange \/ Record PROVE CurrentInv'
  BY <1>8 DEF StartRun, Exchange, Record
<1>9. ASSUME ClearDirty PROVE CurrentInv'
  BY <1>9 DEF ClearDirty
<1>10. ASSUME PublishFails \/ RecordFailure PROVE CurrentInv'
  BY <1>10 DEF PublishFails, RecordFailure
<1>11. ASSUME FlagFailure PROVE CurrentInv'
  BY <1>11 DEF FlagFailure, Publish, Die
<1>12. ASSUME Save PROVE CurrentInv'
  BY <1>12 DEF Save
<1>13. ASSUME SaveFails PROVE CurrentInv'
  BY <1>13 DEF SaveFails, Publish
<1>14. ASSUME Settle PROVE CurrentInv'
  BY <1>14 DEF Settle
<1>15. ASSUME Restart PROVE CurrentInv'
  BY <1>15 DEF Restart, Job
<1>16. ASSUME Recover \/ NothingPending PROVE CurrentInv'
  BY <1>16 DEF Recover, NothingPending, Publish
<1>17. ASSUME Reconcile PROVE CurrentInv'
  BY <1>17 DEF Reconcile, Publish
<1>18. ASSUME Crash PROVE CurrentInv'
  BY <1>18 DEF Crash, Die
<1>19. ASSUME UNCHANGED vars PROVE CurrentInv'
  BY <1>19 DEF vars
<1> QED
  BY <1>1, <1>2, <1>3, <1>4, <1>5, <1>6, <1>7, <1>8, <1>9, <1>10, <1>11, <1>12, <1>13,
     <1>14, <1>15, <1>16, <1>17, <1>18, <1>19, <1>20
  DEF Next, RequestStep, SettingsStep, Section, Fault

\* As long as no request has overlapped a change of settings, an index with
\* nothing flagged was built under the settings in force: after any number of
\* changes, failures, roll-backs, crashes and recoveries.
THEOREM QuietAlwaysDescribed == Spec => []QuietMeansDescribed
<1>1. Init => CurrentInv
  BY DEF Init, CurrentInv, QuietMeansDescribed, Quiet, NoLocals, Process, Client
<1>2. Inv /\ CurrentInv /\ [Next]_vars => CurrentInv'
  BY CurrentStep
<1>3. CurrentInv => QuietMeansDescribed
  BY DEF CurrentInv, QuietMeansDescribed
<1> QED
  BY InvAlways, <1>1, <1>2, <1>3, PTL DEF Spec
-----------------------------------------------------------------------------
(* The promise to the administrator, module PublishedSettings.                 *)

\* From its row in publish_runs to the exchange a publish is seen as running.
RunInv == pc \in {"exchange", "record"} => lastRun = "running"

\* Nobody but the holder writes publish_runs.
LEMMA RunStep ==
    ASSUME Inv, RunInv, [Next]_vars
    PROVE  RunInv'
<1> USE DEF RunInv, Step, Release, Die, Publish, db
<1>1. ASSUME RequestStep PROVE RunInv'
  BY <1>1 DEF RequestStep, RequestPublish, RequestSettings, RequestRetry, Begin
<1>2. ASSUME NEW t \in Worker, SettingsStep(t) PROVE RunInv'
  BY <1>2 DEF SettingsStep, ReadBefore, SavePlain
<1>3. ASSUME NEW t \in Client, Acquire(t) PROVE RunInv'
  <2>1. job[t].op \in {"settings", "change", "publish", "retry"}
    BY <1>3, ProcessAssumption DEF Acquire, Client, Inv, JobInv
  <2>2. pc' \in {"mark", "commit", "request", "check"}
    BY <1>3, <2>1 DEF Acquire, EntryPoint
  <2> QED
    BY <2>2
<1>4. ASSUME Section PROVE RunInv'
  <2>1. ASSUME ClearDirty PROVE RunInv'
    <3>1. loc.phase \in {"candidate", "rollback", "request", "retry", "recover", "reconcile"}
      BY <2>1 DEF ClearDirty, Inv, TypeOK, Locals, Phase, HolderInv
    <3>2. pc' \in {"idle", "save", "settle"}
      BY <2>1, <3>1 DEF ClearDirty, AfterPublish
    <3> QED
      BY <3>2
  <2> QED
    BY <1>4, <2>1
    DEF Section, MarkPending, CommitChange, PublishRequest, RetryPublish, NothingToRetry,
        StartRun, Exchange, Record, RecordFailure, FlagFailure, Save, Settle, Recover,
        NothingPending, Reconcile
<1>5. ASSUME Restart \/ Fault PROVE RunInv'
  BY <1>5 DEF Restart, Fault, PublishFails, SaveFails, Crash
<1>6. ASSUME UNCHANGED vars PROVE RunInv'
  BY <1>6 DEF vars
<1> QED
  BY <1>1, <1>2, <1>3, <1>4, <1>5, <1>6 DEF Next

\* The register's step that a step of the service is seen as.
RegisterStep == [Register!Next]_(Register!vars)

\* A step that leaves settings and index alone raises or lowers the flag at most.
LEMMA FlagStep ==
    ASSUME QuietMeansDescribed', stored' = stored, indexed' = indexed, overlapped' = overlapped
    PROVE  RegisterStep
<1>1. CASE Quiet' <=> Quiet
  BY <1>1 DEF RegisterStep, Register!vars
<1>2. CASE Quiet' /\ ~Quiet
  BY <1>2 DEF RegisterStep, Register!Next, Register!Lower, QuietMeansDescribed
<1>3. CASE ~Quiet' /\ Quiet
  BY <1>3 DEF RegisterStep, Register!Next, Register!Raise
<1> QED
  BY <1>1, <1>2, <1>3

\* A request may begin to overlap a change.
LEMMA ContendStep ==
    ASSUME NEW P, overlapped' = (overlapped \/ P), overlapped \in BOOLEAN, P \in BOOLEAN,
           UNCHANGED <<db, indexed>>
    PROVE  RegisterStep
<1>1. Quiet' = Quiet /\ stored' = stored
  BY DEF Quiet, db
<1>2. CASE overlapped' = overlapped
  BY <1>1, <1>2 DEF RegisterStep, Register!vars
<1>3. CASE overlapped' = TRUE
  BY <1>1, <1>3 DEF RegisterStep, Register!Next, Register!Contend
<1> QED
  BY <1>2, <1>3

\* The exchange builds the index while its run is seen as running.
LEMMA ExchangeBuilds ==
    ASSUME Inv, RunInv, Exchange
    PROVE  RegisterStep
<1>1. pc = "exchange" /\ loc.cfg \in Config /\ loc.phase # "none"
  BY DEF Exchange, Step, Inv, HolderInv, PublishInv
<1>2. ~Quiet /\ Quiet' = Quiet
  BY <1>1 DEF Exchange, RunInv, Quiet, db
<1>3. Register!Build(loc.cfg)
  BY <1>2 DEF Exchange, Register!Build, db
<1> QED
  BY <1>1, <1>3 DEF RegisterStep, Register!Next

\* The candidate is saved under the lock its publish ran under.
LEMMA SaveEnforces ==
    ASSUME Inv, Save
    PROVE  RegisterStep
<1>1. indexed = job[lock].candidate /\ indexed \in Config
  BY DEF Save, Inv, HolderInv, EntryInv, PublishInv
<1>2. Register!Enforce
  BY <1>1, NoneAssumption DEF Save, Register!Enforce, Quiet
<1> QED
  BY <1>2 DEF RegisterStep, Register!Next

\* A form that changes no repository setting saves what it has read.
LEMMA PlainOverwrites ==
    ASSUME Inv, CurrentInv, NEW t \in Worker, SavePlain(t)
    PROVE  RegisterStep
<1>1. job[t].seen = job[t].candidate /\ job[t].candidate \in Config /\ job[t].seen # None
  BY NoneAssumption DEF SavePlain, Inv, JobInv
<1>2. Quiet' = Quiet /\ indexed' = indexed /\ overlapped' = overlapped
  BY DEF SavePlain, Quiet
<1>3. CASE overlapped
  <2>1. Register!Overwrite(job[t].candidate)
    BY <1>2, <1>3 DEF SavePlain, Register!Overwrite
  <2> QED
    BY <1>1, <2>1 DEF RegisterStep, Register!Next
<1>4. CASE ~overlapped
  <2>1. stored' = stored
    BY <1>1, <1>4 DEF SavePlain, CurrentInv, Process, Client
  <2> QED
    BY <1>2, <2>1 DEF RegisterStep, Register!vars
<1> QED
  BY <1>3, <1>4 DEF Inv, TypeOK

\* Every step of the service is a step of the register or none.
LEMMA StepRegisters ==
    ASSUME Inv, CurrentInv, RunInv, [Next]_vars
    PROVE  RegisterStep
<1>1. QuietMeansDescribed'
  BY CurrentStep DEF CurrentInv, QuietMeansDescribed
<1> USE <1>1, FlagStep DEF db, Step, Publish
<1>2. ASSUME NEW t \in Worker, RequestPublish(t) \/ RequestSettings(t) PROVE RegisterStep
  <2>1. overlapped \in BOOLEAN
    BY DEF Inv, TypeOK
  <2>2. CASE RequestPublish(t)
    <3>1. overlapped' = (overlapped \/ Changing) /\ Changing \in BOOLEAN
      BY <2>2 DEF RequestPublish, Changing
    <3> QED
      BY <2>1, <2>2, <3>1, ContendStep DEF RequestPublish, Begin
  <2>3. CASE RequestSettings(t)
    <3>1. /\ overlapped' = (overlapped \/ (Changing \/ Requesting))
          /\ (Changing \/ Requesting) \in BOOLEAN
      BY <2>3 DEF RequestSettings, Changing, Requesting
    <3> QED
      BY <2>1, <2>3, <3>1, ContendStep DEF RequestSettings, Begin
  <2> QED
    BY <1>2, <2>2, <2>3
<1>3. ASSUME RequestRetry PROVE RegisterStep
  BY <1>3 DEF RequestRetry, Begin
<1>4. ASSUME NEW t \in Worker, SettingsStep(t) PROVE RegisterStep
  BY <1>4, PlainOverwrites DEF SettingsStep, ReadBefore
<1>5. ASSUME NEW t \in Client, Acquire(t) PROVE RegisterStep
  BY <1>5 DEF Acquire
<1>6. ASSUME Section PROVE RegisterStep
  BY <1>6, ExchangeBuilds, SaveEnforces
  DEF Section, MarkPending, CommitChange, PublishRequest, RetryPublish, NothingToRetry,
      StartRun, Record, ClearDirty, RecordFailure, FlagFailure, Settle, Recover,
      NothingPending, Reconcile
<1>7. ASSUME Restart \/ Fault PROVE RegisterStep
  BY <1>7 DEF Restart, Fault, PublishFails, SaveFails, Crash
<1>8. ASSUME UNCHANGED vars PROVE RegisterStep
  BY <1>8 DEF vars
<1> QED
  BY <1>2, <1>3, <1>4, <1>5, <1>6, <1>7, <1>8 DEF Next, RequestStep

\* The publish under the candidate, its roll-back, the save, the retry and the
\* recovery together implement the register, wherever one fails or is cut off
\* (routes/admin.py:867-897, scheduler.py, recovery.py).
THEOREM RegisterImplemented == Spec => ImplementsRegister
<1>1. Init => CurrentInv
  BY DEF Init, CurrentInv, QuietMeansDescribed, Quiet, NoLocals, Process, Client
<1>2. Init => RunInv /\ Register!Init
  BY DEF Init, RunInv, Register!Init, Quiet
<1>3. Inv /\ CurrentInv /\ [Next]_vars => CurrentInv'
  BY CurrentStep
<1>4. Inv /\ RunInv /\ [Next]_vars => RunInv'
  BY RunStep
<1>5. Inv /\ CurrentInv /\ RunInv /\ [Next]_vars => [Register!Next]_(Register!vars)
  BY StepRegisters DEF RegisterStep
<1> QED
  BY InvAlways, <1>1, <1>2, <1>3, <1>4, <1>5, PTL DEF Spec, ImplementsRegister, Register!Spec

\* What the register is worth: its steps alone keep the settings described.
THEOREM RegisterDescribes == Register!Spec => []Register!Described
<1>1. Register!Init => Register!Described
  BY DEF Register!Init, Register!Described
<1>2. Register!Described /\ [Register!Next]_(Register!vars) => Register!Described'
  <2> SUFFICES ASSUME Register!Described, [Register!Next]_(Register!vars)
               PROVE  Register!Described'
    OBVIOUS
  <2> QED
    BY DEF Register!Described, Register!Next, Register!vars, Register!Raise, Register!Build,
       Register!Enforce, Register!Lower, Register!Contend, Register!Overwrite
<1> QED
  BY <1>1, <1>2, PTL DEF Register!Spec
=============================================================================
