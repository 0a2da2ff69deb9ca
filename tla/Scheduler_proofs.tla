---------------------------- MODULE Scheduler_proofs ----------------------------
(* The scheduler's wake-up and its stop, for any number of sources and any     *)
(* bound on a cycle.                                                           *)
EXTENDS Scheduler, TLAPS

\* The worker thread is at a source exactly where it has claimed one.
RunInv == pc = "run" <=> active # None

\* Whatever makes a source asked for makes it due.
DueInv == \A s \in Source : Asked(s) => s \in due

\* A running source is that of the thread, unless its end was refused; a crash
\* leaves others, until the start.
RunningInv ==
    pc # "stopped" \/ stop =>
        \A s \in Source : InStatus(s, "running") => s \in lost \/ s = active

\* From the cycle's finding nothing to do, a request sets the event.
SleepInv ==
    pc \in {"check", "wait"} /\ ~wake /\ ~cut => \A s \in Source : ~Asked(s)

Inv == TypeOK /\ RunInv /\ DueInv /\ RunningInv /\ SleepInv

USE NoneAssumption, BoundAssumption DEF Row, Status

\* The parts other than types read the rows and the task only.
LEMMA RowFacts ==
    ASSUME TypeOK, NEW s \in Source
    PROVE  /\ Exists(s) => source[s] \in Row
           /\ ~(Asked(s) /\ InStatus(s, "running"))
BY DEF TypeOK, Exists, Asked, InStatus

\* Making sources due keeps the order of claims well typed.
LEMMA DueType ==
    ASSUME TypeOK, NEW S \in SUBSET Source
    PROVE  /\ due \cup S \subseteq Source
           /\ Without(S) \cup ((due \ S) \X S) \cup {p \in S \X S : p[1] < p[2]}
                 \subseteq Source \X Source
           /\ Without(S) \subseteq Source \X Source
BY DEF TypeOK, Without

\* The invariant holds initially.
LEMMA InitInv == Init => Inv
<1> SUFFICES ASSUME Init PROVE Inv
    OBVIOUS
<1>1. TypeOK
  <2>1. source \in [Source -> Row \cup {None}] /\ served \in 0 .. MaxPerCycle
        BY DEF Init
  <2>2. {cut, wake, stop} \subseteq BOOLEAN
        BY DEF Init
  <2> QED BY <2>1, <2>2 DEF Init, TypeOK
<1>2. \A s \in Source : ~Exists(s)
      BY DEF Init, Exists
<1> QED BY <1>1, <1>2 DEF Init, Inv, RunInv, DueInv, RunningInv, SleepInv, Asked,
                          Enabled, InStatus

\* A request changes one row, not to running, makes it due and sets the event.
LEMMA RequestStep ==
    ASSUME Inv, NEW s \in Source,
           create_source(s) \/ update_source(s) \/ queue_source(s)
    PROVE  Inv'
<1>1. PICK row \in Row : /\ source' = [source EXCEPT ![s] = row]
                         /\ row.status = "running" => InStatus(s, "running")
  <2>1. CASE create_source(s)
    <3>1. PICK on \in BOOLEAN :
             source' = [source EXCEPT ![s] = [enabled |-> on, status |-> "never"]]
          BY <2>1 DEF create_source
    <3>2. [enabled |-> on, status |-> "never"] \in Row
          OBVIOUS
    <3> QED BY <3>1, <3>2
  <2>2. CASE update_source(s)
    <3>1. PICK on \in BOOLEAN : source' = [source EXCEPT ![s].enabled = on]
          BY <2>2 DEF update_source
    <3>2. source[s] \in Row /\ Exists(s)
          BY <2>2, RowFacts DEF update_source, Inv
    <3>3. [source[s] EXCEPT !.enabled = on] \in Row
          BY <3>2
    <3> QED BY <3>1, <3>2, <3>3 DEF InStatus, Inv, TypeOK
  <2>3. CASE queue_source(s)
    <3>1. source' = [source EXCEPT ![s].status = "queued"]
          BY <2>3 DEF queue_source
    <3>2. source[s] \in Row
          BY <2>3, RowFacts DEF queue_source, Inv, Enabled
    <3>3. [source[s] EXCEPT !.status = "queued"] \in Row
          BY <3>2
    <3> QED BY <3>1, <3>2, <3>3 DEF Inv, TypeOK
  <2> QED BY <2>1, <2>2, <2>3
<1>2. /\ BecomeDue({s}) /\ wake' = TRUE /\ pc # "stopped"
      /\ UNCHANGED <<pc, active, served, cut, stop, deleting, lost>>
      BY DEF create_source, update_source, queue_source, Handled, Answering
<1>3. TypeOK'
      BY <1>1, <1>2, DueType DEF Inv, TypeOK, BecomeDue
<1>4. \A t \in Source \ {s} : source'[t] = source[t]
      BY <1>1 DEF Inv, TypeOK
<1>5. DueInv'
      BY <1>2, <1>4 DEF Inv, DueInv, BecomeDue, Asked, Enabled, InStatus, Exists
<1>6. RunningInv'
      BY <1>1, <1>2, <1>4 DEF Inv, TypeOK, RunningInv, InStatus, Exists
<1> QED BY <1>2, <1>3, <1>5, <1>6 DEF Inv, RunInv, SleepInv

\* A delete, its check and its statement, keeps the invariant.
LEMMA DeleteStep ==
    ASSUME Inv, (\E s \in Source : CheckDelete(s)) \/ delete_source
    PROVE  Inv'
<1>1. CASE \E s \in Source : CheckDelete(s)
      BY <1>1 DEF CheckDelete, Inv, TypeOK, rows, RunInv, DueInv, RunningInv, SleepInv,
                  Asked, Enabled, InStatus, Exists
<1>2. CASE delete_source
  <2>1. deleting \in Source
        BY <1>2 DEF delete_source, Inv, TypeOK
  <2>2. TypeOK'
        BY <1>2, <2>1, DueType DEF delete_source, Inv, TypeOK, NoLongerDue
  <2>3. /\ \A t \in Source \ {deleting} : source'[t] = source[t]
        /\ source'[deleting] = None
        BY <1>2, <2>1 DEF delete_source, Inv, TypeOK
  <2>4. DueInv' /\ RunningInv' /\ SleepInv'
        BY <1>2, <2>3 DEF delete_source, Inv, DueInv, RunningInv, SleepInv,
                          NoLongerDue, Asked, Enabled, InStatus, Exists
  <2> QED BY <1>2, <2>2, <2>4 DEF delete_source, Inv, RunInv
<1> QED BY <1>1, <1>2

\* A check that comes due keeps the invariant.
LEMMA TimeStep ==
    ASSUME Inv, NEW s \in Source, TimePasses(s)
    PROVE  Inv'
<1>1. TypeOK'
      BY DueType DEF TimePasses, Inv, TypeOK, BecomeDue
<1> QED BY <1>1 DEF TimePasses, BecomeDue, Inv, RunInv, DueInv, RunningInv, SleepInv,
                    Asked, Enabled, InStatus, Exists

\* Steps of the task itself, and a shutdown, leave the rows alone.
LEMMA LoopStep ==
    ASSUME Inv, Loop \/ Shutdown \/ EndCycle \/ CycleFails \/ Crash
    PROVE  Inv'
<1> USE DEF Inv, TypeOK, rows, RunInv, DueInv, RunningInv, SleepInv
<1>1. CASE Loop
  <2>1. CASE BeginCycle
    <3>1. {cut', wake', stop'} \subseteq BOOLEAN
          BY <2>1 DEF BeginCycle
    <3> QED BY <2>1, <3>1 DEF BeginCycle, Asked, Enabled, InStatus, Exists
  <2>2. CASE LeaveLoop
        BY <2>2 DEF LeaveLoop, Asked, Enabled, InStatus, Exists
  <2>3. CASE AfterCycle
        BY <2>3 DEF AfterCycle, Asked, Enabled, InStatus, Exists
  <2>4. CASE Wakes
        BY <2>4 DEF Wakes, Asked, Enabled, InStatus, Exists
  <2> QED BY <1>1, <2>1, <2>2, <2>3, <2>4 DEF Loop
<1>2. CASE Shutdown
      BY <1>2 DEF Shutdown, Answering, Asked, Enabled, InStatus, Exists
<1>3. CASE EndCycle
  <2>1. CASE RoomInCycle /\ (\A s \in Source : ~Claimable(s))
    <3>1. \A s \in Source : ~Asked(s)
          BY <2>1, RowFacts DEF Claimable, Asked
    <3> QED BY <1>3, <3>1 DEF EndCycle, Asked, Enabled, InStatus, Exists
  <2>2. CASE ~RoomInCycle /\ cut' = TRUE
        BY <1>3, <2>2 DEF EndCycle, Asked, Enabled, InStatus, Exists
  <2> QED BY <1>3, <2>1, <2>2 DEF EndCycle
<1>4. CASE CycleFails
      BY <1>4 DEF CycleFails, Asked, Enabled, InStatus, Exists
<1>5. CASE Crash
      BY <1>5 DEF Crash, Asked, Enabled, InStatus, Exists
<1> QED BY <1>1, <1>2, <1>3, <1>4, <1>5

\* A claim keeps the invariant.
LEMMA ClaimStep ==
    ASSUME Inv, NEW s \in Source, _claim_source(s)
    PROVE  Inv'
<1>1. source[s] \in Row /\ [source[s] EXCEPT !.status = "running"] \in Row
      BY RowFacts DEF _claim_source, OldestFirst, Claimable, Enabled, Inv
<1>2. TypeOK'
      BY <1>1 DEF _claim_source, Inv, TypeOK
<1>3. /\ \A t \in Source \ {s} : source'[t] = source[t]
      /\ source'[s].status = "running"
      BY <1>1 DEF _claim_source, Inv, TypeOK
<1>4. DueInv'
      BY <1>3 DEF _claim_source, Inv, DueInv, Asked, Enabled, InStatus, Exists
<1>5. RunningInv'
      BY <1>3 DEF _claim_source, Inv, RunInv, RunningInv, InStatus, Exists
<1> QED BY <1>2, <1>4, <1>5 DEF _claim_source, Inv, RunInv, SleepInv

\* The end of a run keeps the invariant.
LEMMA FinishStep ==
    ASSUME Inv, _finish_source \/ FinishFails
    PROVE  Inv'
<1>1. CASE _finish_source
  <2>1. active \in Source /\ active # None
        BY <1>1 DEF _finish_source, Inv, RunInv, TypeOK
  <2>2. served' \in 0 .. MaxPerCycle
        BY <1>1 DEF _finish_source, Inv, TypeOK
  <2>3. CASE Exists(active)
    <3>1. PICK error \in BOOLEAN :
             source' = [source EXCEPT ![active].status = FinishedStatus(error)]
          BY <1>1, <2>3 DEF _finish_source
    <3>2. /\ source[active] \in Row
          /\ [source[active] EXCEPT !.status = FinishedStatus(error)] \in Row
          BY <2>1, <2>3, RowFacts DEF Inv, FinishedStatus
    <3>3. TypeOK'
          BY <1>1, <2>1, <2>2, <2>3, <3>1, <3>2, DueType
          DEF _finish_source, Inv, TypeOK, NoLongerDue
    <3>4. /\ \A t \in Source \ {active} : source'[t] = source[t]
          /\ source'[active].status \in {"error", "success"}
          BY <2>1, <3>1, <3>2 DEF Inv, TypeOK, FinishedStatus
    <3>5. DueInv' /\ RunningInv'
          BY <1>1, <2>1, <2>3, <3>4
          DEF _finish_source, NoLongerDue, Inv, DueInv, RunningInv, Asked, Enabled,
              InStatus, Exists
    <3> QED BY <1>1, <2>1, <3>3, <3>5 DEF _finish_source, Inv, RunInv, SleepInv
  <2>4. CASE ~Exists(active)
        BY <1>1, <2>1, <2>2, <2>4
        DEF _finish_source, rows, Inv, TypeOK, RunInv, DueInv, RunningInv, SleepInv,
            Asked, Enabled, InStatus, Exists
  <2> QED BY <2>3, <2>4
<1>2. CASE FinishFails
      BY <1>2 DEF FinishFails, rows, Inv, TypeOK, RunInv, DueInv, RunningInv, SleepInv,
                  Asked, Enabled, InStatus, Exists
<1> QED BY <1>1, <1>2

\* A start keeps the invariant.
LEMMA StartStep == ASSUME Inv, Start PROVE Inv'
<1>1. \A s \in Interrupted : [source[s] EXCEPT !.status = "error"] \in Row
      BY RowFacts DEF Interrupted, InStatus, Inv
<1>2. Interrupted \subseteq Source
      BY DEF Interrupted
<1>3. source' \in [Source -> Row \cup {None}]
      BY <1>1 DEF Start, Inv, TypeOK
<1>4. TypeOK'
      BY <1>2, <1>3, DueType DEF Start, Inv, TypeOK, BecomeDue
<1>5. \A s \in Source : ~InStatus(s, "running")'
      BY <1>1, RowFacts DEF Start, Interrupted, InStatus, Exists, Inv, TypeOK
<1>6. DueInv'
      BY <1>2 DEF Start, Inv, DueInv, BecomeDue, Asked, Enabled, InStatus, Exists
<1> QED BY <1>4, <1>5, <1>6 DEF Start, Inv, RunInv, RunningInv, SleepInv

-----------------------------------------------------------------------------

\* The invariant holds in every state.
THEOREM InvAlways == Spec => []Inv
<1>1. Inv /\ [Next]_vars => Inv'
  <2> SUFFICES ASSUME Inv, [Next]_vars PROVE Inv'
      OBVIOUS
  <2>1. CASE Handler
        BY <2>1, RequestStep, DeleteStep, LoopStep DEF Handler
  <2>2. CASE delete_source
        BY <2>2, DeleteStep
  <2>3. CASE \E s \in Source : TimePasses(s)
        BY <2>3, TimeStep
  <2>4. CASE Loop
        BY <2>4, LoopStep
  <2>5. CASE Thread
        BY <2>5, ClaimStep, LoopStep, FinishStep DEF Thread
  <2>6. CASE Start
        BY <2>6, StartStep
  <2>7. CASE Fault
        BY <2>7, LoopStep, FinishStep DEF Fault
  <2>8. CASE UNCHANGED vars
        BY <2>8 DEF vars, rows, Inv, TypeOK, RunInv, DueInv, RunningInv, SleepInv,
                    Asked, Enabled, InStatus, Exists
  <2> QED BY <2>1, <2>2, <2>3, <2>4, <2>5, <2>6, <2>7, <2>8 DEF Next
<1> QED BY InitInv, <1>1, PTL DEF Spec

\* Variables keep their types.
THEOREM TypeCorrect == Spec => []TypeOK
<1>1. Inv => TypeOK
      BY DEF Inv
<1> QED BY InvAlways, <1>1, PTL

\* The task never sleeps on a request: clearing the event before the cycle, not
\* after it, is what makes it so (source_sync.py:978-990).
THEOREM NeverLostWake == Spec => []NoLostWake
<1>1. Inv => NoLostWake
      BY DEF Inv, SleepInv, NoLostWake
<1> QED BY InvAlways, <1>1, PTL

\* A shutdown leaves no source running (source_sync.py:969-973).
THEOREM StopAlwaysClean == Spec => []CleanStop
<1>1. Inv => CleanStop
      BY DEF Inv, RunInv, RunningInv, CleanStop
<1> QED BY InvAlways, <1>1, PTL
-----------------------------------------------------------------------------
(* The contract on the rows, module SourceTable.                               *)

\* A delete that has read its row ends, or dies, before the task does.
DeleteInv == deleting # None => pc # "stopped"

\* Nobody stops while a handler is between its two statements.
LEMMA DeleteInvStep ==
    ASSUME DeleteInv, [Next]_vars
    PROVE  DeleteInv'
BY DEF DeleteInv, Next, Handler, Loop, Thread, Fault, Handled, Answering, OnLoop,
       create_source, update_source, queue_source, CheckDelete, Shutdown, delete_source,
       TimePasses, BeginCycle, LeaveLoop, AfterCycle, Wakes, _claim_source, EndCycle,
       _finish_source, CycleFails, FinishFails, Crash, Start, vars

\* The contract's step that a step of the scheduler is seen as.
TableStep == [Table!Next]_(Table!vars)

\* A change of one row changes one entry of each column.
LEMMA RowColumns ==
    ASSUME TypeOK, NEW s \in Source, \A t \in Source \ {s} : source'[t] = source[t]
    PROVE  /\ StatusOf' = [StatusOf EXCEPT ![s] = IF Exists(s)' THEN source'[s].status ELSE "none"]
           /\ EnabledOnes' = IF Enabled(s)' THEN EnabledOnes \cup {s} ELSE EnabledOnes \ {s}
           /\ StatusOf[s] = IF Exists(s) THEN source[s].status ELSE "none"
           /\ Exists(s) => StatusOf[s] # "none"
<1>1. \A t \in Source \ {s} : (Exists(t)' <=> Exists(t)) /\ (Enabled(t)' <=> Enabled(t))
      BY DEF Exists, Enabled
<1>2. StatusOf' = [StatusOf EXCEPT ![s] = IF Exists(s)' THEN source'[s].status ELSE "none"]
      BY <1>1 DEF StatusOf
<1>3. EnabledOnes' = IF Enabled(s)' THEN EnabledOnes \cup {s} ELSE EnabledOnes \ {s}
      BY <1>1 DEF EnabledOnes
<1> QED BY <1>2, <1>3, RowFacts DEF StatusOf

\* Where the rows stay, so do their columns.
LEMMA SameColumns ==
    ASSUME UNCHANGED rows
    PROVE  StatusOf' = StatusOf /\ EnabledOnes' = EnabledOnes /\ DueOnes' = DueOnes
BY DEF rows, StatusOf, EnabledOnes, DueOnes, Exists, Enabled

\* A step that leaves rows, claims and the mode alone is none of the contract's.
LEMMA TableStutter ==
    ASSUME UNCHANGED <<rows, active, lost>>, Mode' = Mode
    PROVE  TableStep
BY SameColumns DEF TableStep, Table!vars, Claimed

\* The handlers of a request create, edit or queue a source.
LEMMA RequestEnters ==
    ASSUME Inv, NEW s \in Source,
           create_source(s) \/ update_source(s) \/ queue_source(s)
    PROVE  TableStep
<1>1. /\ BecomeDue({s}) /\ UNCHANGED <<pc, active, stop, lost>> /\ pc # "stopped"
      BY DEF create_source, update_source, queue_source, Handled, Answering
<1>2. Mode = "up" /\ Mode' = Mode /\ Claimed' = Claimed
      BY <1>1 DEF Mode, Claimed
<1> DEFINE Entered(on, st) ==
      source'[s] = [enabled |-> on, status |-> st] /\ \A t \in Source \ {s} : source'[t] = source[t]
<1>3. ASSUME NEW on \in BOOLEAN, NEW st \in Status, Entered(on, st)
      PROVE  Table!Enter(s, on, st)
  <2>1. Exists(s)' /\ (Enabled(s)' <=> on) /\ source'[s].status = st
        BY <1>3 DEF Exists, Enabled
  <2>2. DueOnes' = DueOnes \cup {s}
        BY <1>1, <1>3, <2>1 DEF DueOnes, BecomeDue, Inv, TypeOK, Exists
  <2> QED BY <1>1, <1>2, <1>3, <2>1, <2>2, RowColumns DEF Inv, Table!Enter
<1>4. CASE create_source(s)
  <2>1. PICK on \in BOOLEAN : Entered(on, "never")
        BY <1>4 DEF create_source, Inv, TypeOK
  <2>2. StatusOf[s] = "none"
        BY <1>4 DEF create_source, StatusOf, Source
  <2>3. Table!Create(s, on)
        BY <1>3, <2>1, <2>2 DEF Table!Create
  <2> QED BY <2>3 DEF TableStep, Table!Next, Table!Source, Source
<1>5. CASE update_source(s)
  <2>1. source[s] \in Row /\ Exists(s)
        BY <1>5, RowFacts DEF update_source, Inv
  <2>2. PICK on \in BOOLEAN : Entered(on, source[s].status)
        BY <1>5, <2>1 DEF update_source, Inv, TypeOK
  <2>3. StatusOf[s] = source[s].status /\ StatusOf[s] # "none"
        BY <2>1 DEF StatusOf
  <2>4. Table!Edit(s, on)
        BY <1>3, <2>1, <2>2, <2>3 DEF Table!Edit
  <2> QED BY <2>4 DEF TableStep, Table!Next, Table!Source, Source
<1>6. CASE queue_source(s)
  <2>1. source[s] \in Row /\ Enabled(s) /\ source[s].status # "running"
        BY <1>6, RowFacts DEF queue_source, Inv, Enabled, InStatus
  <2>2. Entered(TRUE, "queued")
        BY <1>6, <2>1 DEF queue_source, Inv, TypeOK, Enabled
  <2>3. s \in EnabledOnes /\ StatusOf[s] # "running"
        BY <2>1 DEF EnabledOnes, StatusOf
  <2>4. Table!Queue(s)
        BY <1>3, <2>2, <2>3 DEF Table!Queue
  <2> QED BY <2>4 DEF TableStep, Table!Next, Table!Source, Source
<1> QED BY <1>4, <1>5, <1>6

\* The delete handler's statement deletes.
LEMMA DeleteDeletes ==
    ASSUME Inv, DeleteInv, delete_source
    PROVE  TableStep
<1>1. PICK s \in Source : s = deleting /\ pc # "stopped"
      BY DEF delete_source, Inv, TypeOK, DeleteInv
<1>2. /\ source'[s] = None
      /\ \A t \in Source \ {s} : source'[t] = source[t]
      BY <1>1 DEF delete_source, Inv, TypeOK
<1>3. ~Exists(s)' /\ ~Enabled(s)'
      BY <1>2 DEF Exists, Enabled
<1>4. DueOnes' = DueOnes \ {s}
      BY <1>1, <1>2, <1>3 DEF delete_source, NoLongerDue, DueOnes, Exists, Inv, TypeOK
<1>5. Mode = "up" /\ Mode' = Mode /\ Claimed' = Claimed
      BY <1>1 DEF delete_source, Mode, Claimed
<1>6. Table!Delete(s)
      BY <1>1, <1>2, <1>3, <1>4, <1>5, RowColumns DEF delete_source, Inv, Table!Delete
<1> QED BY <1>1, <1>6 DEF TableStep, Table!Next, Table!Source, Source

\* The clock makes a source due.
LEMMA TimeComes ==
    ASSUME Inv, NEW s \in Source, TimePasses(s)
    PROVE  TableStep
<1>1. StatusOf' = StatusOf /\ EnabledOnes' = EnabledOnes
      BY DEF TimePasses, StatusOf, EnabledOnes, Exists, Enabled
<1>2. DueOnes' = DueOnes \cup {s}
      BY DEF TimePasses, BecomeDue, DueOnes, Exists
<1>3. StatusOf[s] # "none"
      BY RowFacts DEF TimePasses, StatusOf, Inv
<1>4. Table!ComeDue(s)
      BY <1>1, <1>2, <1>3 DEF TimePasses, Table!ComeDue, Claimed, Mode
<1> QED BY <1>4 DEF TableStep, Table!Next, Table!Source, Source

\* A claim takes a source that the contract lets it take.
LEMMA ClaimClaims ==
    ASSUME Inv, NEW s \in Source, _claim_source(s)
    PROVE  TableStep
<1>1. /\ source[s] \in Row /\ Enabled(s) /\ source[s].status # "running" /\ s \in due
      /\ active = None
      BY RowFacts DEF _claim_source, OldestFirst, Claimable, Enabled, InStatus, Inv, RunInv
<1>2. /\ source'[s] = [source[s] EXCEPT !.status = "running"]
      /\ \A t \in Source \ {s} : source'[t] = source[t]
      BY DEF _claim_source, Inv, TypeOK
<1>3. Exists(s)' /\ Enabled(s)' /\ source'[s].status = "running" /\ Exists(s)
      BY <1>1, <1>2 DEF Exists, Enabled
<1>4. DueOnes' = DueOnes
      BY <1>2, <1>3 DEF _claim_source, DueOnes, Exists, Inv, TypeOK
<1>5. s \in EnabledOnes \cap DueOnes
      BY <1>1, <1>3 DEF EnabledOnes, DueOnes
<1>6. EnabledOnes' = EnabledOnes
      BY <1>1, <1>2, <1>3 DEF EnabledOnes, Enabled, Exists
<1>7. Mode = "up" /\ Mode' = "up" /\ Claimed = {} /\ Claimed' = {s}
      BY <1>1 DEF _claim_source, Mode, Claimed
<1>8. Table!Claim(s)
      BY <1>1, <1>2, <1>3, <1>4, <1>5, <1>6, <1>7, RowColumns
      DEF Inv, _claim_source, Table!Claim
<1> QED BY <1>8 DEF TableStep, Table!Next, Table!Source, Source

\* The thread's run ends, in the row or without it.
LEMMA FinishFinishes ==
    ASSUME Inv, _finish_source \/ FinishFails
    PROVE  TableStep
<1>1. PICK s \in Source : active = s /\ pc = "run" /\ Claimed = {s} /\ Claimed' = {}
      BY DEF _finish_source, FinishFails, Inv, RunInv, TypeOK, Claimed
<1>2. Mode = "up" /\ Mode' = "up"
      BY <1>1 DEF _finish_source, FinishFails, Mode
<1>3. CASE FinishFails
  <2>1. StatusOf[s] = "running" <=> InStatus(s, "running")
        BY <1>1, RowFacts DEF StatusOf, InStatus, Inv
  <2>2. lost' = IF StatusOf[s] = "running" THEN lost \cup {s} ELSE lost
        BY <1>1, <1>3, <2>1 DEF FinishFails
  <2>3. Table!Refuse(s)
        BY <1>1, <1>2, <1>3, <2>2, SameColumns DEF FinishFails, Table!Refuse
  <2> QED BY <1>1, <2>3 DEF TableStep, Table!Next, Table!Source, Source
<1>4. CASE _finish_source /\ ~Exists(s)
  <2>1. StatusOf[s] = "none" /\ s \notin DueOnes
        BY <1>1, <1>4 DEF StatusOf, DueOnes
  <2>2. Table!Finish(s, "error")
        BY <1>1, <1>2, <1>4, <2>1, SameColumns DEF _finish_source, Table!Finish
  <2> QED BY <1>1, <2>2 DEF TableStep, Table!Next, Table!Source, Source
<1>5. CASE _finish_source /\ Exists(s)
  <2>1. PICK error \in BOOLEAN :
           source' = [source EXCEPT ![s].status = FinishedStatus(error)]
        BY <1>1, <1>5 DEF _finish_source
  <2> DEFINE st == FinishedStatus(error)
  <2>2. source[s] \in Row /\ st \in {"success", "error"}
        BY <1>1, <1>5, RowFacts DEF Inv, FinishedStatus
  <2>3. /\ source'[s] = [source[s] EXCEPT !.status = st]
        /\ \A t \in Source \ {s} : source'[t] = source[t]
        BY <1>1, <2>1 DEF Inv, TypeOK
  <2>4. /\ Exists(s)' /\ (Enabled(s)' <=> Enabled(s))
        /\ source'[s].status = st
        BY <1>5, <2>2, <2>3 DEF Exists, Enabled
  <2>5. DueOnes' = DueOnes \ {s}
        BY <1>1, <1>5, <2>3 DEF _finish_source, NoLongerDue, DueOnes, Exists, Inv, TypeOK
  <2>6. EnabledOnes' = EnabledOnes
        BY <2>3, <2>4 DEF EnabledOnes, Enabled, Exists
  <2>7. Table!Finish(s, st)
        BY <1>1, <1>2, <1>5, <2>3, <2>4, <2>5, <2>6, RowColumns
        DEF Inv, _finish_source, Table!Finish
  <2> QED BY <1>1, <2>2, <2>7 DEF TableStep, Table!Next, Table!Source, Source
<1> QED BY <1>3, <1>4, <1>5

\* The loop's own steps leave the contract alone, but for a stop.
LEMMA LoopStops ==
    ASSUME Inv, Loop \/ Shutdown \/ EndCycle \/ CycleFails
    PROVE  TableStep
<1>1. UNCHANGED <<rows, active, lost>>
      BY DEF Loop, BeginCycle, LeaveLoop, AfterCycle, Wakes, Shutdown, EndCycle, CycleFails
<1>2. CASE Mode' = Mode
      BY <1>1, <1>2, TableStutter
<1>3. CASE Mode' # Mode
  <2>1. /\ (LeaveLoop \/ AfterCycle) /\ stop /\ stop' /\ pc' = "stopped"
        /\ pc \in {"top", "check"}
        BY <1>3 DEF Loop, BeginCycle, LeaveLoop, AfterCycle, Wakes, Shutdown, EndCycle,
                    CycleFails, Answering, Mode
  <2>2. Claimed = {} /\ Claimed' = Claimed /\ Mode = "up" /\ Mode' = "stopped"
        BY <1>1, <2>1 DEF Claimed, Mode, Inv, RunInv
  <2>3. Table!Stop
        BY <1>1, <2>2, SameColumns DEF Table!Stop
  <2> QED BY <2>3 DEF TableStep, Table!Next
<1> QED BY <1>2, <1>3

\* A crash takes the thread with it.
LEMMA CrashDies == ASSUME Crash PROVE TableStep
<1>1. Table!Die
      BY SameColumns DEF Crash, Table!Die, Mode, Claimed
<1> QED BY <1>1 DEF TableStep, Table!Next

\* A start recovers.
LEMMA StartRecovers == ASSUME Inv, Start PROVE TableStep
<1>1. active = None /\ active' = active /\ Mode # "up" /\ Mode' = "up"
      BY DEF Start, Inv, RunInv, Mode
<1>2. Interrupted = Table!Running
  <2>1. \A s \in Source : StatusOf[s] = "running" <=> InStatus(s, "running")
        BY RowFacts DEF StatusOf, InStatus, Inv
  <2> QED BY <2>1 DEF Interrupted, Table!Running, Table!Source, Source
<1>3. \A s \in Source :
         /\ Exists(s)' <=> Exists(s)
         /\ Enabled(s)' <=> Enabled(s)
         /\ Exists(s) => source'[s].status = IF s \in Interrupted THEN "error" ELSE source[s].status
  <2> SUFFICES ASSUME NEW s \in Source
               PROVE  /\ Exists(s)' <=> Exists(s)
                      /\ Enabled(s)' <=> Enabled(s)
                      /\ Exists(s) => source'[s].status =
                            IF s \in Interrupted THEN "error" ELSE source[s].status
      OBVIOUS
  <2>1. CASE s \in Interrupted
    <3>1. source[s] \in Row /\ source'[s] = [source[s] EXCEPT !.status = "error"]
          BY <2>1, RowFacts DEF Start, Interrupted, InStatus, Inv
    <3>2. source'[s] \in Row /\ Exists(s) /\ source'[s].enabled = source[s].enabled
          BY <2>1, <3>1 DEF Interrupted, InStatus
    <3> QED BY <2>1, <3>1, <3>2 DEF Exists, Enabled
  <2>2. CASE s \notin Interrupted
        BY <2>2 DEF Start, Exists, Enabled
  <2> QED BY <2>1, <2>2
<1>4. StatusOf' = [s \in Source |-> IF s \in Interrupted THEN "error" ELSE StatusOf[s]]
      BY <1>3 DEF StatusOf, Interrupted, InStatus
<1>5. EnabledOnes' = EnabledOnes
      BY <1>3 DEF EnabledOnes
<1>6. DueOnes' = DueOnes \cup Interrupted
  <2>1. due' = due \cup Interrupted
        BY DEF Start, BecomeDue
  <2>2. \A s \in Interrupted : s \in Source /\ Exists(s)
        BY DEF Interrupted, InStatus
  <2> QED BY <1>3, <2>1, <2>2 DEF DueOnes, Inv, TypeOK
<1>7. Table!Recover
      BY <1>1, <1>2, <1>4, <1>5, <1>6 DEF Start, Table!Recover, Table!Source, Source, Claimed
<1> QED BY <1>7 DEF TableStep, Table!Next

\* The scheduler keeps to the contract on the rows (source_sync.py:165-262, 948-990;
\* routes/admin.py:535-798), for any number of sources and any bound on a cycle.
THEOREM TableImplemented == Spec => ImplementsTable
<1>1. Init => Table!Init /\ DeleteInv
      BY DEF Init, Table!Init, Table!Source, Source, StatusOf, EnabledOnes, DueOnes, Claimed,
             Mode, Exists, Enabled, DeleteInv
<1>2. DeleteInv /\ [Next]_vars => DeleteInv'
      BY DeleteInvStep
<1>3. Inv /\ DeleteInv /\ [Next]_vars => [Table!Next]_(Table!vars)
  <2> SUFFICES ASSUME Inv, DeleteInv, [Next]_vars PROVE TableStep
      BY DEF TableStep
  <2>1. CASE Handler
    <3>1. ASSUME NEW s \in Source, CheckDelete(s) PROVE TableStep
          BY <3>1, TableStutter DEF CheckDelete, Mode
    <3> QED BY <2>1, <3>1, RequestEnters, LoopStops DEF Handler
  <2>2. CASE delete_source
        BY <2>2, DeleteDeletes
  <2>3. CASE \E s \in Source : TimePasses(s)
        BY <2>3, TimeComes
  <2>4. CASE Loop
        BY <2>4, LoopStops
  <2>5. CASE Thread
        BY <2>5, ClaimClaims, LoopStops, FinishFinishes DEF Thread
  <2>6. CASE Start
        BY <2>6, StartRecovers
  <2>7. CASE Fault
        BY <2>7, LoopStops, FinishFinishes, CrashDies DEF Fault
  <2>8. CASE UNCHANGED vars
        BY <2>8, TableStutter DEF vars, Mode
  <2> QED BY <2>1, <2>2, <2>3, <2>4, <2>5, <2>6, <2>7, <2>8 DEF Next
<1> QED BY InvAlways, <1>1, <1>2, <1>3, PTL DEF Spec, ImplementsTable, Table!Spec
=============================================================================
