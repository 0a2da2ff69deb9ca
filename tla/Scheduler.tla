------------------------------ MODULE Scheduler ------------------------------
(* The scheduler of package sources: one task on the event loop that clears    *)
(* its wake-up event, has a worker thread serve the sources that are due,      *)
(* oldest first and a bounded number per cycle, and then waits for the event   *)
(* or the poll interval; the handlers that make a source due and set the       *)
(* event; shutdown and restart.  What happens inside one run is SourceSync.    *)
(*                                                                             *)
(* A handler never awaits between its statement and wake(), so that the two    *)
(* are one step of the event loop.  Timestamps are taken to be distinct.       *)
EXTENDS Naturals

CONSTANTS
    MaxSource,      \* bound on source ids
    MaxPerCycle,    \* max_sources of run_due_sources
    None            \* no row, no source

ASSUME BoundAssumption == MaxSource \in Nat /\ MaxPerCycle \in Nat \ {0}

VARIABLES
    source,      \* table package_sources, by id
    due,         \* sources whose next_check_at has come
    earlier,     \* <<s, t>>: both are due, s for longer than t
    pc,          \* where the task stands
    active,      \* the source that the worker thread has claimed
    served,      \* sources served in this cycle
    cut,         \* the cycle ended before it found nothing to do (history)
    wake, stop,  \* the task's two events
    deleting,    \* the source whose delete handler has read the row
    lost         \* sources left running: the database refused their end

rows == <<source, due, earlier>>
vars == <<rows, pc, active, served, cut, wake, stop, deleting, lost>>

Source == 1 .. MaxSource
Status == {"never", "queued", "running", "success", "error"}
Row == [enabled : BOOLEAN, status : Status]

ASSUME NoneAssumption == None \notin Row /\ None \notin Source

Exists(s) == source[s] # None
InStatus(s, status) == Exists(s) /\ source[s].status = status
Enabled(s) == Exists(s) /\ source[s].enabled

Init ==
    /\ source = [s \in Source |-> None]
    /\ due = {}
    /\ earlier = {}
    /\ pc = "stopped"
    /\ active = None
    /\ served = 0
    /\ cut = FALSE
    /\ wake = FALSE
    /\ stop = FALSE
    /\ deleting = None
    /\ lost = {}

Without(S) == {p \in earlier : p[1] \notin S /\ p[2] \notin S}

\* next_check_at = now, for all of S in one statement: the id breaks the tie.
BecomeDue(S) ==
    /\ due' = due \cup S
    /\ earlier' = Without(S) \cup ((due \ S) \X S) \cup {p \in S \X S : p[1] < p[2]}

\* next_check_at in the future, or the row is gone.
NoLongerDue(s) ==
    /\ due' = due \ {s}
    /\ earlier' = Without({s})

-----------------------------------------------------------------------------
(* Handlers.  The server answers no requests once it shuts down, and none      *)
(* while a handler runs.                                                       *)

Answering == pc # "stopped" /\ ~stop /\ deleting = None

Handled == UNCHANGED <<pc, active, served, cut, stop, deleting, lost>>

create_source(s) ==
    /\ Answering
    /\ \A t \in Source : (Exists(t) => t < s) /\ (t = s - 1 => Exists(t))
    /\ \E on \in BOOLEAN :
          source' = [source EXCEPT ![s] = [enabled |-> on, status |-> "never"]]
    /\ BecomeDue({s})
    /\ wake' = TRUE
    /\ Handled

update_source(s) ==
    /\ Answering
    /\ Exists(s)
    /\ \E on \in BOOLEAN : source' = [source EXCEPT ![s].enabled = on]
    /\ BecomeDue({s})
    /\ wake' = TRUE
    /\ Handled

\* Queueing again moves the source behind those that became due since.
queue_source(s) ==
    /\ Answering
    /\ Enabled(s)
    /\ ~InStatus(s, "running")
    /\ source' = [source EXCEPT ![s].status = "queued"]
    /\ BecomeDue({s})
    /\ wake' = TRUE
    /\ Handled

CheckDelete(s) ==
    /\ Answering
    /\ Exists(s)
    /\ ~InStatus(s, "running")
    /\ deleting' = s
    /\ UNCHANGED <<rows, pc, active, served, cut, wake, stop, lost>>

\* The worker thread may have claimed the source in between.
delete_source ==
    /\ deleting # None
    /\ source' = [source EXCEPT ![deleting] = None]
    /\ NoLongerDue(deleting)
    /\ deleting' = None
    /\ lost' = lost \ {deleting}
    /\ UNCHANGED <<pc, active, served, cut, wake, stop>>

TimePasses(s) ==
    /\ Exists(s)
    /\ s \notin due
    /\ BecomeDue({s})
    /\ UNCHANGED <<source, pc, active, served, cut, wake, stop, deleting, lost>>

-----------------------------------------------------------------------------
(* The task: pc is "top" before the loop's condition, "cycle" and "run" while  *)
(* the worker thread is between two sources and at one, "check" when the       *)
(* thread has returned, "wait" in wait_for.                                    *)

OnLoop == deleting = None

BeginCycle ==
    /\ pc = "top" /\ OnLoop
    /\ ~stop
    /\ pc' = "cycle"
    /\ wake' = FALSE
    /\ served' = 0
    /\ cut' = FALSE
    /\ UNCHANGED <<rows, active, stop, deleting, lost>>

LeaveLoop ==
    /\ pc = "top" /\ OnLoop
    /\ stop
    /\ pc' = "stopped"
    /\ UNCHANGED <<rows, active, served, cut, wake, stop, deleting, lost>>

\* Fault: a disabled source is served as well.
ClaimableDisabled(s) == Exists(s) /\ ~InStatus(s, "running") /\ s \in due

Claimable(s) == Enabled(s) /\ ~InStatus(s, "running") /\ s \in due

\* Fault: by id.
LowestFirst(s) == Claimable(s) /\ \A t \in Source : Claimable(t) => s <= t

OldestFirst(s) == Claimable(s) /\ \A t \in Source : Claimable(t) => <<t, s>> \notin earlier

\* Fault: the cycle goes on as long as something is due.
Unbounded == TRUE

RoomInCycle == served < MaxPerCycle

_claim_source(s) ==
    /\ pc = "cycle"
    /\ RoomInCycle
    /\ OldestFirst(s)
    /\ source' = [source EXCEPT ![s].status = "running"]
    /\ pc' = "run"
    /\ active' = s
    /\ UNCHANGED <<due, earlier, served, cut, wake, stop, deleting, lost>>

\* The thread returns.  A cycle that served nothing retries a pending publish.
EndCycle ==
    /\ pc = "cycle"
    /\ \/ ~RoomInCycle /\ cut' = TRUE
       \/ RoomInCycle /\ (\A s \in Source : ~Claimable(s)) /\ UNCHANGED cut
    /\ pc' = "check"
    /\ UNCHANGED <<rows, active, served, wake, stop, deleting, lost>>

\* A statement or the retried publish raises: the rest of the cycle is left out.
CycleFails ==
    /\ pc = "cycle"
    /\ cut' = TRUE
    /\ pc' = "check"
    /\ UNCHANGED <<rows, active, served, wake, stop, deleting, lost>>

FinishedStatus(error) == IF error THEN "error" ELSE "success"

_finish_source ==
    /\ pc = "run"
    /\ IF Exists(active)
       THEN /\ \E error \in BOOLEAN :
                  source' = [source EXCEPT ![active].status = FinishedStatus(error)]
            /\ NoLongerDue(active)
       ELSE UNCHANGED rows
    /\ pc' = "cycle"
    /\ active' = None
    /\ served' = IF served < MaxPerCycle THEN served + 1 ELSE served
    /\ UNCHANGED <<cut, wake, stop, deleting, lost>>

\* The UPDATE is refused: the cycle ends and the source stays running.
FinishFails ==
    /\ pc = "run"
    /\ lost' = lost \cup {s \in {active} : InStatus(s, "running")}
    /\ cut' = TRUE
    /\ pc' = "check"
    /\ active' = None
    /\ UNCHANGED <<rows, served, wake, stop, deleting>>

\* Fault: the event is cleared where the loop begins to wait.
ClearAfterCycle ==
    /\ pc = "check" /\ OnLoop
    /\ pc' = IF stop THEN "stopped" ELSE "wait"
    /\ wake' = FALSE
    /\ UNCHANGED <<rows, active, served, cut, stop, deleting, lost>>

AfterCycle ==
    /\ pc = "check" /\ OnLoop
    /\ pc' = IF stop THEN "stopped" ELSE "wait"
    /\ UNCHANGED <<rows, active, served, cut, wake, stop, deleting, lost>>

\* The event is set, or the poll interval is over.
Wakes ==
    /\ pc = "wait" /\ OnLoop
    /\ pc' = "top"
    /\ UNCHANGED <<rows, active, served, cut, wake, stop, deleting, lost>>
-----------------------------------------------------------------------------
(* Shutdown, crash, start.                                                     *)

\* Fault: the worker thread is not waited for.
ShutdownAtOnce ==
    /\ Answering
    /\ stop' = TRUE
    /\ pc' = "stopped"
    /\ active' = None
    /\ UNCHANGED <<rows, served, cut, wake, deleting, lost>>

\* The end of the lifespan sets both events and awaits the task.
Shutdown ==
    /\ Answering
    /\ stop' = TRUE
    /\ wake' = TRUE
    /\ UNCHANGED <<rows, pc, active, served, cut, deleting, lost>>

Crash ==
    /\ pc # "stopped"
    /\ pc' = "stopped"
    /\ active' = None
    /\ stop' = FALSE
    /\ wake' = FALSE
    /\ deleting' = None
    /\ UNCHANGED <<rows, served, cut, lost>>

Interrupted == {s \in Source : InStatus(s, "running")}

\* recover_interrupted_source_runs, then the task.
Start ==
    /\ pc = "stopped"
    /\ pc' = "top"
    /\ stop' = FALSE
    /\ wake' = FALSE
    /\ lost' = {}
    /\ source' = [s \in Source |->
                     IF s \in Interrupted THEN [source[s] EXCEPT !.status = "error"]
                     ELSE source[s]]
    /\ BecomeDue(Interrupted)
    /\ UNCHANGED <<active, served, cut, deleting>>

-----------------------------------------------------------------------------

Handler ==
    \/ \E s \in Source : create_source(s) \/ update_source(s) \/ queue_source(s)
                         \/ CheckDelete(s)
    \/ Shutdown

Loop == BeginCycle \/ LeaveLoop \/ AfterCycle \/ Wakes

Thread == (\E s \in Source : _claim_source(s)) \/ EndCycle \/ _finish_source

Fault == CycleFails \/ FinishFails \/ Crash

Next ==
    \/ Handler
    \/ delete_source
    \/ \E s \in Source : TimePasses(s)
    \/ Loop \/ Thread
    \/ Start
    \/ Fault

Spec == Init /\ [][Next]_vars

-----------------------------------------------------------------------------
(* Correctness.                                                                *)

TypeOK ==
    /\ source \in [Source -> Row \cup {None}]
    /\ due \subseteq Source
    /\ earlier \subseteq Source \X Source
    /\ pc \in {"stopped", "top", "cycle", "run", "check", "wait"}
    /\ active \in Source \cup {None}
    /\ served \in 0 .. MaxPerCycle
    /\ {cut, wake, stop} \subseteq BOOLEAN
    /\ deleting \in Source \cup {None}
    /\ lost \subseteq Source

\* A source that an administrator queued or created, and that is to be checked.
Asked(s) == Enabled(s) /\ (InStatus(s, "queued") \/ InStatus(s, "never"))

\* The task does not sleep on a request: while it waits with its event unset,
\* nothing that was asked for is left, unless the last cycle was cut short.
NoLostWake == pc = "wait" /\ ~wake /\ ~cut => \A s \in Source : ~Asked(s)

\* DESIGN, lifespan: shutdown waits for the synchronisation under way, so that
\* no source is left running by a stop, whatever was queued or deleted meanwhile.
CleanStop == pc = "stopped" /\ stop => \A s \in Source \ lost : ~InStatus(s, "running")

\* The columns of the rows, and the thread, that the contract speaks of.
StatusOf == [s \in Source |-> IF Exists(s) THEN source[s].status ELSE "none"]
EnabledOnes == {s \in Source : Enabled(s)}
DueOnes == {s \in due : Exists(s)}
Claimed == IF active = None THEN {} ELSE {active}
Mode == IF pc # "stopped" THEN "up" ELSE IF stop THEN "stopped" ELSE "dead"

\* However handlers, the thread, shutdowns and crashes interleave, the scheduler's
\* rows obey the contract that SourceSync obeys in detail: it serves one source at a
\* time, none that is disabled or not due, and a stop leaves none half served.
Table == INSTANCE SourceTable WITH
    status <- StatusOf, enabled <- EnabledOnes, due <- DueOnes, claimed <- Claimed,
    refused <- lost, mode <- Mode

ImplementsTable == Table!Spec

-----------------------------------------------------------------------------
(* Liveness.  A handler ends, the event loop comes to the task among any number *)
(* of handlers (its ready queue is first in, first out), the worker thread     *)
(* runs, waiting ends with the poll interval, a stopped service is started.    *)
(* Nothing is assumed of the administrators and of the time between checks.    *)

Fairness == WF_vars(delete_source) /\ SF_vars(Loop) /\ WF_vars(Thread) /\ WF_vars(Start)

FairSpec == Spec /\ Fairness /\ <>[][Fault => Thread]_vars

\* A queued source is served, however many others keep coming due, unless it is
\* edited or queued anew, or the service is stopped, again and again.
QueuedServed ==
    \A s \in Source :
        \/ []<>~(Enabled(s) /\ InStatus(s, "queued"))
        \/ []<><<update_source(s) \/ queue_source(s) \/ Shutdown>>_vars

\* A shutdown ends, although the thread serves on: a cycle is bounded.
ShutdownEnds == stop ~> pc = "stopped"
=============================================================================
