---------------------------- MODULE SourceTable ----------------------------
(* The contract that package sources and their scheduler share: what the rows  *)
(* of package_sources say of the one thread that synchronises, and who may     *)
(* change it.  Neither what a run does (SourceSync) nor when the thread looks  *)
(* for work and in which order it takes it (Scheduler) is told.                *)
EXTENDS Naturals

CONSTANT MaxSource      \* bound on source ids

VARIABLES
    status,     \* status of each source, "none" if there is no such source
    enabled,    \* the enabled sources
    due,        \* those whose next check has come
    claimed,    \* the source the thread works on, at most one
    refused,    \* left running: the database refused the end of their run
    mode        \* "up", "stopped" in order, or "dead": not started, or crashed

vars == <<status, enabled, due, claimed, refused, mode>>

Source == 1 .. MaxSource

Init ==
    /\ status = [s \in Source |-> "none"]
    /\ enabled = {}
    /\ due = {}
    /\ claimed = {}
    /\ refused = {}
    /\ mode = "dead"

\* A source that is created or edited is due at once.
Enter(s, on, st) ==
    /\ mode = "up"
    /\ status' = [status EXCEPT ![s] = st]
    /\ enabled' = IF on THEN enabled \cup {s} ELSE enabled \ {s}
    /\ due' = due \cup {s}
    /\ UNCHANGED <<claimed, refused, mode>>

Create(s, on) == status[s] = "none" /\ Enter(s, on, "never")

Edit(s, on) == status[s] # "none" /\ Enter(s, on, status[s])

Queue(s) ==
    /\ s \in enabled
    /\ status[s] # "running"
    /\ Enter(s, TRUE, "queued")

\* Under the thread's hands, if it claimed the source since the last look.
Delete(s) ==
    /\ mode = "up"
    /\ status' = [status EXCEPT ![s] = "none"]
    /\ enabled' = enabled \ {s}
    /\ due' = due \ {s}
    /\ refused' = refused \ {s}
    /\ UNCHANGED <<claimed, mode>>

ComeDue(s) ==
    /\ status[s] # "none"
    /\ due' = due \cup {s}
    /\ UNCHANGED <<status, enabled, claimed, refused, mode>>

\* One source at a time, and none that is disabled, not due or running already.
Claim(s) ==
    /\ mode = "up"
    /\ claimed = {}
    /\ s \in enabled \cap due
    /\ status[s] # "running"
    /\ status' = [status EXCEPT ![s] = "running"]
    /\ claimed' = {s}
    /\ UNCHANGED <<enabled, due, refused, mode>>

\* Whatever the source has become meanwhile, if its id is still in use.
Finish(s, st) ==
    /\ mode = "up"
    /\ claimed = {s}
    /\ status' = IF status[s] = "none" THEN status ELSE [status EXCEPT ![s] = st]
    /\ due' = due \ {s}
    /\ claimed' = {}
    /\ UNCHANGED <<enabled, refused, mode>>

Refuse(s) ==
    /\ mode = "up"
    /\ claimed = {s}
    /\ refused' = IF status[s] = "running" THEN refused \cup {s} ELSE refused
    /\ claimed' = {}
    /\ UNCHANGED <<status, enabled, due, mode>>

\* A stop in order lets the thread come to an end first.
Stop ==
    /\ mode = "up"
    /\ claimed = {}
    /\ mode' = "stopped"
    /\ UNCHANGED <<status, enabled, due, claimed, refused>>

Die ==
    /\ mode = "up"
    /\ mode' = "dead"
    /\ claimed' = {}
    /\ UNCHANGED <<status, enabled, due, refused>>

Running == {s \in Source : status[s] = "running"}

Recover ==
    /\ mode # "up"
    /\ mode' = "up"
    /\ status' = [s \in Source |-> IF s \in Running THEN "error" ELSE status[s]]
    /\ due' = due \cup Running
    /\ refused' = {}
    /\ UNCHANGED <<enabled, claimed>>

Next ==
    \/ \E s \in Source, on \in BOOLEAN : Create(s, on) \/ Edit(s, on)
    \/ \E s \in Source : Queue(s) \/ Delete(s) \/ ComeDue(s) \/ Claim(s) \/ Refuse(s)
    \/ \E s \in Source, st \in {"success", "error"} : Finish(s, st)
    \/ Stop \/ Die \/ Recover

Spec == Init /\ [][Next]_vars

\* Short of a crash, whose next start clears it, only the thread's own source says
\* that it is running, so that any other can be claimed, edited and deleted.
RunningClaimed == mode # "dead" => Running \ refused \subseteq claimed
=============================================================================
