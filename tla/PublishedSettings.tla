------------------------- MODULE PublishedSettings -------------------------
(* What the service promises about its repository settings, without threads,   *)
(* publish runs, roll-backs or recovery: other settings come into force only   *)
(* once the index is built under them, the index changes only while something  *)
(* is flagged, and the flag is lowered only when the index follows the         *)
(* settings in force.  Requests that overlap a change of settings give up two  *)
(* of these, and no more: see Overwrite and Lower.                             *)
CONSTANTS Config, None

VARIABLES
    stored,     \* the settings in force
    indexed,    \* the settings the index was built under, None before the first
    flagged,    \* whether the service knows that the index is to be built
    contended   \* whether a request has overlapped a change of settings

vars == <<stored, indexed, flagged, contended>>

Init ==
    /\ stored \in Config
    /\ indexed = None
    /\ flagged = TRUE
    /\ contended = FALSE

Raise ==
    /\ flagged' = TRUE
    /\ UNCHANGED <<stored, indexed, contended>>

\* The index is built, under any settings: those of a change are not in force yet.
Build(c) ==
    /\ flagged
    /\ indexed' = c
    /\ UNCHANGED <<stored, flagged, contended>>

\* The settings that the index was built under come into force.
Enforce ==
    /\ indexed # None
    /\ stored' = indexed
    /\ flagged' \in BOOLEAN
    /\ UNCHANGED <<indexed, contended>>

Lower ==
    /\ indexed = stored \/ contended
    /\ flagged' = FALSE
    /\ UNCHANGED <<stored, indexed, contended>>

Contend ==
    /\ contended' = TRUE
    /\ UNCHANGED <<stored, indexed, flagged>>

\* A change that read older settings restores them.
Overwrite(c) ==
    /\ contended
    /\ stored' = c
    /\ UNCHANGED <<indexed, flagged, contended>>

Next ==
    \/ Raise \/ Enforce \/ Lower \/ Contend
    \/ \E c \in Config : Build(c) \/ Overwrite(c)

Spec == Init /\ [][Next]_vars

\* Until then an index with nothing flagged was built under the settings in force.
Described == ~contended /\ ~flagged => indexed = stored
=============================================================================
