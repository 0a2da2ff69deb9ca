----------------------------- MODULE Catalogue -----------------------------
(* What the repository promises its apt clients, without locks, flags, runs or *)
(* requests: packages are offered once their bytes are stored at their path,   *)
(* the index switches as a whole from one offer to a later one, and a file     *)
(* that the index lists is neither removed nor given other bytes -- unless the *)
(* package is no longer offered from there and this was forgotten, until the   *)
(* next publish.                                                               *)
CONSTANTS Package, Component, Content, None, Skipped

VARIABLES
    offered,   \* what each package should be installed from, None if nothing
    index,     \* the published index, None before the first publish
    files,     \* the stored files
    lost,      \* paths whose file vanished from outside
    abandoned  \* listed packages whose file is no longer kept for the index

vars == <<offered, index, files, lost, abandoned>>

Init ==
    /\ offered = [p \in Package |-> None]
    /\ index = None
    /\ files = [x \in Package \X Component |-> None]
    /\ lost = {}
    /\ abandoned = {}

Listed(p) == index # None /\ index[p] \notin {None, Skipped}
Promised(p) == Listed(p) /\ p \notin abandoned

OffersAt(p, d) == offered[p] # None /\ offered[p].dir = d
PromisesAt(p, d) == Promised(p) /\ index[p].dir = d

\* Bytes may be written where there are none.
Store(p, d, c) ==
    /\ files[<<p, d>>] = None
    /\ PromisesAt(p, d) => index[p].hash = c
    /\ files' = [files EXCEPT ![<<p, d>>] = c]
    /\ UNCHANGED <<offered, index, lost, abandoned>>

\* A package is offered with the bytes stored for it and never with others,
\* though it may come to be offered from another path.
Offer(p, d, c) ==
    /\ offered[p] # None => offered[p].hash = c
    /\ Promised(p) => index[p].hash = c
    /\ files[<<p, d>>] = c \/ <<p, d>> \in lost
    /\ offered' = [offered EXCEPT ![p] = [hash |-> c, dir |-> d]]
    /\ lost' = IF files[<<p, d>>] = c THEN lost \ {<<p, d>>} ELSE lost
    /\ UNCHANGED <<index, files, abandoned>>

Withdraw(ps) ==
    /\ offered' = [p \in Package |-> IF p \in ps THEN None ELSE offered[p]]
    /\ UNCHANGED <<index, files, lost, abandoned>>

\* The index carries some of the packages and nothing of the others.
Publish(carried) ==
    /\ index' = [p \in Package |-> IF p \in carried THEN offered[p] ELSE Skipped]
    /\ abandoned' = {}
    /\ UNCHANGED <<offered, files, lost>>

\* Only what is neither offered nor promised is removed; the second case undoes
\* an attempt to replace a file that was lost.
Remove(p, d) ==
    /\ ~(OffersAt(p, d) \/ PromisesAt(p, d)) \/ <<p, d>> \in lost
    /\ files' = [files EXCEPT ![<<p, d>>] = None]
    /\ UNCHANGED <<offered, index, lost, abandoned>>

\* A package that is not offered from where it is listed loses the promise that
\* its file stays, and may lose the file.
Abandon(p, gone) ==
    /\ Listed(p)
    /\ ~OffersAt(p, index[p].dir)
    /\ abandoned' = abandoned \cup {p}
    /\ files' = IF gone THEN [files EXCEPT ![<<p, index[p].dir>>] = None] ELSE files
    /\ UNCHANGED <<offered, index, lost>>

Lose(p, d) ==
    /\ files' = [files EXCEPT ![<<p, d>>] = None]
    /\ lost' = lost \cup {<<p, d>>}
    /\ UNCHANGED <<offered, index, abandoned>>

Next ==
    \/ \E p \in Package, d \in Component : Remove(p, d) \/ Lose(p, d)
    \/ \E p \in Package, d \in Component, c \in Content : Store(p, d, c) \/ Offer(p, d, c)
    \/ \E p \in Package, gone \in BOOLEAN : Abandon(p, gone)
    \/ \E ps \in SUBSET Package : Withdraw(ps) \/ Publish(ps)

Spec == Init /\ [][Next]_vars

\* What the promise gives a client, whatever keeps it: a file it finds in the index
\* is there with the bytes the index lists, unless the file vanished from outside or
\* the promise was abandoned.
Servable ==
    \A p \in Package : Promised(p) =>
        files[<<p, index[p].dir>>] = index[p].hash \/ <<p, index[p].dir>> \in lost
=============================================================================
