------------------------- MODULE SourceTable_proofs -------------------------
(* What the contract on the rows of package_sources is worth: a consequence of *)
(* its own steps, whatever obeys it.                                           *)
EXTENDS SourceTable, TLAPS

\* There is a status for each source and nothing else.
StatusInv == status = [s \in Source |-> status[s]]

Inv == StatusInv /\ RunningClaimed

\* Every step of the contract leaves but the claimed source running.
LEMMA ContractStep ==
    ASSUME Inv, [Next]_vars
    PROVE  Inv'
<1> USE DEF Inv, StatusInv, RunningClaimed, Running
<1>1. ASSUME NEW s \in Source, NEW on \in BOOLEAN, Create(s, on) \/ Edit(s, on)
      PROVE  Inv'
      BY <1>1 DEF Create, Edit, Enter
<1>2. ASSUME NEW s \in Source, Queue(s) PROVE Inv'
      BY <1>2 DEF Queue, Enter
<1>3. ASSUME NEW s \in Source, Delete(s) PROVE Inv'
      BY <1>3 DEF Delete
<1>4. ASSUME NEW s \in Source, ComeDue(s) PROVE Inv'
      BY <1>4 DEF ComeDue
<1>5. ASSUME NEW s \in Source, Claim(s) PROVE Inv'
      BY <1>5 DEF Claim
<1>6. ASSUME NEW s \in Source, NEW st \in {"success", "error"}, Finish(s, st)
      PROVE  Inv'
      BY <1>6 DEF Finish
<1>7. ASSUME NEW s \in Source, Refuse(s) PROVE Inv'
      BY <1>7 DEF Refuse
<1>8. ASSUME Stop \/ Die \/ Recover PROVE Inv'
      BY <1>8 DEF Stop, Die, Recover
<1>9. ASSUME UNCHANGED vars PROVE Inv'
      BY <1>9 DEF vars
<1> QED BY <1>1, <1>2, <1>3, <1>4, <1>5, <1>6, <1>7, <1>8, <1>9 DEF Next

\* Whoever keeps to the contract leaves no source running that nobody works on, short
\* of a crash, which the next start repairs (source_sync.py:165-262).
THEOREM ContractHolds == Spec => []RunningClaimed
<1>1. Init => Inv
      BY DEF Init, Inv, StatusInv, RunningClaimed
<1>2. Inv /\ [Next]_vars => Inv'
      BY ContractStep
<1>3. Inv => RunningClaimed
      BY DEF Inv
<1> QED BY <1>1, <1>2, <1>3, PTL DEF Spec
=============================================================================
