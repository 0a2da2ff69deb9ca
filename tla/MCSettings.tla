----------------------------- MODULE MCSettings -----------------------------
(* Symmetry for the safety run of Settings: nothing tells one suite, one set   *)
(* of other settings or one worker from another.                               *)
EXTENDS Settings, TLC

Symmetry == Permutations(Suite) \cup Permutations(Metadata) \cup Permutations(Worker)
=============================================================================
