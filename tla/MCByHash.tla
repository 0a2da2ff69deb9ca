------------------------------ MODULE MCByHash ------------------------------
(* Symmetry of the run of ByHash: digests are only compared.                   *)
EXTENDS ByHash, TLC

Symmetry == Permutations(Digest)
=============================================================================
