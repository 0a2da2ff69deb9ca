---------------------------- MODULE MCSourceSync ----------------------------
(* Symmetry for the safety runs of SourceSync: packages, contents and fixed    *)
(* files are only compared.                                                    *)
EXTENDS SourceSync, TLC

Symmetry ==
    Permutations(Package) \cup Permutations(Content) \cup Permutations(File)
=============================================================================
