---------------------------- MODULE MCRepository ----------------------------
(* Settings and symmetry for the runs of Repository.  No operation tells one   *)
(* thread, one package, one package's bytes or one component from another, and *)
(* a setting carries all packages or none, under any component.                *)
EXTENDS Repository, TLC

CONSTANT Carried    \* the sets of packages that settings may carry

Settings == [component : Component, packages : Carried]

Symmetry ==
    Permutations(Worker) \cup Permutations(Package) \cup Permutations(Content)
    \cup Permutations(Component)
=============================================================================
