------------------------------ MODULE MC_Import ------------------------------
(***************************************************************************)
(* Instances of Import for TLC: resources of one name or of two, in an     *)
(* account where two other items may be listed before theirs.              *)
(***************************************************************************)
EXTENDS Import

CONSTANTS one, two, name, other, third

OneName == [r \in Resources |-> name]

\* Resources of one name are alike.
Alike == Permutations(Resources)
=============================================================================
