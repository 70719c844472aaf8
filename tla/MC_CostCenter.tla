---------------------------- MODULE MC_CostCenter ----------------------------
(***************************************************************************)
(* Instances of CostCenter for TLC: one resource, a key that is also its    *)
(* metadata.name and one that is not, one or two values.                   *)
(***************************************************************************)
EXTENDS CostCenter

CONSTANTS c1, name, key, low, high

AllNamed == [c \in Resources |-> name]

Manifest(k, v, ik, iv, o) ==
    [key |-> k, val |-> v, initKey |-> ik, initVal |-> iv, orphan |-> o]

Plain == Manifest(key, low, NoKey, NoValue, FALSE)
Changed == Manifest(key, high, NoKey, NoValue, FALSE)
Renamed == Manifest(name, low, NoKey, NoValue, FALSE)
Orphan == Manifest(key, low, NoKey, NoValue, TRUE)
InitOnly == Manifest(NoKey, NoValue, key, low, FALSE)

OneSpec == {Plain}
UsableSpecs == {Plain, Changed, Renamed, Orphan}
ValueSpecs == {Plain, Changed}
AllSpecs == {Plain, Renamed, Orphan, InitOnly}

\* Users import a cost center by either name, or none.
AnyName == {NoKey, name, key}
==============================================================================
