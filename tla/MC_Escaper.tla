------------------------------ MODULE MC_Escaper ------------------------------
(***************************************************************************)
(* Instances of Escaper for TLC: every text up to a length, alone, in a    *)
(* list and in a map in a list, beside another value whose key holds an    *)
(* interpolation.                                                          *)
(***************************************************************************)
EXTENDS Escaper

CONSTANT Length     \* the longest text

Texts == BoundedSeq(Characters \ {NUL}, Length)

Key == <<"c">>
Keys == {Key, Interpolation}

MapOf(v, w) == Map([key \in Keys |-> IF key = Key THEN v ELSE w])

Shapes(s) ==
    {Text(s),
     List(<<Text(s), Other>>),
     List(<<Other, MapOf(Text(s), Text(Interpolation))>>)}

Parameters == {MapOf(v, Other) : v \in UNION {Shapes(s) : s \in Texts}}
=============================================================================
