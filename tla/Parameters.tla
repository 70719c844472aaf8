----------------------------- MODULE Parameters -----------------------------
(***************************************************************************)
(* The parameters of a Terraform-based resource: how spec.forProvider and  *)
(* spec.initProvider are merged, late-initialized and admitted             *)
(* (zz_*_terraformed.go, zz_*_types.go). Parameters are a tuple with a     *)
(* value per field; every kind's methods are the same but for the fields.  *)
(***************************************************************************)
EXTENDS Naturals, Sequences

CONSTANTS
    Unset, \* the field is left out
    Zero,  \* the field is there with "" or false, which is not left out
    Texts  \* every other value

Values == {Unset, Zero} \cup Texts

\* Mutant of GetMergedParameters: mergo's WithSliceDeepCopy left to overwrite.
GetMergedParametersOverwrite(spec, shouldMergeInitProvider) ==
    [i \in DOMAIN spec.forProvider |->
        IF spec.initProvider[i] # Unset THEN spec.initProvider[i] ELSE spec.forProvider[i]]

\* GetMergedParameters: without overwriting, mergo fills in what is left out,
\* and what is zero.
GetMergedParameters(spec, shouldMergeInitProvider) ==
    [i \in DOMAIN spec.forProvider |->
        IF /\ shouldMergeInitProvider
           /\ spec.forProvider[i] \in {Unset, Zero} /\ spec.initProvider[i] # Unset
        THEN spec.initProvider[i] ELSE spec.forProvider[i]]

\* Mutant of LateInitialize: what is observed replaces what is set.
LateInitializeAll(spec, observed) ==
    [spec EXCEPT !.forProvider =
        [i \in DOMAIN observed |->
            IF observed[i] # Unset THEN observed[i] ELSE spec.forProvider[i]]]

\* LateInitialize: what is left out is set to what is observed, unless that
\* is zero.
LateInitialize(spec, observed) ==
    [spec EXCEPT !.forProvider =
        [i \in DOMAIN observed |->
            IF spec.forProvider[i] = Unset /\ observed[i] # Zero
            THEN observed[i] ELSE spec.forProvider[i]]]

\* The validation rules: a required parameter is set in one of the places.
Admitted(spec, required) ==
    \A i \in required : spec.forProvider[i] # Unset \/ spec.initProvider[i] # Unset

=============================================================================
