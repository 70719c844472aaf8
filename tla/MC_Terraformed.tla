---------------------------- MODULE MC_Terraformed ----------------------------
(***************************************************************************)
(* Terraform-based resources of the provider's own kinds. What a field can *)
(* go through depends on its sort and on whether it is required; fields of *)
(* a kind do not depend on one another unless they have references, so     *)
(* that one field stands for a kind without any, and two for one with them.*)
(***************************************************************************)
EXTENDS Terraformed

CONSTANTS a, b

MCNames == <<a, b>>
MCEdits == <<3, 2>>

Provider == INSTANCE Kinds

ASSUME Provider!GeneratedFromConfig

Kind(merge, required, zeroes, refs) ==
    [size |-> Len(refs.forProvider), merge |-> merge, required |-> required,
     zeroes |-> zeroes, refs |-> refs]

\* One field, required or not, that can be zero (a text, a flag) or not (a list).
NoPolicies == [place \in Places |-> <<"none">>]
Plain ==
    {Kind(merge, required, zeroes, NoPolicies) :
        merge \in BOOLEAN, required \in {{}, {1}}, zeroes \in {{}, {1}}}

\* Two fields with a reference, one of them kept and the other always resolved;
\* the second field is resolved after the first or, from another place, before.
Refers(places, policies) ==
    Kind(TRUE, {}, {}, [place \in Places |->
        [i \in 1..2 |-> IF places[i] = place THEN policies[i] ELSE "none"]])
Referring ==
    {Refers(<<"forProvider", "forProvider">>, <<"IfNotPresent", "Always">>),
     Refers(<<"initProvider", "forProvider">>, <<"Always", "IfNotPresent">>)}

MCKinds == Plain \cup Referring

\* These are the fields that the provider's kinds without an initializer have;
\* blocks are left to their own fields.
Types == {t.type : t \in {s \in Provider!AllTerraformed :
                             ~Provider!GetProvider(s.resource).initialized}}
FieldsOf(type) == {f \in DOMAIN type.fields : type.fields[f] # "blocks"}

ASSUME
    /\ Plain = UNION {{Kind(merge, IF f \in type.required THEN {1} ELSE {},
                            IF type.fields[f] = "list" THEN {} ELSE {1}, NoPolicies) :
                          f \in FieldsOf(type), merge \in BOOLEAN} :
                       type \in {t \in Types : t.references = Provider!NoReferences}}
    /\ \E type \in Types : Cardinality(DOMAIN type.references) >= 2

=============================================================================
