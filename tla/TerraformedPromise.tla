------------------------- MODULE TerraformedPromise -------------------------
(***************************************************************************)
(* What the life of a Terraform-based resource promises to its user and to *)
(* the account, without copies, steps and parameters. The resource knows   *)
(* one item at most. It makes one only when it knows none, either because  *)
(* it has announced that or because the one it was updating is gone; each  *)
(* announcement makes one item at most, and nothing is begun while another *)
(* operation is due or a creation has no outcome. An item is removed only  *)
(* when the resource is being deleted, which goes only when it knows no    *)
(* item. What it has saved it knows until the item is gone; only an item   *)
(* that it never knew or had not saved can be left behind.                 *)
(***************************************************************************)
EXTENDS Naturals

CONSTANT Items

VARIABLES
    phase,    \* of the resource: absent, live or deleting
    creation, \* none, announced, begun, or abandoned without an outcome
    due,      \* the operation that is running: none, apply or destroy
    account,  \* the items that are there
    known,    \* those that the resource knows
    saved     \* those that it knows also after a restart

vars == <<phase, creation, due, account, known, saved>>
resource == <<phase, creation>>
items == <<account, known, saved>>

Init ==
    /\ phase = "absent"
    /\ creation = "none"
    /\ due = "none"
    /\ account = {}
    /\ known = {}
    /\ saved = {}

\* Nothing is under way.
AtRest == creation = "none" /\ due = "none"

-----------------------------------------------------------------------------
(***************************************************************************)
(* The resource                                                            *)
(***************************************************************************)
Announce ==
    /\ phase = "live"
    /\ AtRest
    /\ known = {}
    /\ creation' = "announced"
    /\ UNCHANGED <<phase, due, items>>

Begin ==
    /\ creation = "announced"
    /\ known = {}
    /\ creation' = "begun"
    /\ due' = "apply"
    /\ UNCHANGED <<phase, items>>

Conclude ==
    /\ creation = "begun"
    /\ creation' = "none"
    /\ UNCHANGED <<phase, due, items>>

\* A creation whose outcome is not recorded will never be.
Abandon ==
    /\ creation \in {"announced", "begun"}
    /\ creation' = "abandoned"
    /\ UNCHANGED <<phase, due, items>>

Save ==
    /\ phase # "absent"
    /\ AtRest
    /\ saved' = known
    /\ UNCHANGED <<resource, due, account, known>>

\* What is updated is saved.
Update ==
    /\ phase # "absent"
    /\ AtRest
    /\ known # {} /\ saved = known
    /\ due' = "apply"
    /\ UNCHANGED <<resource, items>>

Remove ==
    /\ phase = "deleting"
    /\ AtRest
    /\ known # {}
    /\ due' = "destroy"
    /\ UNCHANGED <<resource, items>>

Vanish ==
    /\ phase = "deleting"
    /\ AtRest
    /\ known = {}
    /\ phase' = "absent"
    /\ UNCHANGED <<creation, due, items>>

-----------------------------------------------------------------------------
(***************************************************************************)
(* Its operations                                                          *)
(***************************************************************************)
End == due # "none" /\ due' = "none"

\* An operation ends without an effect that the promise is about.
Ends == End /\ UNCHANGED <<resource, items>>

\* An item is made; the resource need not hear of it.
Makes ==
    /\ due = "apply"
    /\ End
    /\ known = {}
    /\ \E u \in Items \ account :
          /\ account' = account \cup {u}
          /\ known' \in {{u}, {}}
    /\ UNCHANGED <<resource, saved>>

Removes ==
    /\ due = "destroy"
    /\ End
    /\ account' = account \ known
    /\ known' = {}
    /\ saved' = {}
    /\ UNCHANGED resource

\* Operations end at a restart, and what is not saved is forgotten.
Forget ==
    /\ due' = "none"
    /\ known' = saved
    /\ creation' = IF creation = "none" THEN "none" ELSE "abandoned"
    /\ UNCHANGED <<phase, account, saved>>

-----------------------------------------------------------------------------
(***************************************************************************)
(* Users, and others who use the account                                   *)
(***************************************************************************)
Apply ==
    /\ phase = "absent"
    /\ phase' = "live"
    /\ UNCHANGED <<creation, due, items>>

\* A resource that has done nothing goes at once.
RequestDeletion ==
    /\ phase = "live"
    /\ \/ phase' = "deleting"
       \/ AtRest /\ known = {} /\ phase' = "absent"
    /\ UNCHANGED <<creation, due, items>>

OutOfBand ==
    /\ \E u \in account :
          /\ account' = account \ {u}
          /\ known' = known \ {u}
          /\ saved' = saved \ {u}
    /\ UNCHANGED <<resource, due>>

-----------------------------------------------------------------------------
Next ==
    \/ Announce \/ Begin \/ Conclude \/ Abandon
    \/ Save \/ Update \/ Remove \/ Vanish
    \/ Ends \/ Makes \/ Removes \/ Forget
    \/ Apply \/ RequestDeletion \/ OutOfBand

Spec == Init /\ [][Next]_vars

=============================================================================
