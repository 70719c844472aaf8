-------------------------- MODULE CostCenterPromise --------------------------
(***************************************************************************)
(* What the CostCenter controller promises to the user of a resource and   *)
(* to the account, without caches, copies, annotations and reconciles. A   *)
(* resource holds at most one cost center. It takes one only after it has  *)
(* announced that, goes only when it holds none, and while it lives does   *)
(* not remove the one it holds.                                            *)
(***************************************************************************)
EXTENDS Naturals

CONSTANTS Resources, Keys, Values, NoValue, MaxEdits

VARIABLES
    phase,     \* of each resource: absent, live or deleting
    orphan,    \* shall its cost center be left in the account?
    announced, \* has it announced a creation that has no outcome?
    held,      \* the cost centers it holds
    account,   \* the value of each cost center, or NoValue
    edits      \* what users and other clients have done so far

vars == <<phase, orphan, announced, held, account, edits>>

Init ==
    /\ phase = [c \in Resources |-> "absent"]
    /\ orphan = [c \in Resources |-> FALSE]
    /\ announced = [c \in Resources |-> FALSE]
    /\ held = [c \in Resources |-> {}]
    /\ account \in [Keys -> Values \cup {NoValue}]
    /\ edits = 0

-----------------------------------------------------------------------------
(***************************************************************************)
(* The controller                                                          *)
(***************************************************************************)

\* Only a live resource that holds nothing begins a creation.
Announce(c) ==
    /\ phase[c] = "live"
    /\ ~announced[c]
    /\ held[c] = {}
    /\ announced' = [announced EXCEPT ![c] = TRUE]
    /\ UNCHANGED <<phase, orphan, held, account, edits>>

\* A cost center is made if it is not there; the resource need not hear of it.
Make(k) ==
    /\ account[k] = NoValue
    /\ \E v \in Values : account' = [account EXCEPT ![k] = v]

Lose(c) ==
    /\ announced[c]
    /\ \E k \in Keys : Make(k)
    /\ UNCHANGED <<phase, orphan, announced, held, edits>>

Take(c) ==
    /\ announced[c]
    /\ held[c] = {}
    /\ \E k \in Keys :
          /\ IF account[k] = NoValue THEN Make(k) ELSE UNCHANGED account
          /\ held' = [held EXCEPT ![c] = {k}]
    /\ UNCHANGED <<phase, orphan, announced, edits>>

Conclude(c) ==
    /\ announced[c]
    /\ announced' = [announced EXCEPT ![c] = FALSE]
    /\ UNCHANGED <<phase, orphan, held, account, edits>>

\* Nobody holds a cost center that is not there.
Drop(k) ==
    /\ account' = [account EXCEPT ![k] = NoValue]
    /\ held' = [c \in Resources |-> held[c] \ {k}]

Remove(c) ==
    /\ \E k \in Keys :
          /\ phase[c] = "live" => k \notin held[c]
          /\ Drop(k)
    /\ UNCHANGED <<phase, orphan, announced, edits>>

Vanish(c) ==
    /\ phase' = [phase EXCEPT ![c] = "absent"]
    /\ orphan' = [orphan EXCEPT ![c] = FALSE]
    /\ announced' = [announced EXCEPT ![c] = FALSE]
    /\ held' = [held EXCEPT ![c] = {}]

Finish(c) ==
    /\ phase[c] = "deleting"
    /\ orphan[c] \/ (held[c] = {} /\ ~announced[c])
    /\ Vanish(c)
    /\ UNCHANGED <<account, edits>>

-----------------------------------------------------------------------------
(***************************************************************************)
(* Users, and other clients of the account                                 *)
(***************************************************************************)
Edit == edits < MaxEdits /\ edits' = edits + 1

Apply(c) ==
    /\ Edit
    /\ phase[c] = "absent"
    /\ phase' = [phase EXCEPT ![c] = "live"]
    /\ \E b \in BOOLEAN : orphan' = [orphan EXCEPT ![c] = b]
    /\ UNCHANGED <<announced, held, account>>

EditSpec(c) ==
    /\ Edit
    /\ phase[c] # "absent"
    /\ \E b \in BOOLEAN : orphan' = [orphan EXCEPT ![c] = b]
    /\ UNCHANGED <<phase, announced, held, account>>

\* A resource that has nothing to clean up goes at once.
RequestDeletion(c) ==
    /\ phase[c] = "live"
    /\ \/ /\ phase' = [phase EXCEPT ![c] = "deleting"]
          /\ UNCHANGED <<orphan, announced, held>>
       \/ held[c] = {} /\ ~announced[c] /\ Vanish(c)
    /\ UNCHANGED <<account, edits>>

OutOfBand(k) ==
    /\ Edit
    /\ \/ Drop(k)
       \/ /\ \E v \in Values : account' = [account EXCEPT ![k] = v]
          /\ UNCHANGED held
    /\ UNCHANGED <<phase, orphan, announced>>

-----------------------------------------------------------------------------
Controller(c) ==
    Announce(c) \/ Take(c) \/ Lose(c) \/ Conclude(c) \/ Remove(c) \/ Finish(c)

User(c) == Apply(c) \/ EditSpec(c) \/ RequestDeletion(c)

Next ==
    \/ \E c \in Resources : Controller(c) \/ User(c)
    \/ \E k \in Keys : OutOfBand(k)

Spec == Init /\ [][Next]_vars

=============================================================================
