------------------------------- MODULE Import -------------------------------
(***************************************************************************)
(* The import of existing groups and policy boundaries                     *)
(* (config/initializer.go). Before it observes a group or policy boundary, *)
(* the reconciler asks the account for an item of the resource's name and  *)
(* takes its UUID as the external name. The rest of the reconcile is       *)
(* external: crossplane-runtime's order of updates and upjet, which        *)
(* observes with Terraform by UUID, and creates and deletes by operations  *)
(* that go on after the reconcile (the callback provider of                *)
(* zz_controller.go). Meanwhile the initializer runs again.                *)
(***************************************************************************)
EXTENDS Naturals, SequencesExt

CONSTANTS
    Resources,  \* managed resources of one kind
    NameOf,     \* spec.forProvider.name, or else spec.initProvider.name
    OtherNames, \* names others give to their items
    Paged,      \* TRUE for policy boundaries, listed in pages, FALSE for groups, at once
    PageSize,
    MaxItems,   \* bound on the items ever made
    MaxFaults,  \* bound on failed calls and restarts
    MaxEdits    \* bound on what users and others do

ASSUME ImportAssumption ==
    /\ DOMAIN NameOf = Resources
    /\ Paged \subseteq BOOLEAN /\ Paged # {}
    /\ PageSize \in Nat \ {0}
    /\ MaxItems \in Nat /\ MaxItems >= 2
    /\ MaxFaults \in Nat
    /\ MaxEdits \in Nat

VARIABLES
    paged,   \* the kind of the resources: is it listed in pages?
    named,   \* the name of every item ever made: its UUID is its position
    account, \* the UUIDs of the items in the account, in listing order
    object,  \* each resource at the API server
    read,    \* the phase of the resource its reconcile has read
    step,    \* the step that reconcile is at
    page,    \* the page the lookup asks for next
    found,   \* the external name in memory
    op,      \* the operation that is running
    tf,      \* the item Terraform's state knows, lost when the provider restarts
    faults,
    edits,
    \* history variables, read by no action:
    present, \* the item of the name that is there since the lookup began
    shifted, \* has an item been removed since the lookup began?
    overtaken, \* has an item of the name come, or any gone, since the lookup
             \* began that has led to the creation that is running?
    made     \* the items the resource's POSTs have made

reconciles == <<read, step, page, found>>
operations == <<op, tf>>
history == <<present, shifted, overtaken, made>>
vars == <<paged, named, account, object, reconciles, operations, faults, edits, history>>

Names == {NameOf[r] : r \in Resources} \cup OtherNames
None == 0
UUIDs == 1..MaxItems
Phases == {"absent", "live", "deleting"}
Object == [phase : Phases, fin : BOOLEAN, ext : UUIDs \cup {None}, pending : BOOLEAN]
Absent == [phase |-> "absent", fin |-> FALSE, ext |-> None, pending |-> FALSE]

Items == ToSet(account)
Bearers(name) == {u \in Items : named[u] = name}
Bearer(name) == IF Bearers(name) = {} THEN None ELSE CHOOSE u \in Bearers(name) : TRUE

Init ==
    /\ paged \in Paged
    /\ named \in {<<>>} \cup {<<n>> : n \in Names} \cup
             {<<m, n>> : m \in OtherNames, n \in OtherNames}
    /\ IsInjective(named)
    /\ account = [i \in DOMAIN named |-> i]
    /\ object = [r \in Resources |-> Absent]
    /\ read = [r \in Resources |-> "absent"]
    /\ step = [r \in Resources |-> "idle"]
    /\ page = [r \in Resources |-> 1]
    /\ found = [r \in Resources |-> None]
    /\ op = [r \in Resources |-> "none"]
    /\ tf = [r \in Resources |-> None]
    /\ faults = 0
    /\ edits = 0
    /\ present = [r \in Resources |-> None]
    /\ shifted = [r \in Resources |-> FALSE]
    /\ overtaken = [r \in Resources |-> FALSE]
    /\ made = [r \in Resources |-> {}]

-----------------------------------------------------------------------------
(***************************************************************************)
(* The lookup                                                              *)
(***************************************************************************)

\* What the account answers to the request for a page; the groups come in one.
Listed(p) ==
    IF ~paged THEN Items
    ELSE {account[i] : i \in {j \in DOMAIN account :
                               (p - 1) * PageSize < j /\ j <= (p - 1) * PageSize + PageSize}}

\* Mutant of Initialize: a resource that is being deleted is not looked up.
InitializeLive(r) ==
    /\ step[r] = "idle"
    /\ object[r].phase # "absent"
    /\ read' = [read EXCEPT ![r] = object[r].phase]
    /\ found' = [found EXCEPT ![r] = object[r].ext]
    /\ step' = [step EXCEPT ![r] =
          IF object[r].ext = None /\ object[r].phase = "live" THEN "lookup" ELSE "connect"]
    /\ page' = [page EXCEPT ![r] = 1]
    /\ present' = [present EXCEPT ![r] = Bearer(NameOf[r])]
    /\ shifted' = [shifted EXCEPT ![r] = FALSE]
    /\ UNCHANGED <<paged, named, account, object, operations, faults, edits, overtaken, made>>

\* Initialize: a resource with an external name needs no lookup. A lookup
\* starts with page 1.
Initialize(r) ==
    /\ step[r] = "idle"
    /\ object[r].phase # "absent"
    /\ read' = [read EXCEPT ![r] = object[r].phase]
    /\ found' = [found EXCEPT ![r] = object[r].ext]
    /\ step' = [step EXCEPT ![r] = IF object[r].ext = None THEN "lookup" ELSE "connect"]
    /\ page' = [page EXCEPT ![r] = 1]
    /\ present' = [present EXCEPT ![r] = Bearer(NameOf[r])]
    /\ shifted' = [shifted EXCEPT ![r] = FALSE]
    /\ UNCHANGED <<paged, named, account, object, operations, faults, edits, overtaken, made>>

\* Mutant of Lookup: an empty page does not end it.
LookupEndless(r) ==
    /\ step[r] = "lookup"
    /\ LET matches == {u \in Listed(page[r]) : named[u] = NameOf[r]} IN
       IF matches = {}
       THEN page' = [page EXCEPT ![r] = @ + 1] /\ UNCHANGED <<found, step>>
       ELSE /\ found' = [found EXCEPT ![r] = CHOOSE u \in matches : TRUE]
            /\ step' = [step EXCEPT ![r] = "connect"]
            /\ UNCHANGED page
    /\ UNCHANGED <<paged, named, account, object, read, operations, faults, edits, history>>

\* Mutant of Lookup: a page without the name is asked for again.
LookupSamePage(r) ==
    /\ step[r] = "lookup"
    /\ LET matches == {u \in Listed(1) : named[u] = NameOf[r]} IN
       /\ matches # {} \/ Listed(1) = {}
       /\ found' = [found EXCEPT ![r] = IF matches = {} THEN None ELSE CHOOSE u \in matches : TRUE]
       /\ step' = [step EXCEPT ![r] = "connect"]
       /\ UNCHANGED page
    /\ UNCHANGED <<paged, named, account, object, read, operations, faults, edits, history>>

\* Mutant of Lookup: the first page without the name ends it.
LookupFirstPage(r) ==
    /\ step[r] = "lookup"
    /\ LET matches == {u \in Listed(page[r]) : named[u] = NameOf[r]} IN
       /\ found' = [found EXCEPT ![r] = IF matches = {} THEN None ELSE CHOOSE u \in matches : TRUE]
       /\ step' = [step EXCEPT ![r] = "connect"]
       /\ UNCHANGED page
    /\ UNCHANGED <<paged, named, account, object, read, operations, faults, edits, history>>

\* Mutant of Lookup: the first item found is taken, whatever its name.
LookupAny(r) ==
    /\ step[r] = "lookup"
    /\ found' = [found EXCEPT ![r] =
          IF Listed(1) = {} THEN None ELSE CHOOSE u \in Listed(1) : TRUE]
    /\ step' = [step EXCEPT ![r] = "connect"]
    /\ UNCHANGED <<paged, named, account, object, read, page, operations, faults, edits, history>>

\* lookupGroup, and one turn of lookupPolicyBoundary with fetchBoundaryPage:
\* the lookup ends with a match or with a page that is empty.
Lookup(r) ==
    /\ step[r] = "lookup"
    /\ LET matches == {u \in Listed(page[r]) : named[u] = NameOf[r]} IN
       IF matches = {} /\ paged /\ Listed(page[r]) # {}
       THEN page' = [page EXCEPT ![r] = @ + 1] /\ UNCHANGED <<found, step>>
       ELSE /\ found' = [found EXCEPT ![r] =
                 IF matches = {} THEN None ELSE CHOOSE u \in matches : TRUE]
            /\ step' = [step EXCEPT ![r] = "connect"]
            /\ UNCHANGED page
    /\ UNCHANGED <<paged, named, account, object, read, operations, faults, edits, history>>

-----------------------------------------------------------------------------
(***************************************************************************)
(* The rest of the reconcile (external)                                    *)
(***************************************************************************)

\* The reconcile ends, and what it had in memory goes.
Idle(r) ==
    /\ step' = [step EXCEPT ![r] = "idle"]
    /\ read' = [read EXCEPT ![r] = "absent"]
    /\ page' = [page EXCEPT ![r] = 1]
    /\ found' = [found EXCEPT ![r] = None]
    /\ present' = [present EXCEPT ![r] = None]
    /\ shifted' = [shifted EXCEPT ![r] = FALSE]

\* Connect gives Terraform the external name if it has no state.
State(r) == IF tf[r] = None THEN found[r] ELSE tf[r]

\* The reconcile is at the point where the resource is observed, nothing has
\* written to it meanwhile, and no creation of it is abandoned.
Connects(r) ==
    /\ step[r] = "connect"
    /\ ~object[r].pending
    /\ object[r].phase = read[r]

Observes(r, phase) == Connects(r) /\ op[r] = "none" /\ read[r] = phase

\* A creation that was announced and has no recorded outcome stops every
\* reconcile, and so does a write that comes between.
Refuse(r) ==
    /\ step[r] = "connect"
    /\ object[r].pending \/ object[r].phase # read[r]
    /\ Idle(r)
    /\ UNCHANGED <<paged, named, account, object, operations, faults, edits, overtaken, made>>

\* An operation is running: what it is doing is awaited.
Wait(r) ==
    /\ Connects(r)
    /\ op[r] # "none"
    /\ Idle(r)
    /\ UNCHANGED <<paged, named, account, object, operations, faults, edits, overtaken, made>>

\* The item is there. The external name is persisted with the finalizer;
\* later only if something else has to be.
Adopt(r) ==
    /\ Observes(r, "live")
    /\ State(r) \in Items
    /\ \/ object' = [object EXCEPT ![r].fin = TRUE, ![r].ext = State(r)]
       \/ object[r].fin /\ UNCHANGED object
    /\ tf' = [tf EXCEPT ![r] = State(r)]
    /\ Idle(r)
    /\ UNCHANGED <<paged, named, account, op, faults, edits, overtaken, made>>

\* The item is not there: its creation is announced.
Announce(r) ==
    /\ Observes(r, "live")
    /\ State(r) \notin Items
    /\ object' = [object EXCEPT ![r].fin = TRUE, ![r].ext = found[r], ![r].pending = TRUE]
    /\ tf' = [tf EXCEPT ![r] = None]
    /\ step' = [step EXCEPT ![r] = "create"]
    /\ UNCHANGED <<paged, named, account, read, page, found, op, faults, edits, history>>

\* The creation goes on when Create has returned.
Create(r) ==
    /\ step[r] = "create"
    /\ op' = [op EXCEPT ![r] = "create"]
    /\ overtaken' = [overtaken EXCEPT ![r] = shifted[r] \/ present[r] # Bearer(NameOf[r])]
    /\ step' = [step EXCEPT ![r] = "created"]
    /\ UNCHANGED <<paged, named, account, object, read, page, found, tf, faults, edits,
                   present, shifted, made>>

\* Create is recorded as a success, whatever comes of the operation.
Record(r) ==
    /\ step[r] = "created"
    /\ object' = [object EXCEPT ![r].ext = found[r], ![r].pending = FALSE]
    /\ Idle(r)
    /\ UNCHANGED <<paged, named, account, operations, faults, edits, overtaken, made>>

\* A resource being deleted whose item is there: its deletion begins.
Delete(r) ==
    /\ Observes(r, "deleting")
    /\ State(r) \in Items
    /\ op' = [op EXCEPT ![r] = "delete"]
    /\ tf' = [tf EXCEPT ![r] = State(r)]
    /\ Idle(r)
    /\ UNCHANGED <<paged, named, account, object, faults, edits, overtaken, made>>

\* A resource being deleted whose item is not there goes.
Finalize(r) ==
    /\ Observes(r, "deleting")
    /\ State(r) \notin Items
    /\ object' = [object EXCEPT ![r] = Absent]
    /\ tf' = [tf EXCEPT ![r] = None]
    /\ made' = [made EXCEPT ![r] = {}]
    /\ Idle(r)
    /\ UNCHANGED <<paged, named, account, op, faults, edits, overtaken>>

-----------------------------------------------------------------------------
(***************************************************************************)
(* Terraform's operations (external)                                       *)
(***************************************************************************)
End(r, run) == op[r] = run /\ op' = [op EXCEPT ![r] = "none"]

\* An item of a name is made, and listed last.
PutIn(name) ==
    /\ Bearers(name) = {}
    /\ Len(named) < MaxItems
    /\ named' = Append(named, name)
    /\ account' = Append(account, Len(named) + 1)
    /\ overtaken' = [r \in Resources |->
                       op'[r] = "create" /\ (overtaken[r] \/ NameOf[r] = name)]

\* An item goes; those listed after it move up.
TakeOut(u) ==
    /\ \E i \in DOMAIN account : account[i] = u /\ account' = RemoveAt(account, i)
    /\ shifted' = [r \in Resources |-> step[r] # "idle"]
    /\ overtaken' = [r \in Resources |-> op[r] = "create"]
    /\ present' = [r \in Resources |-> IF present[r] = u THEN None ELSE present[r]]

\* The account refuses a name that is taken.
CreateRefused(r) ==
    /\ End(r, "create")
    /\ Bearers(NameOf[r]) # {}
    /\ overtaken' = [overtaken EXCEPT ![r] = FALSE]
    /\ UNCHANGED <<paged, named, account, object, reconciles, tf, faults, edits,
                   present, shifted, made>>

Store(r) ==
    /\ End(r, "create")
    /\ PutIn(NameOf[r])
    /\ made' = [made EXCEPT ![r] = @ \cup {Len(named) + 1}]
    /\ UNCHANGED <<paged, object, reconciles, edits, present, shifted>>

CreateStored(r) ==
    /\ Store(r)
    /\ tf' = [tf EXCEPT ![r] = Len(named) + 1]
    /\ UNCHANGED faults

Deleted(r) ==
    /\ End(r, "delete")
    /\ IF tf[r] \in Items
       THEN TakeOut(tf[r])
       ELSE UNCHANGED <<account, present, shifted, overtaken>>
    /\ UNCHANGED <<paged, named, object, reconciles, tf, faults, edits, made>>

-----------------------------------------------------------------------------
(***************************************************************************)
(* Failures                                                                *)
(***************************************************************************)
Failing == faults < MaxFaults /\ faults' = faults + 1

\* The item is made, and the answer is an error.
CreateLost(r) ==
    /\ Store(r)
    /\ Failing
    /\ UNCHANGED tf

\* A call of the reconcile fails.
Fault(r) ==
    /\ step[r] # "idle"
    /\ Failing
    /\ Idle(r)
    /\ UNCHANGED <<paged, named, account, object, operations, edits, overtaken, made>>

\* The provider restarts, or is new: operations stop with what they have
\* done, and Terraform's state is lost.
Restart ==
    /\ Failing
    /\ step' = [r \in Resources |-> "idle"]
    /\ read' = [r \in Resources |-> "absent"]
    /\ page' = [r \in Resources |-> 1]
    /\ found' = [r \in Resources |-> None]
    /\ op' = [r \in Resources |-> "none"]
    /\ tf' = [r \in Resources |-> None]
    /\ present' = [r \in Resources |-> None]
    /\ shifted' = [r \in Resources |-> FALSE]
    /\ overtaken' = [r \in Resources |-> FALSE]
    /\ UNCHANGED <<paged, named, account, object, edits, made>>

-----------------------------------------------------------------------------
(***************************************************************************)
(* Users, and others who use the account                                   *)
(***************************************************************************)

Edit ==
    /\ edits < MaxEdits
    /\ edits' = edits + 1
    /\ UNCHANGED <<paged, reconciles, operations, faults>>

Apply(r) ==
    /\ Edit
    /\ object[r].phase = "absent"
    /\ step[r] = "idle"
    /\ object' = [object EXCEPT ![r] = [Absent EXCEPT !.phase = "live"]]
    /\ UNCHANGED <<named, account, present, shifted, overtaken, made>>

RequestDeletion(r) ==
    /\ Edit
    /\ object[r].phase = "live"
    /\ object' = [object EXCEPT ![r] = IF @.fin THEN [@ EXCEPT !.phase = "deleting"] ELSE Absent]
    /\ UNCHANGED <<named, account, present, shifted, overtaken, made>>

AddItem(name) ==
    /\ Edit
    /\ PutIn(name)
    /\ UNCHANGED <<object, present, shifted, made>>

RemoveItem(u) ==
    /\ Edit
    /\ TakeOut(u)
    /\ UNCHANGED <<named, object, made>>

-----------------------------------------------------------------------------
Reconcile(r) ==
    \/ Initialize(r) \/ Lookup(r) \/ Refuse(r) \/ Wait(r)
    \/ Adopt(r) \/ Announce(r) \/ Create(r) \/ Record(r)
    \/ Delete(r) \/ Finalize(r)

Operate(r) == CreateRefused(r) \/ CreateStored(r) \/ Deleted(r)

Outside ==
    \/ \E r \in Resources : Apply(r) \/ RequestDeletion(r)
    \/ \E name \in Names : AddItem(name)
    \/ \E u \in Items : RemoveItem(u)

Next ==
    \/ \E r \in Resources : Reconcile(r) \/ Operate(r) \/ CreateLost(r) \/ Fault(r)
    \/ Restart
    \/ Outside

Spec == Init /\ [][Next]_vars

\* The work queue retries and polls, and Terraform's operations end.
FairSpec == Spec /\ \A r \in Resources : WF_vars(Reconcile(r)) /\ WF_vars(Operate(r))

-----------------------------------------------------------------------------
(***************************************************************************)
(* Properties                                                              *)
(***************************************************************************)

AccountOK ==
    /\ named \in Seq(Names) /\ Len(named) <= MaxItems
    /\ account \in Seq(DOMAIN named) /\ Len(account) <= Len(named)
    /\ \A i, j \in DOMAIN account : i # j => named[account[i]] # named[account[j]]

\* Every variable has its type, and no name is taken twice in the account.
TypeOK ==
    /\ paged \in BOOLEAN
    /\ AccountOK
    /\ object \in [Resources -> Object]
    /\ read \in [Resources -> Phases]
    /\ step \in [Resources -> {"idle", "lookup", "connect", "create", "created"}]
    /\ page \in [Resources -> 1..(MaxItems + 1)]
    /\ found \in [Resources -> UUIDs \cup {None}]
    /\ op \in [Resources -> {"none", "create", "delete"}]
    /\ tf \in [Resources -> UUIDs \cup {None}]
    /\ faults \in 0..MaxFaults
    /\ edits \in 0..MaxEdits
    /\ present \in [Resources -> UUIDs \cup {None}]
    /\ shifted \in [Resources -> BOOLEAN]
    /\ overtaken \in [Resources -> BOOLEAN]
    /\ made \in [Resources -> SUBSET UUIDs]

Bears(u, r) == u \in DOMAIN named /\ named[u] = NameOf[r]

\* A resource is only ever tied to an item of its own name, however the
\* listing changes between its pages and whoever made the item.
TiedByName ==
    \A r \in Resources :
        /\ object[r].ext # None => Bears(object[r].ext, r)
        /\ found[r] # None => Bears(found[r], r)
        /\ tf[r] # None => Bears(tf[r], r)

\* A lookup misses an item that is there all along only if another is removed
\* meanwhile, which moves it to a page already read.
QuietLookupFinds ==
    \A r \in Resources :
        step[r] \in {"connect", "create"} /\ found[r] = None
            => present[r] = None \/ shifted[r]

\* The POST of a resource without an external name is refused only if the
\* account has changed since the lookup that led to it began: an item of the
\* name has come or any has gone, before the creation began or after.
RefusedOnlyIfOvertaken ==
    [][\A r \in Resources :
          CreateRefused(r) /\ object[r].ext = None => overtaken[r]]_vars

\* A resource that goes leaves no item behind that it made, also where the
\* provider has restarted before the item's UUID was recorded: a lookup finds
\* it again. What may hide the item is that one was removed during the lookup,
\* that its creation, and the answer to it, came after the lookup had begun,
\* and an external name recorded before.
NothingLeftBehind ==
    [][\A r \in Resources :
          Finalize(r) /\ object[r].ext = None
              => present[r] \notin made[r] \/ shifted[r]]_vars

\* The name recorded is that of an item that has gone, and another item has
\* its name by now.
Stale(r) ==
    /\ object[r].ext \notin Items \cup {None}
    /\ Bearers(NameOf[r]) # {}

\* In the end a live resource is served by an item of its name, unless its
\* creation is abandoned or its external name stale.
Served ==
    \A r \in Resources :
        <>[](object[r].phase = "live"
                => tf[r] \in Bearers(NameOf[r]) \/ object[r].pending \/ Stale(r))

\* In the end a resource being deleted is gone, unless its creation is
\* abandoned.
DeletionCompletes ==
    \A r \in Resources : <>[](object[r].phase = "deleting" => object[r].pending)

=============================================================================
