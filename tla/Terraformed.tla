----------------------------- MODULE Terraformed -----------------------------
(***************************************************************************)
(* A Terraform-based resource without an initializer, from its spec to the *)
(* item in the account: its references are resolved                        *)
(* (zz_generated.resolvers.go), its parameters merged and late-initialized *)
(* (zz_*_terraformed.go), and its item made, updated and deleted by        *)
(* operations that go on after the reconcile that began them (the callback *)
(* provider of zz_controller.go). The reconcile is crossplane-runtime's    *)
(* and the operations are upjet's; both are external. The resource has the *)
(* default management policies.                                            *)
(***************************************************************************)
EXTENDS Parameters, FiniteSets

CONSTANTS
    Kinds,     \* what a resource may be, see TerraformedAssumption
    ExternalNames, \* those a referenced resource gets, one each time it is made
    MaxItems,  \* bound on the items ever made
    MaxFaults, \* bound on failed calls and operations, and on restarts
    MaxEdits   \* bound on what users and others do to a resource of so many fields
               \* and its item

ReferencePolicies == {"none", "IfNotPresent", "Always"}
Places == {"forProvider", "initProvider"}

\* A kind has a number of fields. Of these some are required, some can be zero
\* and some have a reference, which stands in one place or both. The store of
\* workspaces merges spec.initProvider or not.
ASSUME TerraformedAssumption ==
    /\ \A k \in Kinds :
          /\ k.size \in Nat \ {0}
          /\ k.required \subseteq 1..k.size /\ k.zeroes \subseteq 1..k.size
          /\ k.refs \in [Places -> [1..k.size -> ReferencePolicies]]
          /\ k.merge \in BOOLEAN
          /\ MaxEdits[k.size] \in Nat
    /\ Unset \notin {Zero} \cup Texts /\ Zero \notin Texts
    /\ ExternalNames \in Seq(Texts) /\ Len(ExternalNames) > 0
    /\ MaxItems \in Nat /\ MaxFaults \in Nat

VARIABLES
    kind,
    object,   \* the resource at the API server
    work,     \* the copy of it that the reconcile works on
    fresh,    \* has nobody written to the object since it was read?
    step,     \* the step the reconcile is at
    position, \* the reference to be resolved next
    op,       \* the operation that is running, and the parameters it was given
    tf,       \* the item Terraform's state knows, lost when the provider restarts
    items,    \* the parameters of every item ever made, or Gone
    age,      \* each field's referenced resource: what has become of it so far
    faults,
    edits,
    lost      \* history: an item was made that nothing knows of

reconcile == <<work, fresh, step, position>>
account == <<op, tf, items>>
vars == <<kind, object, reconcile, account, age, faults, edits, lost>>

Fields == 1..kind.size
None == 0
Gone == <<>>
Present == {u \in DOMAIN items : items[u] # Gone}

Blank == [i \in Fields |-> Unset]
BlankSpec == [place \in Places |-> Blank]
Absent == [phase |-> "absent", fin |-> FALSE, pending |-> FALSE, ext |-> None, spec |-> BlankSpec]
Idling == [run |-> "none", params |-> Blank]

\* The fields with a reference.
Referencing == {i \in Fields : \E place \in Places : kind.refs[place][i] # "none"}

\* A referenced resource gets its external name and goes; made again, it gets
\* another name. Before it has one it might as well not be there.
Ages == 0..(2 * Len(ExternalNames) - 1)
ExternalName(i) == IF age[i] % 2 = 1 THEN ExternalNames[age[i] \div 2 + 1] ELSE Unset

Init ==
    /\ kind \in Kinds
    /\ object = Absent
    /\ work = Absent
    /\ fresh = FALSE
    /\ step = "idle"
    /\ position = 1
    /\ op = Idling
    /\ tf = None
    /\ items = <<>>
    /\ age = [i \in Fields |-> 0]
    /\ faults = 0
    /\ edits = 0
    /\ lost = FALSE

-----------------------------------------------------------------------------
(***************************************************************************)
(* ResolveReferences: forProvider field by field, then initProvider        *)
(***************************************************************************)
Positions == 1..(2 * kind.size)
Place(p) == IF p <= kind.size THEN "forProvider" ELSE "initProvider"
Field(p) == IF p <= kind.size THEN p ELSE p - kind.size
PolicyAt(p) == kind.refs[Place(p)][Field(p)]

\* Mutant of LooksUp: a value once there is kept whatever the policy.
LooksUpOnce(p) == PolicyAt(p) # "none" /\ work.spec[Place(p)][Field(p)] = Unset

\* A reference is looked up unless the field has its value already; with the
\* policy Always it is every time.
LooksUp(p) ==
    \/ PolicyAt(p) = "Always"
    \/ PolicyAt(p) = "IfNotPresent" /\ work.spec[Place(p)][Field(p)] = Unset

Unresolved == {p \in Positions : p >= position /\ LooksUp(p)}
NextReference == CHOOSE p \in Unresolved : \A q \in Unresolved : p <= q

\* Mutant of Idle: the next reconcile resolves from where this one has ended.
IdleKeeping == step' = "idle" /\ work' = Absent /\ fresh' = FALSE /\ UNCHANGED position

Idle == step' = "idle" /\ work' = Absent /\ fresh' = FALSE /\ position' = 1

SetReference(p) ==
    /\ work' = [work EXCEPT !.spec[Place(p)][Field(p)] = ExternalName(Field(p))]
    /\ position' = p + 1
    /\ UNCHANGED <<fresh, step>>

\* Mutant of Resolve: a reference that cannot be resolved is passed over.
ResolveOn ==
    /\ step = "resolve"
    /\ Unresolved # {}
    /\ SetReference(NextReference)
    /\ UNCHANGED <<kind, object, account, age, faults, edits, lost>>

\* One reference is resolved, in the copy alone. If the resource it stands for
\* is not there or has no external name yet, the reconcile ends.
Resolve ==
    /\ step = "resolve"
    /\ Unresolved # {}
    /\ IF ExternalName(Field(NextReference)) = Unset THEN Idle ELSE SetReference(NextReference)
    /\ UNCHANGED <<kind, object, account, age, faults, edits, lost>>

\* What the references have come to.
References(spec) ==
    [place \in Places |-> [i \in Fields |->
        IF kind.refs[place][i] = "none" THEN Unset ELSE spec[place][i]]]
WithReferences(spec, values) ==
    [place \in Places |-> [i \in Fields |->
        IF kind.refs[place][i] = "none" THEN spec[place][i] ELSE values[place][i]]]

\* All are resolved. Values that are new are written to the object (external:
\* they and nothing else, whoever has written to it), which is then the copy.
Resolved ==
    /\ step = "resolve"
    /\ Unresolved = {}
    /\ IF References(work.spec) = References(object.spec) \/ object.phase = "absent"
       THEN UNCHANGED <<object, work, fresh>>
       ELSE /\ object' = [object EXCEPT !.spec = WithReferences(@, work.spec)]
            /\ work' = [object EXCEPT !.spec = WithReferences(@, work.spec)]
            /\ fresh' = TRUE
    /\ step' = "observe"
    /\ position' = 1
    /\ UNCHANGED <<kind, account, age, faults, edits, lost>>

-----------------------------------------------------------------------------
(***************************************************************************)
(* The rest of the reconcile (external)                                    *)
(***************************************************************************)

\* Mutant of Read: references are resolved also when the resource goes.
ReadResolving ==
    /\ step = "idle"
    /\ object.phase # "absent"
    /\ ~object.pending
    /\ work' = object
    /\ fresh' = TRUE
    /\ step' = IF Referencing # {} THEN "resolve" ELSE "observe"
    /\ UNCHANGED <<kind, object, position, account, age, faults, edits, lost>>

\* Mutant of Read: an announced creation without an outcome stops nothing.
ReadAgain ==
    /\ step = "idle"
    /\ object.phase # "absent"
    /\ work' = object
    /\ fresh' = TRUE
    /\ step' = IF object.phase = "live" /\ Referencing # {} THEN "resolve" ELSE "observe"
    /\ UNCHANGED <<kind, object, position, account, age, faults, edits, lost>>

\* The resource is read. A creation that was announced and has no recorded
\* outcome stops every reconcile.
Read ==
    /\ step = "idle"
    /\ object.phase # "absent"
    /\ ~object.pending
    /\ work' = object
    /\ fresh' = TRUE
    /\ step' = IF object.phase = "live" /\ Referencing # {} THEN "resolve" ELSE "observe"
    /\ UNCHANGED <<kind, object, position, account, age, faults, edits, lost>>

Merged == GetMergedParameters(work.spec, kind.merge)

\* Mutant of State: the item is known by its external name alone.
StateByName == work.ext

\* Connect gives Terraform the external name if it has no state.
State == IF tf = None THEN work.ext ELSE tf

\* What is observed: the item's identifier is the external name, and what the
\* spec leaves out is late-initialized.
Observed ==
    [work EXCEPT !.ext = State, !.fin = TRUE, !.spec = LateInitialize(work.spec, items[State])]

\* No operation is running: what it is doing is awaited before anything else.
Observes(phase) ==
    /\ step = "observe"
    /\ op.run = "none"
    /\ work.phase = phase

Wait ==
    /\ step = "observe"
    /\ op.run # "none"
    /\ Idle
    /\ UNCHANGED <<kind, object, account, age, faults, edits, lost>>

\* The item is not there: its creation is announced.
Announce ==
    /\ Observes("live")
    /\ State \notin Present
    /\ fresh
    /\ object' = [work EXCEPT !.fin = TRUE, !.pending = TRUE]
    /\ work' = [work EXCEPT !.fin = TRUE, !.pending = TRUE]
    /\ step' = "create"
    /\ UNCHANGED <<kind, fresh, position, account, age, faults, edits, lost>>

\* The creation goes on when Create has returned.
Create ==
    /\ step = "create"
    /\ op' = [run |-> "apply", params |-> Merged]
    /\ step' = "created"
    /\ UNCHANGED <<kind, object, work, fresh, position, tf, items, age, faults, edits, lost>>

\* Create is recorded as a success, whatever comes of the operation.
Record ==
    /\ step = "created"
    /\ object' = [object EXCEPT !.pending = FALSE]
    /\ Idle
    /\ UNCHANGED <<kind, account, age, faults, edits, lost>>

\* Mutant of Save: whoever has written to the object meanwhile is overruled.
SaveAnyway ==
    /\ Observes("live")
    /\ State \in Present
    /\ Observed # work
    /\ object.phase = "live"
    /\ object' = Observed
    /\ tf' = State
    /\ Idle
    /\ UNCHANGED <<kind, op, items, age, faults, edits, lost>>

\* The item is there, and what is observed is more than was known: it is saved.
Save ==
    /\ Observes("live")
    /\ State \in Present
    /\ Observed # work
    /\ fresh
    /\ object' = Observed
    /\ tf' = State
    /\ Idle
    /\ UNCHANGED <<kind, op, items, age, faults, edits, lost>>

\* Of the spec, only what spec.forProvider says makes the item outdated.
Outdated == {i \in Fields : work.spec.forProvider[i] # Unset /\ Merged[i] # items[State][i]}

Update ==
    /\ Observes("live")
    /\ State \in Present
    /\ Observed = work
    /\ Outdated # {}
    /\ op' = [run |-> "apply", params |->
                [i \in Fields |-> IF i \in Outdated THEN Merged[i] ELSE items[State][i]]]
    /\ tf' = State
    /\ Idle
    /\ UNCHANGED <<kind, object, items, age, faults, edits, lost>>

UpToDate ==
    /\ Observes("live")
    /\ State \in Present
    /\ Observed = work
    /\ Outdated = {}
    /\ tf' = State
    /\ Idle
    /\ UNCHANGED <<kind, object, op, items, age, faults, edits, lost>>

Delete ==
    /\ Observes("deleting")
    /\ State \in Present
    /\ op' = [run |-> "destroy", params |-> Blank]
    /\ tf' = State
    /\ Idle
    /\ UNCHANGED <<kind, object, items, age, faults, edits, lost>>

\* The resource goes, and Terraform's state with it.
Finalize ==
    /\ Observes("deleting")
    /\ State \notin Present
    /\ fresh
    /\ object' = Absent
    /\ tf' = None
    /\ Idle
    /\ UNCHANGED <<kind, op, items, age, faults, edits, lost>>

\* A write of the whole object is refused if somebody has written to it.
Conflict ==
    /\ step = "observe"
    /\ op.run = "none"
    /\ ~fresh
    /\ State \in Present => work.phase = "live" /\ Observed # work
    /\ Idle
    /\ UNCHANGED <<kind, object, account, age, faults, edits, lost>>

-----------------------------------------------------------------------------
(***************************************************************************)
(* Terraform's operations (external). Their callback writes to the object. *)
(***************************************************************************)
End(run) == op.run = run /\ op' = Idling /\ fresh' = FALSE

\* The account fills in what it is not given.
Made ==
    \E default \in {Unset} \cup Texts :
        items' = Append(items, [i \in Fields |->
                     IF op.params[i] = Unset THEN default ELSE op.params[i]])

\* An item that is there is updated, any other is made.
FinishApply ==
    /\ End("apply")
    /\ \/ tf \in Present /\ items' = [items EXCEPT ![tf] = op.params] /\ UNCHANGED tf
       \/ tf \notin Present /\ Len(items) < MaxItems /\ Made /\ tf' = Len(items) + 1
    /\ UNCHANGED <<kind, object, work, step, position, age, faults, edits, lost>>

FinishDestroy ==
    /\ End("destroy")
    /\ items' = [items EXCEPT ![tf] = Gone]
    /\ UNCHANGED <<kind, object, work, step, position, tf, age, faults, edits, lost>>

Fault == faults < MaxFaults /\ faults' = faults + 1

\* An operation fails.
Fail ==
    /\ Fault
    /\ op.run # "none"
    /\ End(op.run)
    /\ UNCHANGED <<kind, object, work, step, position, tf, items, age, edits, lost>>

\* The item is made, but the answer is lost.
MadeUnknown ==
    /\ Fault
    /\ End("apply")
    /\ tf \notin Present
    /\ Len(items) < MaxItems
    /\ Made
    /\ lost' = TRUE
    /\ UNCHANGED <<kind, object, work, step, position, tf, age, edits>>

\* A call of the reconcile fails, and it ends there.
CallFails ==
    /\ Fault
    /\ step # "idle"
    /\ Idle
    /\ UNCHANGED <<kind, object, account, age, edits, lost>>

\* The provider restarts: its operation ends, and Terraform's state is gone
\* with the workspace. An item whose external name is not saved is forgotten.
Restart ==
    /\ Fault
    /\ op' = Idling
    /\ tf' = None
    /\ Idle
    /\ lost' = (lost \/ (tf \in Present /\ tf # object.ext))
    /\ UNCHANGED <<kind, object, items, age, edits>>

-----------------------------------------------------------------------------
(***************************************************************************)
(* Users, the referenced resources, and others who use the account         *)
(***************************************************************************)
Edit == edits < MaxEdits[kind.size] /\ edits' = edits + 1

\* What users write by hand: no value for a field that has a reference.
Writable(place, i) ==
    IF kind.refs[place][i] # "none" THEN {Unset}
    ELSE IF i \in kind.zeroes THEN Values ELSE Values \ {Zero}
Written ==
    {spec \in [Places -> [Fields -> Values]] :
        \A place \in Places : \A i \in Fields : spec[place][i] \in Writable(place, i)}

Apply ==
    /\ Edit
    /\ object.phase = "absent" /\ step = "idle"
    /\ \E spec \in Written :
          /\ Admitted(spec, kind.required)
          /\ object' = [Absent EXCEPT !.phase = "live", !.spec = spec]
    /\ UNCHANGED <<kind, reconcile, account, age, faults, lost>>

EditSpec ==
    /\ Edit
    /\ object.phase = "live"
    /\ \E place \in Places, i \in Fields :
          /\ kind.refs[place][i] = "none"
          /\ \E value \in Writable(place, i) :
                LET spec == [object.spec EXCEPT ![place][i] = value] IN
                /\ Admitted(spec, kind.required)
                /\ object' = [object EXCEPT !.spec = spec]
    /\ fresh' = FALSE
    /\ UNCHANGED <<kind, work, step, position, account, age, faults, lost>>

RequestDeletion ==
    /\ Edit
    /\ object.phase = "live"
    /\ object' = IF object.fin THEN [object EXCEPT !.phase = "deleting"] ELSE Absent
    /\ fresh' = FALSE
    /\ UNCHANGED <<kind, work, step, position, account, age, faults, lost>>

\* A referenced resource gets its external name, or goes.
ChangeTarget(i) ==
    /\ i \in Referencing
    /\ age[i] + 1 \in Ages
    /\ age' = [age EXCEPT ![i] = @ + 1]
    /\ UNCHANGED <<kind, object, reconcile, account, faults, edits, lost>>

EditItem(u) ==
    /\ Edit
    /\ \E i \in Fields, value \in Texts : items' = [items EXCEPT ![u][i] = value]
    /\ UNCHANGED <<kind, object, reconcile, op, tf, age, faults, lost>>

RemoveItem(u) ==
    /\ Edit
    /\ items' = [items EXCEPT ![u] = Gone]
    /\ UNCHANGED <<kind, object, reconcile, op, tf, age, faults, lost>>

-----------------------------------------------------------------------------
Reconcile ==
    \/ Read \/ Resolve \/ Resolved
    \/ Wait \/ Announce \/ Create \/ Record
    \/ Save \/ Update \/ UpToDate \/ Delete \/ Finalize \/ Conflict

Operate == FinishApply \/ FinishDestroy

Fails == Fail \/ MadeUnknown \/ CallFails \/ Restart

Outside ==
    \/ Apply \/ EditSpec \/ RequestDeletion
    \/ \E i \in Fields : ChangeTarget(i)
    \/ \E u \in Present : EditItem(u) \/ RemoveItem(u)

Next == Reconcile \/ Operate \/ Fails \/ Outside

Spec == Init /\ [][Next]_vars

\* The work queue retries and polls, and operations end.
FairSpec == Spec /\ WF_vars(Reconcile) /\ WF_vars(Operate)

-----------------------------------------------------------------------------
(***************************************************************************)
(* Properties                                                              *)
(***************************************************************************)
Specs == [Places -> [Fields -> Values]]
Object == [phase : {"absent", "live", "deleting"}, fin : BOOLEAN, pending : BOOLEAN,
           ext : 0..MaxItems, spec : Specs]

\* Every variable has its type.
TypeOK ==
    /\ kind \in Kinds
    /\ object \in Object
    /\ work \in Object
    /\ fresh \in BOOLEAN
    /\ step \in {"idle", "resolve", "observe", "create", "created"}
    /\ position \in 1..(2 * kind.size + 1)
    /\ step # "resolve" => position = 1
    /\ op \in [run : {"none", "apply", "destroy"}, params : [Fields -> Values]]
    /\ tf \in 0..MaxItems
    /\ items \in Seq([Fields -> Values] \cup {Gone}) /\ Len(items) <= MaxItems
    /\ age \in [Fields -> Ages]
    /\ faults \in 0..MaxFaults
    /\ edits \in 0..MaxEdits[kind.size]
    /\ lost \in BOOLEAN

\* No item is ever orphaned: whatever is in the account is what Terraform's
\* state or else the external name refers to, so that a resource has one item
\* at most and one that is gone has none, although a creation goes on after it
\* has been recorded as a success, its name is saved only later, and deletion
\* may be requested at any time. Lost answers and lost states are excepted.
NoOrphans ==
    ~lost => \A u \in Present :
        object.phase # "absent" /\ u = (IF tf = None THEN object.ext ELSE tf)

\* The parameters given to Terraform are whole: what the validation rules
\* require and what a reference stands for is there, although a reference may
\* be resolved long after the resource was admitted, and although parameters
\* are merged from two places. Without the merge, only of forProvider.
WholeRequests ==
    op.run = "apply" => \A i \in Fields :
        \/ kind.refs.forProvider[i] # "none"
        \/ kind.merge /\ i \in kind.required
        \/ kind.merge /\ kind.refs.initProvider[i] # "none"
        => op.params[i] # Unset

\* What a user has set is never changed by the provider, however old the copy
\* is that it writes: only a reference with the policy Always follows.
SetValuesStay ==
    [][\A place \in Places : \A i \in Fields :
          /\ edits' = edits
          /\ object.phase # "absent" /\ object'.phase # "absent"
          /\ object.spec[place][i] # Unset
          /\ kind.refs[place][i] # "Always"
          => object'.spec[place][i] = object.spec[place][i]]_vars

\* A creation is abandoned if the reconcile that announced it has ended without
\* recording it. Items are known by Terraform's state, or else by name.
Creation ==
    CASE ~object.pending -> "none"
      [] object.pending /\ step = "create" -> "announced"
      [] object.pending /\ step = "created" -> "begun"
      [] OTHER -> "abandoned"
Known == Present \cap {IF tf = None THEN object.ext ELSE tf}
Saved == Present \cap {object.ext}

Promise == INSTANCE TerraformedPromise WITH
    Items <- 1..MaxItems,
    phase <- object.phase,
    creation <- Creation,
    due <- op.run,
    account <- Present,
    known <- Known,
    saved <- Saved

\* The life of a resource implements TerraformedPromise, although reconciles
\* work on copies, operations outlive them, calls fail, the provider restarts
\* between any two steps, and users and others come between.
PromiseKept == Promise!Spec

Resolvable == \A i \in Referencing : ExternalName(i) # Unset

\* In the end the item of a live resource has the parameters its spec sets, if
\* its references can be resolved and no creation of it is abandoned. Those
\* that are zero may have been replaced from spec.initProvider.
Converges ==
    <>[](object.phase = "live" /\ ~object.pending /\ Resolvable
            => /\ object.ext \in Present
               /\ \A i \in Fields : object.spec.forProvider[i] \in Texts
                      => items[object.ext][i] = object.spec.forProvider[i])

\* In the end a reference with the policy Always has the external name of the
\* resource it stands for, also when that was made anew.
ReferencesFollow ==
    <>[](object.phase = "live" /\ ~object.pending /\ Resolvable
            => \A place \in Places : \A i \in Fields : kind.refs[place][i] = "Always"
                  => object.spec[place][i] = ExternalName(i))

\* In the end a resource being deleted is gone, also when a reference of it
\* cannot be resolved any more, unless its creation is abandoned.
DeletionCompletes == <>[](object.phase = "deleting" => object.pending)

=============================================================================
