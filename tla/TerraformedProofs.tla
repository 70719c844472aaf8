------------------------- MODULE TerraformedProofs -------------------------
(***************************************************************************)
(* What the life of a Terraform-based resource guarantees for any kinds,   *)
(* external names and bounds: its types, that no item is orphaned, that    *)
(* the provider never changes what is set in the spec, and that requests   *)
(* are whole.                                                              *)
(***************************************************************************)
EXTENDS Terraformed, WellFoundedInduction, TLAPS

-----------------------------------------------------------------------------
(***************************************************************************)
(* Lemmas on kinds, parameters and references                              *)
(***************************************************************************)

\* What a kind is made of.
LEMMA KindTypes ==
    ASSUME kind \in Kinds
    PROVE  /\ kind.size \in Nat /\ kind.size >= 1
           /\ kind.refs \in [Places -> [Fields -> ReferencePolicies]]
           /\ MaxEdits[kind.size] \in Nat
BY TerraformedAssumption DEF Fields

\* Merged parameters are parameters.
LEMMA MergedTypes ==
    ASSUME NEW spec \in Specs, NEW merge
    PROVE  GetMergedParameters(spec, merge) \in [Fields -> Values]
<1>1. spec.forProvider \in [Fields -> Values] /\ spec.initProvider \in [Fields -> Values]
  BY DEF Specs, Places
<1> QED
  BY <1>1 DEF GetMergedParameters

\* Late initialization makes a specification of one.
LEMMA LateInitializeTypes ==
    ASSUME NEW spec \in Specs, NEW observed \in [Fields -> Values]
    PROVE  LateInitialize(spec, observed) \in Specs
<1>1. spec.forProvider \in [Fields -> Values]
  BY DEF Specs, Places
<1>2. [i \in DOMAIN observed |->
           IF spec.forProvider[i] = Unset /\ observed[i] # Zero
           THEN observed[i] ELSE spec.forProvider[i]] \in [Fields -> Values]
  BY <1>1
<1> QED
  BY <1>2 DEF LateInitialize, Specs, Places

\* A referenced resource has an external name or none.
LEMMA ExternalNameTypes ==
    ASSUME age \in [Fields -> Ages], NEW i \in Fields
    PROVE  ExternalName(i) \in Values
<1> DEFINE n == Len(ExternalNames)
<1>1. n \in Nat /\ ExternalNames \in Seq(Texts)
  BY TerraformedAssumption
<1>2. CASE age[i] % 2 = 1
  <2>1. age[i] \in 0..(2 * n - 1)
    BY DEF Ages
  <2>2. age[i] \div 2 + 1 \in 1..n
    BY <1>1, <2>1
  <2>3. ExternalNames[age[i] \div 2 + 1] \in Texts
    BY <1>1, <2>2
  <2> QED
    BY <1>2, <2>3 DEF ExternalName, Values
<1>3. CASE age[i] % 2 # 1
  BY <1>3 DEF ExternalName, Values
<1> QED
  BY <1>2, <1>3

\* The reference that is next is one.
LEMMA NextReferenceTypes ==
    ASSUME kind \in Kinds, Unresolved # {}
    PROVE  /\ NextReference \in Positions
           /\ NextReference + 1 \in 1..(2 * kind.size + 1)
           /\ NextReference \in Unresolved
           /\ \A q \in Unresolved : NextReference <= q
           /\ Place(NextReference) \in Places
           /\ Field(NextReference) \in Fields
<1>1. kind.size \in Nat
  BY KindTypes
<1>2. Unresolved \subseteq Positions /\ Positions \subseteq Nat
  BY <1>1 DEF Unresolved, Positions
<1> DEFINE Less == OpToRel(<, Nat)
<1>3. \A p, q \in Nat : p < q => <<p, q>> \in Less
  BY DEF OpToRel
<1>4. IsWellFoundedOn(Less, Nat)
  BY NatLessThanWellFounded
<1> HIDE DEF Less
<1>5. \E p \in Unresolved : \A q \in Unresolved : ~(<<q, p>> \in Less)
  <2>1. Unresolved \subseteq Nat
    BY <1>2
  <2> QED
    BY <1>4, <2>1, WFMin
<1>6. \E p \in Unresolved : \A q \in Unresolved : p <= q
  <2>1. PICK p \in Unresolved : \A q \in Unresolved : ~(<<q, p>> \in Less)
    BY <1>5
  <2>2. ASSUME NEW q \in Unresolved
        PROVE  p <= q
    <3>1. p \in Nat /\ q \in Nat
      BY <1>2
    <3>2. ~(q < p)
      BY <1>3, <2>1, <3>1
    <3> QED
      BY <3>1, <3>2
  <2> QED
    BY <2>2
<1>7. NextReference \in Unresolved /\ \A q \in Unresolved : NextReference <= q
  BY <1>6 DEF NextReference
<1> QED
  BY <1>1, <1>2, <1>7 DEF Positions, Place, Field, Fields, Places

-----------------------------------------------------------------------------
(***************************************************************************)
(* Types                                                                   *)
(***************************************************************************)

\* The sets that depend on the kind stay what they are.
LEMMA SameKind ==
    ASSUME kind' = kind
    PROVE  /\ Fields' = Fields /\ Specs' = Specs /\ Object' = Object
           /\ Blank' = Blank /\ Absent' = Absent /\ Idling' = Idling
BY DEF Fields, Specs, Object, Blank, BlankSpec, Absent, Idling

LEMMA StartTypes ==
    /\ Blank \in [Fields -> Values] /\ BlankSpec \in Specs
    /\ Absent \in Object
    /\ Idling \in [run : {"none", "apply", "destroy"}, params : [Fields -> Values]]
<1>1. Blank \in [Fields -> Values] /\ BlankSpec \in Specs
  BY DEF Blank, BlankSpec, Values, Specs
<1> QED
  BY <1>1, TerraformedAssumption DEF Absent, Object, Idling, None

\* What Idle leaves is typed.
LEMMA IdleTypes ==
    ASSUME Idle, kind' = kind, kind \in Kinds
    PROVE  /\ work' \in Object /\ fresh' \in BOOLEAN /\ step' = "idle"
           /\ position' = 1 /\ position' \in 1..(2 * kind.size + 1)
<1>1. step' = "idle" /\ work' = Absent /\ fresh' = FALSE /\ position' = 1
  BY DEF Idle
<1>2. kind.size \in Nat
  BY KindTypes
<1>3. 1 \in 1..(2 * kind.size + 1)
  BY <1>2
<1>4. Absent \in Object
  BY StartTypes
<1> QED
  BY <1>1, <1>3, <1>4, Zenon

\* An item of a sequence is replaced.
LEMMA ItemReplaced ==
    ASSUME NEW S, NEW s \in Seq(S), NEW u \in 1..Len(s), NEW x \in S
    PROVE  [s EXCEPT ![u] = x] \in Seq(S) /\ Len([s EXCEPT ![u] = x]) = Len(s)
OBVIOUS

\* An item that is there has parameters.
LEMMA PresentTypes ==
    ASSUME TypeOK, NEW u \in Present
    PROVE  /\ items[u] \in [Fields -> Values]
           /\ u \in 1..Len(items) /\ u \in 0..MaxItems /\ u # None
<1>1. /\ u \in 1..Len(items) /\ Len(items) \in Nat /\ Len(items) <= MaxItems
      /\ items[u] \in [Fields -> Values] \cup {Gone} /\ items[u] # Gone
  BY DEF TypeOK, Present
<1> QED
  BY <1>1, TerraformedAssumption DEF None

\* What is observed of an item that is there is a resource.
LEMMA ObservedTypes ==
    ASSUME TypeOK, State \in Present
    PROVE  Observed \in Object
<1>1. work.spec \in Specs
  BY DEF TypeOK, Object
<1>2. items[State] \in [Fields -> Values] /\ State \in 0..MaxItems
  BY PresentTypes
<1>3. LateInitialize(work.spec, items[State]) \in Specs
  BY <1>1, <1>2, LateInitializeTypes
<1> QED
  BY <1>2, <1>3 DEF TypeOK, Observed, Object

\* Setting one value of a specification.
LEMMA SetTypes ==
    ASSUME NEW o \in Object, NEW place \in Places, NEW i \in Fields, NEW value \in Values
    PROVE  [o EXCEPT !.spec[place][i] = value] \in Object
<1>1. o.spec \in [Places -> [Fields -> Values]]
  BY DEF Object, Specs
<1>2. [o.spec EXCEPT ![place][i] = value] \in Specs
  BY <1>1 DEF Specs
<1> QED
  BY <1>2 DEF Object

\* The values of references are put into a specification.
LEMMA WithReferencesTypes ==
    ASSUME NEW spec \in Specs, NEW values \in Specs
    PROVE  WithReferences(spec, values) \in Specs
BY DEF WithReferences, Specs

\* The types are inductive.
LEMMA TypeStep == TypeOK /\ [Next]_vars => TypeOK'
<1> SUFFICES ASSUME TypeOK, [Next]_vars PROVE TypeOK'
  OBVIOUS
<1>0. /\ kind \in Kinds /\ object \in Object /\ work \in Object
      /\ object.spec \in Specs /\ work.spec \in Specs
      /\ Len(items) \in Nat /\ MaxItems \in Nat /\ MaxFaults \in Nat
      /\ kind.size \in Nat /\ MaxEdits[kind.size] \in Nat
  BY KindTypes, TerraformedAssumption DEF TypeOK, Object
<1>1. CASE Read
  BY <1>1, <1>0, KindTypes, SameKind DEF TypeOK, Read, account
<1>2. CASE Resolve
  <2>1. CASE Idle
    BY <1>0, <1>2, <2>1, IdleTypes, SameKind DEF TypeOK, Resolve, account
  <2>2. CASE SetReference(NextReference)
    <3>1. NextReference + 1 \in 1..(2 * kind.size + 1)
      BY <1>0, <1>2, NextReferenceTypes DEF Resolve
    <3>2. work' \in Object
      BY <1>0, <1>2, <2>2, NextReferenceTypes, ExternalNameTypes, SetTypes
         DEF Resolve, SetReference, TypeOK
    <3> QED
      BY <1>0, <1>2, <2>2, <3>1, <3>2, SameKind DEF TypeOK, Resolve, SetReference, account
  <2> QED
    BY <1>2, <2>1, <2>2 DEF Resolve
<1>3. CASE Resolved
  <2>1. WithReferences(object.spec, work.spec) \in Specs
    BY <1>0, WithReferencesTypes
  <2>2. [object EXCEPT !.spec = WithReferences(@, work.spec)] \in Object
    BY <1>0, <2>1 DEF Object
  <2>3. object' \in Object /\ work' \in Object /\ fresh' \in BOOLEAN
    BY <1>0, <1>3, <2>2 DEF Resolved, TypeOK
  <2> QED
    BY <1>0, <1>3, <2>3, KindTypes, SameKind DEF TypeOK, Resolved, account
<1>4. CASE Wait
  BY <1>4, <1>0, IdleTypes, SameKind DEF TypeOK, Wait, account
<1>5. CASE Announce
  <2>1. [work EXCEPT !.fin = TRUE, !.pending = TRUE] \in Object
    BY <1>0 DEF Object
  <2> QED
    BY <1>5, <2>1, <1>0, SameKind DEF TypeOK, Announce, Observes, account
<1>6. CASE Create
  <2>1. Merged \in [Fields -> Values]
    BY <1>0, MergedTypes DEF Merged
  <2> QED
    BY <1>6, <2>1, <1>0, SameKind DEF TypeOK, Create
<1>7. CASE Record
  <2>1. [object EXCEPT !.pending = FALSE] \in Object
    BY <1>0 DEF Object
  <2> QED
    BY <1>7, <2>1, <1>0, IdleTypes, SameKind DEF TypeOK, Record, account
<1>8. CASE Save
  BY <1>8, <1>0, ObservedTypes, PresentTypes, IdleTypes, SameKind DEF TypeOK, Save
<1>9. CASE Update
  <2>1. Merged \in [Fields -> Values]
    BY <1>0, MergedTypes DEF Merged
  <2>2. items[State] \in [Fields -> Values] /\ State \in 0..MaxItems
    BY <1>9, PresentTypes DEF Update
  <2>3. [i \in Fields |-> IF i \in Outdated THEN Merged[i] ELSE items[State][i]] \in [Fields -> Values]
    BY <2>1, <2>2
  <2> QED
    BY <1>9, <2>2, <2>3, <1>0, IdleTypes, SameKind DEF TypeOK, Update
<1>10. CASE UpToDate
  BY <1>10, <1>0, PresentTypes, IdleTypes, SameKind DEF TypeOK, UpToDate
<1>11. CASE Delete
  BY <1>11, <1>0, StartTypes, PresentTypes, IdleTypes, SameKind DEF TypeOK, Delete
<1>12. CASE Finalize
  BY <1>12, <1>0, StartTypes, IdleTypes, SameKind DEF TypeOK, Finalize, None
<1>13. CASE Conflict
  BY <1>13, <1>0, IdleTypes, SameKind DEF TypeOK, Conflict, account
<1>14. ASSUME Made, Len(items) < MaxItems, op \in [run : {"none", "apply", "destroy"}, params : [Fields -> Values]]
       PROVE  items' \in Seq([Fields -> Values] \cup {Gone}) /\ Len(items') = Len(items) + 1
  <2>1. PICK default \in {Unset} \cup Texts :
          items' = Append(items, [i \in Fields |->
                     IF op.params[i] = Unset THEN default ELSE op.params[i]])
    BY <1>14 DEF Made
  <2>2. default \in Values /\ op.params \in [Fields -> Values]
    BY <1>14 DEF Values
  <2>3. [i \in Fields |-> IF op.params[i] = Unset THEN default ELSE op.params[i]] \in [Fields -> Values]
    BY <2>2
  <2> QED
    BY <2>1, <2>3 DEF TypeOK
<1>15. CASE FinishApply
  <2>1. CASE tf \in Present /\ items' = [items EXCEPT ![tf] = op.params] /\ UNCHANGED tf
    <3>1. op.params \in [Fields -> Values]
      BY DEF TypeOK
    <3>2. items' \in Seq([Fields -> Values] \cup {Gone}) /\ Len(items') = Len(items)
      BY <2>1, <3>1, PresentTypes, ItemReplaced DEF TypeOK
    <3> QED
      BY <1>15, <2>1, <3>2, <1>0, StartTypes, SameKind DEF TypeOK, FinishApply, End
  <2>2. CASE tf \notin Present /\ Len(items) < MaxItems /\ Made /\ tf' = Len(items) + 1
    <3>1. items' \in Seq([Fields -> Values] \cup {Gone}) /\ Len(items') = Len(items) + 1
      BY <1>14, <2>2 DEF TypeOK
    <3>2. tf' \in 0..MaxItems /\ Len(items') <= MaxItems
      BY <1>0, <2>2, <3>1
    <3> QED
      BY <1>15, <2>2, <3>1, <3>2, <1>0, StartTypes, SameKind DEF TypeOK, FinishApply, End
  <2> QED
    BY <1>15, <2>1, <2>2 DEF FinishApply
<1>16. CASE FinishDestroy
  <2>0. items' = [items EXCEPT ![tf] = Gone]
    BY <1>16 DEF FinishDestroy
  <2>1. items' \in Seq([Fields -> Values] \cup {Gone}) /\ Len(items') = Len(items)
    <3>1. CASE tf \in 1..Len(items)
      BY <2>0, <3>1, ItemReplaced DEF TypeOK
    <3>2. CASE tf \notin 1..Len(items)
      <4>1. items = [u \in 1..Len(items) |-> items[u]] /\ DOMAIN items = 1..Len(items)
        BY DEF TypeOK
      <4>2. items' = items
        BY <2>0, <3>2, <4>1
      <4> QED
        BY <4>2 DEF TypeOK
    <3> QED
      BY <3>1, <3>2
  <2> QED
    BY <1>16, <2>1, <1>0, StartTypes, SameKind DEF TypeOK, FinishDestroy, End
<1>17. ASSUME Fault
       PROVE  faults' \in 0..MaxFaults
  BY <1>0, <1>17 DEF Fault, TypeOK
<1>18. CASE Fail
  BY <1>17, <1>18, <1>0, StartTypes, SameKind DEF TypeOK, Fail, End
<1>19. CASE MadeUnknown
  <2>0. Made /\ Len(items) < MaxItems
    BY <1>19 DEF MadeUnknown
  <2>1. items' \in Seq([Fields -> Values] \cup {Gone}) /\ Len(items') = Len(items) + 1
    BY <1>14, <2>0 DEF TypeOK
  <2>2. Len(items') <= MaxItems
    BY <1>0, <2>0, <2>1
  <2> QED
    BY <1>17, <1>19, <2>1, <2>2, <1>0, StartTypes, SameKind DEF TypeOK, MadeUnknown, End
<1>20. CASE CallFails
  BY <1>17, <1>20, <1>0, IdleTypes, SameKind DEF TypeOK, CallFails, account
<1>21. CASE Restart
  BY <1>17, <1>21, <1>0, StartTypes, IdleTypes, SameKind DEF TypeOK, Restart, None
<1>22. ASSUME Edit
       PROVE  edits' \in 0..MaxEdits[kind.size]
  BY <1>0, <1>22 DEF Edit, TypeOK
<1>23. CASE Apply
  <2>1. PICK spec \in Written : object' = [Absent EXCEPT !.phase = "live", !.spec = spec]
    BY <1>23 DEF Apply
  <2>2. spec \in Specs
    BY <2>1 DEF Written, Specs
  <2>3. object' \in Object
    BY <2>1, <2>2, StartTypes DEF Object
  <2> QED
    BY <1>22, <1>23, <2>3, <1>0, SameKind DEF TypeOK, Apply, reconcile, account
<1>24. CASE EditSpec
  <2>1. PICK place \in Places, i \in Fields :
          \E value \in Writable(place, i) :
              object' = [object EXCEPT !.spec = [object.spec EXCEPT ![place][i] = value]]
    BY <1>24 DEF EditSpec
  <2>2. PICK value \in Writable(place, i) :
          object' = [object EXCEPT !.spec = [object.spec EXCEPT ![place][i] = value]]
    BY <2>1
  <2>3. value \in Values
    BY <2>2 DEF Writable, Values
  <2>4. [object.spec EXCEPT ![place][i] = value] \in Specs
    BY <1>0, <2>3 DEF Specs
  <2>5. object' \in Object
    BY <1>0, <2>2, <2>4 DEF Object
  <2> QED
    BY <1>22, <1>24, <2>5, <1>0, SameKind DEF TypeOK, EditSpec, account
<1>25. CASE RequestDeletion
  <2>1. [object EXCEPT !.phase = "deleting"] \in Object
    BY <1>0 DEF Object
  <2>2. object' \in Object
    BY <1>25, <2>1, StartTypes DEF RequestDeletion
  <2> QED
    BY <1>22, <1>25, <2>2, <1>0, SameKind DEF TypeOK, RequestDeletion, account
<1>26. ASSUME NEW i \in Fields, ChangeTarget(i)
       PROVE  TypeOK'
  BY <1>26, <1>0, SameKind DEF TypeOK, ChangeTarget, reconcile, account
<1>27. ASSUME NEW u \in Present, EditItem(u)
       PROVE  TypeOK'
  <2>1. PICK i \in Fields, value \in Texts : items' = [items EXCEPT ![u][i] = value]
    BY <1>27 DEF EditItem
  <2>2. [items[u] EXCEPT ![i] = value] \in [Fields -> Values]
    BY PresentTypes DEF Values
  <2>3. items' = [items EXCEPT ![u] = [items[u] EXCEPT ![i] = value]]
    BY <2>1
  <2>4. items' \in Seq([Fields -> Values] \cup {Gone}) /\ Len(items') = Len(items)
    BY <2>2, <2>3, PresentTypes, ItemReplaced DEF TypeOK
  <2> QED
    BY <1>22, <1>27, <2>4, <1>0, SameKind DEF TypeOK, EditItem, reconcile
<1>28. ASSUME NEW u \in Present, RemoveItem(u)
       PROVE  TypeOK'
  <2>1. items' \in Seq([Fields -> Values] \cup {Gone}) /\ Len(items') = Len(items)
    BY <1>28, PresentTypes, ItemReplaced DEF TypeOK, RemoveItem
  <2> QED
    BY <1>22, <1>28, <2>1, <1>0, SameKind DEF TypeOK, RemoveItem, reconcile
<1>29. CASE UNCHANGED vars
  BY <1>29, SameKind DEF TypeOK, vars, reconcile, account
<1> QED
  BY <1>1, <1>2, <1>3, <1>4, <1>5, <1>6, <1>7, <1>8, <1>9, <1>10, <1>11, <1>12, <1>13,
     <1>15, <1>16, <1>18, <1>19, <1>20, <1>21, <1>23, <1>24, <1>25, <1>26, <1>27, <1>28, <1>29
  DEF Next, Reconcile, Operate, Fails, Outside

-----------------------------------------------------------------------------
(***************************************************************************)
(* No item is orphaned                                                     *)
(***************************************************************************)

\* What ties an item to the resource at every step: the copy has the object's
\* external name, a resource without a finalizer has nothing anywhere, and
\* an apply that would make an item finds none in the object's name.
Bookkeeping ==
    /\ object.ext \in 0..Len(items) /\ tf \in 0..Len(items)
    /\ step # "idle" => work.ext = object.ext /\ work.fin = object.fin
    /\ ~object.fin => /\ object.ext = None /\ tf = None
                      /\ op.run = "none" /\ step \notin {"create", "created"}
    /\ object.phase = "absent" => ~object.fin
    /\ tf = None /\ (step = "create" \/ op.run = "apply") => object.ext \notin Present

\* Items that stay, change or go.
LEMMA NoItemMade ==
    ASSUME TypeOK, Bookkeeping, NoOrphans, Present' \subseteq Present,
           Len(items') = Len(items), tf' = tf, lost' = lost,
           object'.ext = object.ext, object'.fin = object.fin,
           object'.phase # "absent" \/ (object'.phase = "absent" /\ object.phase = "absent"),
           step' # "idle" => work'.ext = object.ext /\ work'.fin = object.fin,
           ~object.fin => op'.run = "none" /\ step' \notin {"create", "created"},
           step' = "create" \/ op'.run = "apply" => step = "create" \/ op.run = "apply"
    PROVE  Bookkeeping' /\ NoOrphans'
BY DEF Bookkeeping, NoOrphans

LEMMA BookkeepingStep ==
    TypeOK /\ Bookkeeping /\ NoOrphans /\ [Next]_vars => Bookkeeping' /\ NoOrphans'
<1> SUFFICES ASSUME TypeOK, Bookkeeping, NoOrphans, [Next]_vars
             PROVE  Bookkeeping' /\ NoOrphans'
  OBVIOUS
<1>0. /\ object \in Object /\ work \in Object
      /\ op \in [run : {"none", "apply", "destroy"}, params : [Fields -> Values]]
      /\ Len(items) \in Nat /\ DOMAIN items = 1..Len(items)
      /\ Present \subseteq 1..Len(items) /\ None \notin Present
  BY DEF TypeOK, Present, None
<1>1. CASE UNCHANGED vars
  BY <1>1 DEF vars, reconcile, account, Bookkeeping, NoOrphans, Present
<1>2. CASE Read
  BY <1>2, <1>0, NoItemMade DEF Read, account, Present, Bookkeeping
<1>3. CASE Resolve
  <2>1. CASE Idle
    BY <1>3, <2>1, <1>0, NoItemMade DEF Resolve, Idle, account, Present, Bookkeeping
  <2>2. CASE SetReference(NextReference)
    <3>1. work'.ext = work.ext /\ work'.fin = work.fin
      BY <1>0, <2>2 DEF SetReference, Object
    <3> QED
      BY <1>3, <2>2, <3>1, <1>0, NoItemMade DEF Resolve, SetReference, account, Present, Bookkeeping
  <2> QED
    BY <1>3, <2>1, <2>2 DEF Resolve
<1>4. CASE Resolved
  <2>1. /\ object'.ext = object.ext /\ object'.fin = object.fin /\ object'.phase = object.phase
        /\ work'.ext = object.ext /\ work'.fin = object.fin
    BY <1>0, <1>4 DEF Resolved, Object, Bookkeeping
  <2> QED
    BY <1>4, <2>1, <1>0, NoItemMade DEF Resolved, account, Present, Bookkeeping
<1>5. CASE Wait
  BY <1>5, <1>0, NoItemMade DEF Wait, Idle, account, Present, Bookkeeping
<1>6. CASE Announce
  <2>1. /\ object'.ext = object.ext /\ object'.fin = TRUE /\ object'.phase = "live"
        /\ work'.ext = object.ext /\ work'.fin = TRUE
    BY <1>0, <1>6 DEF Announce, Observes, Object, Bookkeeping
  <2>2. tf = None => object.ext \notin Present
    BY <1>6 DEF Announce, Observes, State, Bookkeeping
  <2>3. NoOrphans'
    BY <1>6, <2>1 DEF Announce, account, Present, NoOrphans
  <2> QED
    BY <1>6, <2>1, <2>2, <2>3 DEF Announce, account, Present, Bookkeeping
<1>7. CASE Create
  <2>1. op'.run = "apply"
    BY <1>7 DEF Create
  <2> QED
    BY <1>7, <2>1, <1>0 DEF Create, Present, Bookkeeping, NoOrphans
<1>8. CASE Record
  <2>1. /\ object'.ext = object.ext /\ object'.fin = object.fin /\ object'.phase = object.phase
    BY <1>0, <1>8 DEF Record, Object
  <2> QED
    BY <1>8, <2>1, <1>0, NoItemMade DEF Record, Idle, account, Present, Bookkeeping
<1>9. ASSUME State \in Present, step = "observe"
      PROVE  /\ State \in 1..Len(items) /\ State # None
             /\ State = (IF tf = None THEN object.ext ELSE tf)
             /\ object.fin /\ object.phase # "absent"
  BY <1>0, <1>9 DEF State, Bookkeeping, None
<1>10. CASE Save
  <2>1. /\ object'.ext = State /\ object'.fin = TRUE /\ object'.phase = "live"
    BY <1>0, <1>10 DEF Save, Observes, Observed, Object
  <2>2. NoOrphans'
    BY <1>10, <1>9, <2>1 DEF Save, Observes, Present, NoOrphans
  <2> QED
    BY <1>10, <1>9, <2>1, <2>2, <1>0 DEF Save, Observes, Idle, Present, Bookkeeping
<1>11. CASE Update \/ UpToDate \/ Delete
  <2>1. /\ State \in Present /\ step = "observe" /\ tf' = State
        /\ step' = "idle" /\ UNCHANGED <<object, items, lost>>
    BY <1>11 DEF Update, UpToDate, Delete, Observes, Idle
  <2>2. NoOrphans'
    BY <1>9, <2>1 DEF Present, NoOrphans
  <2> QED
    BY <1>9, <2>1, <2>2 DEF Present, Bookkeeping
<1>12. CASE Finalize
  <2>1. object' = Absent /\ tf' = None /\ step' = "idle" /\ op' = op /\ UNCHANGED <<items, lost>>
    BY <1>12 DEF Finalize, Idle
  <2>2. op.run = "none"
    BY <1>12 DEF Finalize, Observes
  <2>3. ~lost => Present = {}
    BY <1>12 DEF Finalize, Observes, State, Bookkeeping, NoOrphans
  <2> QED
    BY <2>1, <2>2, <2>3, <1>0 DEF Absent, Present, Bookkeeping, NoOrphans, None
<1>13. CASE Conflict
  BY <1>13, <1>0, NoItemMade DEF Conflict, Idle, account, Present, Bookkeeping
<1>14. ASSUME Made
       PROVE  /\ Len(items') = Len(items) + 1
              /\ Present' \subseteq Present \cup {Len(items) + 1}
  <2>1. PICK x : items' = Append(items, x)
    BY <1>14 DEF Made
  <2>2. /\ Len(items') = Len(items) + 1 /\ DOMAIN items' = 1..(Len(items) + 1)
        /\ \A u \in 1..Len(items) : items'[u] = items[u]
    BY <2>1, <1>0 DEF TypeOK
  <2> QED
    BY <2>2, <1>0 DEF Present
<1>15. CASE FinishApply
  <2>1. /\ op.run = "apply" /\ op'.run = "none" /\ object.fin
        /\ UNCHANGED <<object, work, step, lost>>
    BY <1>15 DEF FinishApply, End, Idling, Bookkeeping
  <2>2. CASE tf \in Present /\ items' = [items EXCEPT ![tf] = op.params] /\ UNCHANGED tf
    <3>1. Present' \subseteq Present /\ Len(items') = Len(items)
      BY <2>2, <1>0 DEF Present, TypeOK
    <3> QED
      BY <2>1, <2>2, <3>1, <1>0, NoItemMade DEF Bookkeeping
  <2>3. CASE tf \notin Present /\ Made /\ tf' = Len(items) + 1
    <3>1. ~lost => Present = {}
      BY <2>1, <2>3 DEF Bookkeeping, NoOrphans
    <3>2. ~lost => Present' \subseteq {tf'}
      BY <1>14, <2>3, <3>1
    <3>3. tf' # None /\ Len(items') = Len(items) + 1
      BY <1>0, <1>14, <2>3 DEF None
    <3>4. NoOrphans'
      BY <2>1, <3>2, <3>3 DEF NoOrphans, Bookkeeping
    <3>5. object'.ext \in 0..Len(items') /\ tf' \in 0..Len(items')
      BY <1>0, <2>1, <2>3, <3>3 DEF Bookkeeping
    <3> QED
      BY <2>1, <3>3, <3>4, <3>5 DEF Bookkeeping
  <2> QED
    BY <1>15, <2>2, <2>3 DEF FinishApply
<1>16. CASE FinishDestroy
  <2>1. /\ op'.run = "none" /\ items' = [items EXCEPT ![tf] = Gone]
        /\ UNCHANGED <<object, work, step, tf, lost>>
    BY <1>16 DEF FinishDestroy, End, Idling
  <2>2. Present' \subseteq Present /\ Len(items') = Len(items)
    BY <2>1, <1>0 DEF Present, TypeOK
  <2> QED
    BY <2>1, <2>2, <1>0, NoItemMade DEF Bookkeeping
<1>17. CASE Fail
  BY <1>17, <1>0, NoItemMade DEF Fail, End, Idling, Present, Bookkeeping
<1>18. CASE MadeUnknown
  <2>1. op'.run = "none" /\ lost' = TRUE /\ UNCHANGED <<object, work, step, tf>>
    BY <1>18 DEF MadeUnknown, End, Idling
  <2>2. Len(items') = Len(items) + 1 /\ Present' \subseteq Present \cup {Len(items) + 1}
    BY <1>14, <1>18 DEF MadeUnknown
  <2> QED
    BY <2>1, <2>2, <1>0 DEF Bookkeeping, NoOrphans
<1>19. CASE CallFails
  BY <1>19, <1>0, NoItemMade DEF CallFails, Idle, account, Present, Bookkeeping
<1>20. CASE Restart
  <2>1. /\ op'.run = "none" /\ step' = "idle" /\ tf' = None
        /\ lost' = (lost \/ (tf \in Present /\ tf # object.ext))
        /\ UNCHANGED <<object, items>>
    BY <1>20 DEF Restart, Idle, Idling
  <2>2. NoOrphans'
    BY <2>1 DEF NoOrphans, Present
  <2> QED
    BY <2>1, <2>2, <1>0 DEF Bookkeeping, None
<1>21. CASE Apply
  <2>1. /\ object'.ext = None /\ object'.fin = FALSE /\ object'.phase = "live"
        /\ object.phase = "absent" /\ step = "idle"
    BY <1>21 DEF Apply, Absent
  <2> QED
    BY <1>21, <2>1, <1>0 DEF Apply, reconcile, account, Present, Bookkeeping, NoOrphans
<1>22. CASE EditSpec
  <2>1. object'.ext = object.ext /\ object'.fin = object.fin /\ object'.phase = object.phase
    BY <1>22, <1>0 DEF EditSpec, Object
  <2> QED
    BY <1>22, <2>1, <1>0, NoItemMade DEF EditSpec, account, Present, Bookkeeping
<1>23. CASE RequestDeletion
  <2>1. CASE object.fin
    <3>1. object'.ext = object.ext /\ object'.fin = object.fin /\ object'.phase = "deleting"
      BY <1>23, <2>1, <1>0 DEF RequestDeletion, Object
    <3> QED
      BY <1>23, <3>1, <1>0, NoItemMade DEF RequestDeletion, account, Present, Bookkeeping
  <2>2. CASE ~object.fin
    <3>1. object' = Absent /\ UNCHANGED <<work, step, op, tf, items, lost>>
      BY <1>23, <2>2 DEF RequestDeletion, account
    <3>2. ~lost => Present = {}
      BY <2>2, <1>0 DEF Bookkeeping, NoOrphans
    <3>3. NoOrphans'
      BY <3>1, <3>2 DEF Present, NoOrphans
    <3>4. object'.ext = None /\ object'.fin = FALSE /\ None \in 0..Len(items')
      BY <1>0, <3>1 DEF Absent, None
    <3>5. object.ext = None /\ tf = None /\ op.run = "none" /\ step \notin {"create", "created"}
      BY <2>2 DEF Bookkeeping
    <3>6. step # "idle" => work.ext = None /\ work.fin = object.fin
      BY <3>5 DEF Bookkeeping
    <3>7. object.fin = FALSE
      BY <1>0, <2>2 DEF Object
    <3>8. Bookkeeping'
      BY <3>1, <3>4, <3>5, <3>6, <3>7 DEF Bookkeeping
    <3> QED
      BY <3>3, <3>8
  <2> QED
    BY <2>1, <2>2
<1>24. ASSUME NEW i \in Fields, ChangeTarget(i)
       PROVE  Bookkeeping' /\ NoOrphans'
  BY <1>24 DEF ChangeTarget, reconcile, account, Bookkeeping, NoOrphans, Present
<1>25. ASSUME NEW u \in Present, EditItem(u) \/ RemoveItem(u)
       PROVE  Bookkeeping' /\ NoOrphans'
  <2>1. PICK x : items' = [items EXCEPT ![u] = x]
    BY <1>25 DEF EditItem, RemoveItem
  <2>2. Present' \subseteq Present /\ Len(items') = Len(items)
    BY <2>1, <1>0 DEF Present, TypeOK
  <2> QED
    BY <1>25, <2>2, <1>0, NoItemMade DEF EditItem, RemoveItem, reconcile, Bookkeeping
<1> QED
  BY <1>1, <1>2, <1>3, <1>4, <1>5, <1>6, <1>7, <1>8, <1>10, <1>11, <1>12, <1>13, <1>15, <1>16,
     <1>17, <1>18, <1>19, <1>20, <1>21, <1>22, <1>23, <1>24, <1>25
  DEF Next, Reconcile, Operate, Fails, Outside

-----------------------------------------------------------------------------
(***************************************************************************)
(* What is set stays                                                       *)
(***************************************************************************)

\* The copy has what is set in the object: the values of references that are
\* kept always, what users write as long as nobody has written.
Copied ==
    step # "idle" /\ object.phase # "absent" =>
        \A place \in Places : \A i \in Fields :
            /\ object.spec[place][i] # Unset
            /\ kind.refs[place][i] = "IfNotPresent" \/ (fresh /\ kind.refs[place][i] = "none")
            => work.spec[place][i] = object.spec[place][i]

\* What SetValuesStay says of a step.
SetStays ==
    \A place \in Places : \A i \in Fields :
        /\ edits' = edits
        /\ object.phase # "absent" /\ object'.phase # "absent"
        /\ object.spec[place][i] # Unset
        /\ kind.refs[place][i] # "Always"
        => object'.spec[place][i] = object.spec[place][i]

\* Late initialization sets only what is not set.
LEMMA LateInitializeKeeps ==
    ASSUME NEW spec \in Specs, NEW observed \in [Fields -> Values],
           NEW place \in Places, NEW i \in Fields, spec[place][i] # Unset
    PROVE  LateInitialize(spec, observed)[place][i] = spec[place][i]
<1>1. CASE place = "forProvider"
  BY <1>1 DEF LateInitialize, Specs, Places
<1>2. CASE place = "initProvider"
  BY <1>2 DEF LateInitialize, Specs, Places
<1> QED
  BY <1>1, <1>2 DEF Places

LEMMA CopiedStep == TypeOK /\ Copied /\ [Next]_vars => Copied' /\ SetStays
<1> SUFFICES ASSUME TypeOK, Copied, [Next]_vars
             PROVE  Copied' /\ SetStays
  OBVIOUS
<1>0. /\ kind \in Kinds /\ object \in Object /\ work \in Object
      /\ object.spec \in [Places -> [Fields -> Values]]
      /\ work.spec \in [Places -> [Fields -> Values]]
      /\ kind.refs \in [Places -> [Fields -> ReferencePolicies]]
      /\ edits \in Nat
  BY KindTypes DEF TypeOK, Object, Specs
<1>1. CASE UNCHANGED vars
  BY <1>1 DEF vars, reconcile, SetStays, Copied, Fields
<1>2. CASE Read
  BY <1>2 DEF Read, SetStays, Copied, Fields
<1>3. CASE Resolve
  <2>1. CASE Idle
    BY <1>3, <2>1 DEF Resolve, Idle, SetStays, Copied
  <2>2. CASE SetReference(NextReference)
    <3> DEFINE p == NextReference
    <3>1. p \in Unresolved /\ Place(p) \in Places /\ Field(p) \in Fields
      BY <1>0, <1>3, NextReferenceTypes DEF Resolve
    <3>2. \/ kind.refs[Place(p)][Field(p)] = "Always"
          \/ work.spec[Place(p)][Field(p)] = Unset
      BY <3>1 DEF Unresolved, LooksUp, PolicyAt
    <3>3. /\ step = "resolve" /\ UNCHANGED <<kind, object, fresh, step>>
          /\ work' = [work EXCEPT !.spec[Place(p)][Field(p)] = ExternalName(Field(p))]
      BY <1>3, <2>2 DEF Resolve, SetReference
    <3> HIDE DEF p
    <3>4. ASSUME NEW place \in Places, NEW i \in Fields,
                 kind.refs[place][i] # "Always", work.spec[place][i] # Unset
          PROVE  work'.spec[place][i] = work.spec[place][i]
      <4>1. ~(place = Place(p) /\ i = Field(p))
        BY <3>2, <3>4
      <4>2. work'.spec = [work.spec EXCEPT ![Place(p)][Field(p)] = ExternalName(Field(p))]
        BY <1>0, <3>3 DEF Object
      <4> QED
        BY <1>0, <3>1, <4>1, <4>2
    <3>5. Copied'
      BY <3>3, <3>4 DEF Copied, Fields
    <3> QED
      BY <3>3, <3>5 DEF SetStays
  <2> QED
    BY <1>3, <2>1, <2>2 DEF Resolve
<1>4. CASE Resolved
  <2>1. CASE UNCHANGED <<object, work, fresh>>
    BY <1>4, <2>1 DEF Resolved, Copied, SetStays, Fields
  <2>2. CASE /\ object.phase # "absent"
             /\ object' = [object EXCEPT !.spec = WithReferences(@, work.spec)]
             /\ work' = [object EXCEPT !.spec = WithReferences(@, work.spec)]
    <3>1. object'.spec = WithReferences(object.spec, work.spec) /\ work'.spec = object'.spec
      BY <1>0, <2>2 DEF Object
    <3>2. SetStays
      <4> SUFFICES ASSUME NEW place \in Places, NEW i \in Fields,
                          object.spec[place][i] # Unset, kind.refs[place][i] # "Always"
                   PROVE  object'.spec[place][i] = object.spec[place][i]
        BY DEF SetStays
      <4>1. CASE kind.refs[place][i] = "none"
        BY <3>1, <4>1 DEF WithReferences
      <4>2. CASE kind.refs[place][i] = "IfNotPresent"
        BY <1>4, <2>2, <3>1, <4>2 DEF WithReferences, Resolved, Copied
      <4> QED
        BY <1>0, <4>1, <4>2 DEF ReferencePolicies
    <3> QED
      BY <3>1, <3>2 DEF Copied
  <2> QED
    BY <1>4, <2>1, <2>2 DEF Resolved
<1>5. CASE Wait
  BY <1>5 DEF Wait, Idle, SetStays, Copied
<1>6. CASE Announce
  <2>1. object' = work' /\ object'.spec = work.spec /\ UNCHANGED kind
    BY <1>6, <1>0 DEF Announce, Object
  <2>2. step # "idle" /\ fresh
    BY <1>6 DEF Announce, Observes
  <2>3. SetStays
    BY <1>0, <2>1, <2>2 DEF SetStays, Copied, ReferencePolicies
  <2> QED
    BY <2>1, <2>3 DEF Copied
<1>7. CASE Create
  BY <1>7 DEF Create, SetStays, Copied, Fields
<1>8. CASE Record
  <2>1. object'.spec = object.spec
    BY <1>8, <1>0 DEF Record, Object
  <2> QED
    BY <1>8, <2>1 DEF Record, Idle, SetStays, Copied
<1>9. CASE Save
  <2>1. State \in Present /\ items[State] \in [Fields -> Values]
    BY <1>9, PresentTypes DEF Save
  <2>2. object'.spec = LateInitialize(work.spec, items[State])
    BY <1>9, <1>0 DEF Save, Observed, Object
  <2>3. step # "idle" /\ fresh /\ step' = "idle"
    BY <1>9 DEF Save, Observes, Idle
  <2>4. SetStays
    <3> SUFFICES ASSUME NEW place \in Places, NEW i \in Fields, object.phase # "absent",
                        object.spec[place][i] # Unset, kind.refs[place][i] # "Always"
                 PROVE  object'.spec[place][i] = object.spec[place][i]
      BY DEF SetStays
    <3>1. work.spec[place][i] = object.spec[place][i]
      BY <1>0, <2>3 DEF Copied, ReferencePolicies
    <3> QED
      BY <1>0, <2>1, <2>2, <3>1, LateInitializeKeeps DEF Specs
  <2> QED
    BY <2>3, <2>4 DEF Copied
<1>10. CASE Update \/ UpToDate \/ Delete
  BY <1>10 DEF Update, UpToDate, Delete, Idle, SetStays, Copied
<1>11. CASE Finalize
  BY <1>11 DEF Finalize, Idle, Absent, SetStays, Copied
<1>12. CASE Conflict
  BY <1>12 DEF Conflict, Idle, SetStays, Copied
<1>13. CASE FinishApply \/ FinishDestroy \/ Fail \/ MadeUnknown
  <2>1. UNCHANGED <<kind, object, work, step>> /\ fresh' = FALSE
    BY <1>13 DEF FinishApply, FinishDestroy, Fail, MadeUnknown, End
  <2> QED
    BY <2>1 DEF Copied, SetStays, Fields
<1>14. CASE CallFails \/ Restart
  BY <1>14 DEF CallFails, Restart, Idle, SetStays, Copied
<1>15. CASE Apply
  BY <1>15 DEF Apply, reconcile, SetStays, Copied
<1>16. CASE EditSpec
  <2>1. edits' # edits
    BY <1>0, <1>16 DEF EditSpec, Edit
  <2>2. PICK place \in Places, i \in Fields :
          /\ kind.refs[place][i] = "none"
          /\ \E value : object' = [object EXCEPT !.spec = [object.spec EXCEPT ![place][i] = value]]
    BY <1>16 DEF EditSpec
  <2>3. PICK value : object' = [object EXCEPT !.spec = [object.spec EXCEPT ![place][i] = value]]
    BY <2>2
  <2>4. object'.spec = [object.spec EXCEPT ![place][i] = value] /\ object'.phase = object.phase
    BY <1>0, <2>3 DEF Object
  <2>5. \A q \in Places : \A j \in Fields :
          kind.refs[q][j] = "IfNotPresent" => object'.spec[q][j] = object.spec[q][j]
    BY <1>0, <2>2, <2>4
  <2>6. UNCHANGED <<kind, work, step>> /\ fresh' = FALSE
    BY <1>16 DEF EditSpec
  <2> QED
    BY <2>1, <2>4, <2>5, <2>6 DEF Copied, SetStays, Fields
<1>17. CASE RequestDeletion
  <2>1. object'.phase = "absent" \/ (object'.spec = object.spec /\ object.phase # "absent")
    BY <1>17, <1>0 DEF RequestDeletion, Object, Absent
  <2>2. UNCHANGED <<kind, work, step>> /\ fresh' = FALSE
    BY <1>17 DEF RequestDeletion
  <2> QED
    BY <2>1, <2>2 DEF Copied, SetStays, Fields
<1>18. ASSUME NEW i \in Fields, ChangeTarget(i)
       PROVE  Copied' /\ SetStays
  BY <1>18 DEF ChangeTarget, reconcile, Copied, SetStays, Fields
<1>19. ASSUME NEW u \in Present, EditItem(u) \/ RemoveItem(u)
       PROVE  Copied' /\ SetStays
  BY <1>19 DEF EditItem, RemoveItem, reconcile, Copied, SetStays, Fields
<1> QED
  BY <1>1, <1>2, <1>3, <1>4, <1>5, <1>6, <1>7, <1>8, <1>9, <1>10, <1>11, <1>12, <1>13, <1>14,
     <1>15, <1>16, <1>17, <1>18, <1>19
  DEF Next, Reconcile, Operate, Fails, Outside

-----------------------------------------------------------------------------
(***************************************************************************)
(* Requests are whole                                                      *)
(***************************************************************************)

\* What WholeRequests says of a field.
Needed(i) ==
    \/ kind.refs.forProvider[i] # "none"
    \/ kind.merge /\ i \in kind.required
    \/ kind.merge /\ kind.refs.initProvider[i] # "none"

AllResolved(spec) ==
    \A place \in Places : \A i \in Fields :
        kind.refs[place][i] # "none" => spec[place][i] # Unset

\* The references before the position are resolved, and what is resolved and
\* admitted stays so until it is in an operation, and then in an item.
CopyWhole ==
    /\ step # "idle" => Admitted(work.spec, kind.required)
    /\ step = "resolve" => \A q \in Positions :
          q < position /\ PolicyAt(q) # "none" => work.spec[Place(q)][Field(q)] # Unset
    /\ step = "create" \/ (step = "observe" /\ work.phase = "live") => AllResolved(work.spec)
ObjectWhole == object.phase # "absent" => Admitted(object.spec, kind.required)
OperationWhole == op.run = "apply" => \A i \in Fields : Needed(i) => op.params[i] # Unset
ItemsWhole == \A u \in Present : \A i \in Fields : Needed(i) => items[u][i] # Unset
Whole == CopyWhole /\ ObjectWhole /\ OperationWhole /\ ItemsWhole

\* The merge of a specification that is resolved and admitted has all it needs.
LEMMA MergedWhole ==
    ASSUME kind \in Kinds, NEW spec \in Specs, Admitted(spec, kind.required), AllResolved(spec)
    PROVE  \A i \in Fields : Needed(i) => GetMergedParameters(spec, kind.merge)[i] # Unset
<1>1. /\ spec.forProvider \in [Fields -> Values] /\ spec.initProvider \in [Fields -> Values]
      /\ Unset # Zero
  BY TerraformedAssumption DEF Specs, Places
<1> SUFFICES ASSUME NEW i \in Fields, Needed(i)
             PROVE  GetMergedParameters(spec, kind.merge)[i] # Unset
  OBVIOUS
<1>2. CASE kind.refs.forProvider[i] # "none"
  BY <1>1, <1>2 DEF AllResolved, GetMergedParameters, Places
<1>3. CASE kind.merge /\ i \in kind.required
  BY <1>1, <1>3 DEF Admitted, GetMergedParameters
<1>4. CASE kind.merge /\ kind.refs.initProvider[i] # "none"
  BY <1>1, <1>4 DEF AllResolved, GetMergedParameters, Places
<1> QED
  BY <1>2, <1>3, <1>4 DEF Needed

\* Late initialization leaves a specification admitted.
LEMMA LateInitializeAdmitted ==
    ASSUME kind \in Kinds, NEW spec \in Specs, Admitted(spec, kind.required),
           NEW observed \in [Fields -> Values]
    PROVE  Admitted(LateInitialize(spec, observed), kind.required)
<1> DEFINE initialized == LateInitialize(spec, observed)
<1>1. \A place \in Places : \A i \in Fields :
          spec[place][i] # Unset => initialized[place][i] = spec[place][i]
  BY LateInitializeKeeps
<1>2. kind.required \subseteq Fields
  BY TerraformedAssumption DEF Fields
<1> HIDE DEF initialized
<1>3. \A i \in kind.required :
          initialized.forProvider[i] # Unset \/ initialized.initProvider[i] # Unset
  BY <1>1, <1>2 DEF Admitted, Places
<1> QED
  BY <1>3 DEF Admitted, initialized

\* Resolved references leave a specification admitted, and resolve it.
LEMMA WithReferencesWhole ==
    ASSUME kind \in Kinds, NEW spec \in Specs, NEW values \in Specs,
           Admitted(spec, kind.required), AllResolved(values)
    PROVE  /\ Admitted(WithReferences(spec, values), kind.required)
           /\ AllResolved(WithReferences(spec, values))
<1>1. kind.required \subseteq Fields
  BY TerraformedAssumption DEF Fields
<1>2. \A place \in Places : \A i \in Fields :
          WithReferences(spec, values)[place][i]
            = IF kind.refs[place][i] = "none" THEN spec[place][i] ELSE values[place][i]
  BY DEF WithReferences
<1>3. \A place \in Places : \A i \in Fields :
          spec[place][i] # Unset => WithReferences(spec, values)[place][i] # Unset
  BY <1>2 DEF AllResolved
<1> QED
  BY <1>1, <1>2, <1>3 DEF Admitted, AllResolved, Places

\* A value that is set leaves a specification admitted.
LEMMA SetAdmitted ==
    ASSUME kind \in Kinds, NEW spec \in Specs, Admitted(spec, kind.required),
           NEW place \in Places, NEW i \in Fields, NEW value, value # Unset
    PROVE  Admitted([spec EXCEPT ![place][i] = value], kind.required)
<1>1. kind.required \subseteq Fields
  BY TerraformedAssumption DEF Fields
<1>2. \A q \in Places : \A j \in Fields :
          [spec EXCEPT ![place][i] = value][q][j]
            = IF q = place /\ j = i THEN value ELSE spec[q][j]
  BY DEF Specs
<1> QED
  BY <1>1, <1>2 DEF Admitted, Places

\* Every reference has its position.
LEMMA EveryPosition ==
    ASSUME kind \in Kinds, NEW place \in Places, NEW i \in Fields
    PROVE  \E q \in Positions : Place(q) = place /\ Field(q) = i
<1>1. kind.size \in Nat /\ i \in 1..kind.size
  BY KindTypes DEF Fields
<1>2. CASE place = "forProvider"
  BY <1>1, <1>2 DEF Positions, Place, Field
<1>3. CASE place = "initProvider"
  <2> DEFINE q == kind.size + i
  <2>1. q \in Positions /\ ~(q <= kind.size) /\ q - kind.size = i
    BY <1>1 DEF Positions
  <2> HIDE DEF q
  <2>2. Place(q) = place /\ Field(q) = i
    BY <1>3, <2>1 DEF Place, Field
  <2> QED
    BY <2>1, <2>2
<1> QED
  BY <1>2, <1>3 DEF Places

\* When no reference is left, all are resolved.
LEMMA NoneIsLeft ==
    ASSUME TypeOK, CopyWhole, step = "resolve", Unresolved = {}
    PROVE  AllResolved(work.spec)
<1> SUFFICES ASSUME NEW place \in Places, NEW i \in Fields, kind.refs[place][i] # "none"
             PROVE  work.spec[place][i] # Unset
  BY DEF AllResolved
<1>1. kind \in Kinds /\ kind.size \in Nat /\ position \in Nat
      /\ kind.refs \in [Places -> [Fields -> ReferencePolicies]]
  BY KindTypes DEF TypeOK
<1>2. PICK q \in Positions : Place(q) = place /\ Field(q) = i
  BY <1>1, EveryPosition
<1>3. q \in Nat /\ PolicyAt(q) \in {"IfNotPresent", "Always"}
  BY <1>1, <1>2 DEF Positions, PolicyAt, ReferencePolicies
<1>4. CASE q < position
  BY <1>2, <1>3, <1>4 DEF CopyWhole
<1>5. CASE q >= position
  <2>1. ~LooksUp(q)
    BY <1>2, <1>5 DEF Unresolved
  <2> QED
    BY <1>2, <1>3, <2>1 DEF LooksUp
<1> QED
  BY <1>1, <1>3, <1>4, <1>5

\* The next reference is resolved: all before the new position are.
LEMMA SetReferenceWhole ==
    ASSUME TypeOK, CopyWhole, step = "resolve", Unresolved # {}, kind' = kind,
           ExternalName(Field(NextReference)) # Unset, SetReference(NextReference)
    PROVE  CopyWhole'
<1> DEFINE p == NextReference
           name == ExternalName(Field(p))
<1>1. /\ kind \in Kinds /\ kind.size \in Nat /\ position \in Nat
      /\ work \in Object /\ work.spec \in Specs
  BY KindTypes DEF TypeOK, Object
<1>2. /\ p \in Positions /\ p \in Unresolved /\ p \in Nat
      /\ Place(p) \in Places /\ Field(p) \in Fields
  BY <1>1, NextReferenceTypes DEF Positions
<1>3. \A q \in Unresolved : p <= q
  BY <1>1, NextReferenceTypes
<1>4. step' = "resolve" /\ position' = p + 1 /\ work'.phase = work.phase
      /\ work'.spec = [work.spec EXCEPT ![Place(p)][Field(p)] = name]
  BY <1>1 DEF SetReference, Object
<1>5. name # Unset
  OBVIOUS
<1> HIDE DEF p, name
<1>6. Admitted(work'.spec, kind.required)
  <2>1. Admitted(work.spec, kind.required)
    BY DEF CopyWhole
  <2>2. Admitted([work.spec EXCEPT ![Place(p)][Field(p)] = name], kind.required)
    BY <1>1, <1>2, <1>5, <2>1, SetAdmitted
  <2> QED
    BY <1>4, <2>2
<1>7. ASSUME NEW q \in Positions, q < p + 1, PolicyAt(q) # "none"
      PROVE  work'.spec[Place(q)][Field(q)] # Unset
  <2>1. /\ q \in Nat /\ Place(q) \in Places /\ Field(q) \in Fields
        /\ kind.refs \in [Places -> [Fields -> ReferencePolicies]]
    BY <1>1, KindTypes DEF Positions, Place, Field, Places, Fields
  <2>2. work'.spec[Place(q)][Field(q)]
          = IF Place(q) = Place(p) /\ Field(q) = Field(p) THEN name
            ELSE work.spec[Place(q)][Field(q)]
    BY <1>1, <1>2, <1>4, <2>1 DEF Specs
  <2>3. CASE q = p
    BY <1>5, <2>2, <2>3
  <2>4. CASE q < position
    <3>1. work.spec[Place(q)][Field(q)] # Unset
      BY <1>7, <2>4 DEF CopyWhole
    <3> QED
      BY <1>5, <2>2, <3>1
  <2>5. CASE q >= position /\ q < p
    <3>1. ~LooksUp(q)
      <4>1. q \notin Unresolved
        BY <1>2, <1>3, <2>1, <2>5
      <4> QED
        BY <2>5, <4>1 DEF Unresolved
    <3>2. PolicyAt(q) \in {"IfNotPresent", "Always"}
      BY <1>7, <2>1 DEF PolicyAt, ReferencePolicies
    <3>3. work.spec[Place(q)][Field(q)] # Unset
      BY <3>1, <3>2 DEF LooksUp
    <3> QED
      BY <1>5, <2>2, <3>3
  <2> QED
    BY <1>1, <1>2, <1>7, <2>1, <2>3, <2>4, <2>5
<1>8. /\ Positions' = Positions
      /\ \A q \in Positions : PolicyAt(q)' = PolicyAt(q) /\ Place(q)' = Place(q) /\ Field(q)' = Field(q)
  BY DEF Positions, PolicyAt, Place, Field
<1> QED
  BY <1>4, <1>6, <1>7, <1>8 DEF CopyWhole

\* Where the kind stays, so does what is needed.
LEMMA SameNeeds ==
    ASSUME kind' = kind
    PROVE  /\ Fields' = Fields /\ kind'.required = kind.required
           /\ \A i \in Fields : Needed(i)' <=> Needed(i)
           /\ \A spec : AllResolved(spec) <=>
                 \A place \in Places : \A i \in Fields' :
                    kind'.refs[place][i] # "none" => spec[place][i] # Unset
BY DEF Fields, Needed, AllResolved

LEMMA WholeStep == TypeOK /\ Whole /\ [Next]_vars => Whole'
<1> SUFFICES ASSUME TypeOK, Whole, [Next]_vars
             PROVE  Whole'
  OBVIOUS
<1>0. /\ kind \in Kinds /\ object \in Object /\ work \in Object
      /\ object.spec \in Specs /\ work.spec \in Specs
      /\ op \in [run : {"none", "apply", "destroy"}, params : [Fields -> Values]]
      /\ CopyWhole /\ ObjectWhole /\ OperationWhole /\ ItemsWhole
  BY DEF TypeOK, Object, Whole
\* What a step that leaves one of the parts alone keeps.
<1>1. ASSUME UNCHANGED <<kind, items>>
      PROVE  ItemsWhole'
  BY <1>0, <1>1 DEF ItemsWhole, Present, Needed, Fields
<1>2. ASSUME kind' = kind, op' = op \/ op'.run # "apply"
      PROVE  OperationWhole'
  BY <1>0, <1>2 DEF OperationWhole, Needed, Fields
<1>3. ASSUME kind' = kind, \/ object'.phase = "absent"
                           \/ object'.phase = object.phase /\ object'.spec = object.spec
      PROVE  ObjectWhole'
  BY <1>0, <1>3 DEF ObjectWhole
<1>4. ASSUME step' = "idle"
      PROVE  CopyWhole'
  BY <1>4 DEF CopyWhole
<1>5. ASSUME UNCHANGED <<kind, work, step, position>>
      PROVE  CopyWhole'
  BY <1>0, <1>5 DEF CopyWhole, AllResolved, Positions, PolicyAt, Place, Field, Fields
<1>6. CASE UNCHANGED vars
  BY <1>1, <1>2, <1>3, <1>5, <1>6 DEF vars, reconcile, account, Whole
<1>7. CASE Read
  <2>1. /\ work' = object /\ object.phase # "absent" /\ step' \in {"resolve", "observe"}
        /\ position = 1 /\ UNCHANGED <<kind, object, position, op, items>>
    BY <1>7 DEF Read, account, TypeOK
  <2>2. step' = "resolve" => \A q \in Positions' : ~(q < position')
    BY <1>0, <2>1, KindTypes DEF Positions
  <2>3. step' = "observe" /\ work'.phase = "live" => AllResolved(work'.spec)
    BY <1>0, <1>7, KindTypes DEF Read, AllResolved, Referencing
  <2>4. CopyWhole'
    BY <1>0, <2>1, <2>2, <2>3 DEF CopyWhole, ObjectWhole, AllResolved, Fields
  <2> QED
    BY <1>1, <1>2, <1>3, <2>1, <2>4 DEF Whole
<1>8. CASE Resolve
  <2>1. step = "resolve" /\ Unresolved # {} /\ UNCHANGED <<kind, object, op, items>>
    BY <1>8 DEF Resolve, account
  <2>2. CASE Idle
    BY <1>1, <1>2, <1>3, <1>4, <2>1, <2>2 DEF Idle, Whole
  <2>3. CASE ExternalName(Field(NextReference)) # Unset /\ SetReference(NextReference)
    BY <1>0, <1>1, <1>2, <1>3, <2>1, <2>3, SetReferenceWhole DEF Whole
  <2> QED
    BY <1>8, <2>2, <2>3 DEF Resolve
<1>9. CASE Resolved
  <2>1. /\ step = "resolve" /\ Unresolved = {} /\ step' = "observe"
        /\ UNCHANGED <<kind, op, items>>
    BY <1>9 DEF Resolved, account
  <2>2. AllResolved(work.spec) /\ Admitted(work.spec, kind.required)
    BY <1>0, <2>1, NoneIsLeft DEF CopyWhole
  <2>3. CASE UNCHANGED <<object, work>>
    <3>1. CopyWhole'
      BY <2>1, <2>2, <2>3 DEF CopyWhole, AllResolved, Fields
    <3> QED
      BY <1>1, <1>2, <1>3, <2>1, <2>3, <3>1 DEF Whole
  <2>4. CASE /\ object.phase # "absent"
             /\ object' = [object EXCEPT !.spec = WithReferences(@, work.spec)]
             /\ work' = [object EXCEPT !.spec = WithReferences(@, work.spec)]
    <3> DEFINE spec == WithReferences(object.spec, work.spec)
    <3>1. object'.spec = spec /\ work'.spec = spec
      BY <1>0, <2>4 DEF Object
    <3>2. Admitted(spec, kind.required) /\ AllResolved(spec)
      BY <1>0, <2>2, <2>4, WithReferencesWhole DEF ObjectWhole
    <3> HIDE DEF spec
    <3>3. CopyWhole' /\ ObjectWhole'
      BY <2>1, <3>1, <3>2 DEF CopyWhole, ObjectWhole, AllResolved, Fields
    <3> QED
      BY <1>1, <1>2, <2>1, <3>3 DEF Whole
  <2> QED
    BY <1>9, <2>3, <2>4 DEF Resolved
<1>10. CASE Wait \/ UpToDate \/ Conflict \/ CallFails
  <2>1. step' = "idle" /\ UNCHANGED <<kind, object, op, items>>
    BY <1>10 DEF Wait, UpToDate, Conflict, CallFails, Idle, account
  <2> QED
    BY <1>1, <1>2, <1>3, <1>4, <2>1 DEF Whole
<1>11. CASE Announce
  <2>1. /\ step = "observe" /\ work.phase = "live" /\ step' = "create"
        /\ UNCHANGED <<kind, op, items>>
    BY <1>11 DEF Announce, Observes, account
  <2>2. object'.spec = work.spec /\ work'.spec = work.spec
    BY <1>0, <1>11 DEF Announce, Object
  <2>3. CopyWhole' /\ ObjectWhole'
    BY <1>0, <2>1, <2>2 DEF CopyWhole, ObjectWhole, AllResolved, Fields
  <2> QED
    BY <1>1, <1>2, <2>1, <2>3 DEF Whole
<1>12. CASE Create
  <2>1. /\ step = "create" /\ step' = "created" /\ op' = [run |-> "apply", params |-> Merged]
        /\ UNCHANGED <<kind, object, work, items>>
    BY <1>12 DEF Create
  <2>2. \A i \in Fields : Needed(i) => Merged[i] # Unset
    BY <1>0, <2>1, MergedWhole DEF CopyWhole, Merged
  <2>3. op'.params = Merged
    BY <2>1
  <2>4. OperationWhole'
    BY <2>1, <2>2, <2>3, SameNeeds DEF OperationWhole
  <2>5. CopyWhole'
    BY <1>0, <2>1 DEF CopyWhole
  <2> QED
    BY <1>1, <1>3, <2>1, <2>4, <2>5 DEF Whole
<1>13. CASE Record
  <2>1. /\ object'.phase = object.phase /\ object'.spec = object.spec /\ step' = "idle"
        /\ UNCHANGED <<kind, op, items>>
    BY <1>0, <1>13 DEF Record, Idle, account, Object
  <2> QED
    BY <1>1, <1>2, <1>3, <1>4, <2>1 DEF Whole
<1>14. CASE Save
  <2>1. step # "idle" /\ step' = "idle" /\ State \in Present /\ UNCHANGED <<kind, op, items>>
    BY <1>14 DEF Save, Observes, Idle
  <2>2. object'.spec = LateInitialize(work.spec, items[State])
    BY <1>0, <1>14 DEF Save, Observed, Object
  <2>3. Admitted(object'.spec, kind.required)
    BY <1>0, <2>1, <2>2, PresentTypes, LateInitializeAdmitted DEF CopyWhole
  <2>4. ObjectWhole'
    BY <2>1, <2>3 DEF ObjectWhole
  <2> QED
    BY <1>1, <1>2, <1>4, <2>1, <2>4 DEF Whole
<1>15. CASE Update
  <2>1. /\ step = "observe" /\ work.phase = "live" /\ State \in Present /\ step' = "idle"
        /\ UNCHANGED <<kind, object, items>>
    BY <1>15 DEF Update, Observes, Idle
  <2>2. op'.params = [i \in Fields |-> IF i \in Outdated THEN Merged[i] ELSE items[State][i]]
    BY <1>15 DEF Update
  <2>3. \A i \in Fields : Needed(i) => Merged[i] # Unset
    BY <1>0, <2>1, MergedWhole DEF CopyWhole, Merged
  <2>4. \A i \in Fields : Needed(i) => op'.params[i] # Unset
    BY <1>0, <2>1, <2>2, <2>3 DEF ItemsWhole
  <2>5. OperationWhole'
    BY <2>1, <2>4, SameNeeds DEF OperationWhole
  <2> QED
    BY <1>1, <1>3, <1>4, <2>1, <2>5 DEF Whole
<1>16. CASE Delete \/ Restart
  <2>1. step' = "idle" /\ op'.run # "apply" /\ UNCHANGED <<kind, object, items>>
    BY <1>16 DEF Delete, Restart, Idle, Idling
  <2> QED
    BY <1>1, <1>2, <1>3, <1>4, <2>1 DEF Whole
<1>17. CASE Finalize
  <2>1. step' = "idle" /\ object'.phase = "absent" /\ UNCHANGED <<kind, op, items>>
    BY <1>17 DEF Finalize, Idle, Absent
  <2> QED
    BY <1>1, <1>2, <1>3, <1>4, <2>1 DEF Whole
<1>18. ASSUME Made, op.run = "apply", kind' = kind
       PROVE  ItemsWhole'
  <2>1. PICK default \in {Unset} \cup Texts :
          items' = Append(items, [i \in Fields |->
                     IF op.params[i] = Unset THEN default ELSE op.params[i]])
    BY <1>18 DEF Made
  <2> DEFINE made == [i \in Fields |-> IF op.params[i] = Unset THEN default ELSE op.params[i]]
  <2>2. \A i \in Fields : Needed(i) => made[i] # Unset
    BY <1>0, <1>18 DEF OperationWhole
  <2> HIDE DEF made
  <2>3. items' = Append(items, made)
    BY <2>1 DEF made
  <2>4. /\ DOMAIN items' = 1..(Len(items) + 1) /\ DOMAIN items = 1..Len(items) /\ Len(items) \in Nat
        /\ items'[Len(items) + 1] = made
        /\ \A u \in 1..Len(items) : items'[u] = items[u]
    BY <2>3 DEF TypeOK
  <2>5. \A u \in Present' : u \in Present \/ items'[u] = made
    BY <2>4 DEF Present
  <2>6. \A u \in Present : items'[u] = items[u]
    BY <2>4 DEF Present
  <2>7. ASSUME NEW u \in Present', NEW i \in Fields, Needed(i)
        PROVE  items'[u][i] # Unset
    BY <1>0, <2>2, <2>5, <2>6, <2>7 DEF ItemsWhole
  <2> QED
    BY <1>18, <2>7, SameNeeds DEF ItemsWhole
<1>19. CASE FinishApply \/ MadeUnknown
  <2>1. /\ op.run = "apply" /\ op'.run # "apply"
        /\ UNCHANGED <<kind, object, work, step, position>>
    BY <1>19 DEF FinishApply, MadeUnknown, End, Idling
  <2>2. CASE tf \in Present /\ items' = [items EXCEPT ![tf] = op.params]
    <3>1. /\ tf \in DOMAIN items /\ items'[tf] = op.params
          /\ \A u \in Present' : u \in Present /\ (u # tf => items'[u] = items[u])
      BY <2>2 DEF Present, TypeOK
    <3>2. ASSUME NEW u \in Present', NEW i \in Fields, Needed(i)
          PROVE  items'[u][i] # Unset
      BY <1>0, <2>1, <3>1, <3>2 DEF ItemsWhole, OperationWhole
    <3>3. ItemsWhole'
      BY <2>1, <3>2, SameNeeds DEF ItemsWhole
    <3> QED
      BY <1>2, <1>3, <1>5, <2>1, <3>3 DEF Whole
  <2>3. CASE Made
    BY <1>2, <1>3, <1>5, <1>18, <2>1, <2>3 DEF Whole
  <2> QED
    BY <1>19, <2>2, <2>3 DEF FinishApply, MadeUnknown
<1>20. ASSUME kind' = kind, NEW u \in DOMAIN items, items' = [items EXCEPT ![u] = Gone]
       PROVE  ItemsWhole'
  <2>1. \A v \in Present' : v \in Present /\ items'[v] = items[v]
    BY <1>20 DEF Present
  <2> QED
    BY <1>0, <1>20, <2>1, SameNeeds DEF ItemsWhole
<1>21. CASE FinishDestroy
  <2>1. /\ op'.run # "apply" /\ items' = [items EXCEPT ![tf] = Gone]
        /\ UNCHANGED <<kind, object, work, step, position>>
    BY <1>21 DEF FinishDestroy, End, Idling
  <2>2. ItemsWhole'
    <3>1. CASE tf \in DOMAIN items
      BY <1>20, <2>1, <3>1
    <3>2. CASE tf \notin DOMAIN items
      <4>1. items' = items
        BY <2>1, <3>2 DEF TypeOK
      <4> QED
        BY <1>1, <2>1, <4>1
    <3> QED
      BY <3>1, <3>2
  <2> QED
    BY <1>2, <1>3, <1>5, <2>1, <2>2 DEF Whole
<1>22. CASE Fail
  <2>1. op'.run # "apply" /\ UNCHANGED <<kind, object, work, step, position, items>>
    BY <1>22 DEF Fail, End, Idling
  <2> QED
    BY <1>1, <1>2, <1>3, <1>5, <2>1 DEF Whole
<1>23. CASE Apply \/ EditSpec
  <2>1. UNCHANGED <<kind, work, step, position, op, items>>
    BY <1>23 DEF Apply, EditSpec, reconcile, account
  <2>2. Admitted(object'.spec, kind.required)
    <3>1. CASE Apply
      <4>1. PICK spec \in Written : /\ Admitted(spec, kind.required)
                                    /\ object' = [Absent EXCEPT !.phase = "live", !.spec = spec]
        BY <3>1 DEF Apply
      <4>2. object'.spec = spec
        BY <4>1 DEF Absent
      <4> QED
        BY <4>1, <4>2
    <3>2. CASE EditSpec
      <4>1. PICK spec : Admitted(spec, kind.required) /\ object' = [object EXCEPT !.spec = spec]
        BY <3>2 DEF EditSpec
      <4>2. object'.spec = spec
        BY <1>0, <4>1 DEF Object
      <4> QED
        BY <4>1, <4>2
    <3> QED
      BY <1>23, <3>1, <3>2
  <2>3. ObjectWhole'
    BY <2>1, <2>2 DEF ObjectWhole
  <2> QED
    BY <1>1, <1>2, <1>5, <2>1, <2>3 DEF Whole
<1>24. CASE RequestDeletion
  <2>1. /\ UNCHANGED <<kind, work, step, position, op, items>>
        /\ object.phase = "live"
        /\ object' = Absent \/ object' = [object EXCEPT !.phase = "deleting"]
    BY <1>24 DEF RequestDeletion, account
  <2>2. object'.phase = "absent" \/ object'.spec = object.spec
    BY <1>0, <2>1 DEF Absent, Object
  <2>3. ObjectWhole'
    BY <1>0, <2>1, <2>2 DEF ObjectWhole
  <2> QED
    BY <1>1, <1>2, <1>5, <2>1, <2>3 DEF Whole
<1>25. ASSUME NEW i \in Fields, ChangeTarget(i)
       PROVE  Whole'
  BY <1>25, <1>1, <1>2, <1>3, <1>5 DEF ChangeTarget, reconcile, account, Whole
<1>26. ASSUME NEW u \in Present, EditItem(u) \/ RemoveItem(u)
       PROVE  Whole'
  <2>1. UNCHANGED <<kind, object, work, step, position, op>>
    BY <1>26 DEF EditItem, RemoveItem, reconcile
  <2>2. CASE RemoveItem(u)
    BY <1>2, <1>3, <1>5, <1>20, <2>1, <2>2 DEF RemoveItem, Present, Whole
  <2>3. CASE EditItem(u)
    <3>1. PICK i \in Fields, value \in Texts : items' = [items EXCEPT ![u][i] = value]
      BY <2>3 DEF EditItem
    <3>2. items[u] \in [Fields -> Values] /\ u \in DOMAIN items /\ value # Unset
      BY PresentTypes, TerraformedAssumption DEF TypeOK
    <3>3. items'[u] = [items[u] EXCEPT ![i] = value]
      BY <3>1, <3>2
    <3>4. \A v \in Present' : v \in Present /\ (v # u => items'[v] = items[v])
      BY <3>1 DEF Present
    <3>5. ASSUME NEW v \in Present', NEW j \in Fields, Needed(j)
          PROVE  items'[v][j] # Unset
      <4>1. CASE v = u
        <5>1. items[u][j] # Unset
          BY <1>0, <3>5 DEF ItemsWhole
        <5> QED
          BY <3>2, <3>3, <4>1, <5>1
      <4>2. CASE v # u
        BY <1>0, <3>4, <3>5, <4>2 DEF ItemsWhole
      <4> QED
        BY <4>1, <4>2
    <3>6. ItemsWhole'
      BY <2>1, <3>5, SameNeeds DEF ItemsWhole
    <3> QED
      BY <1>2, <1>3, <1>5, <2>1, <3>6 DEF Whole
  <2> QED
    BY <1>26, <2>2, <2>3
<1> QED
  BY <1>6, <1>7, <1>8, <1>9, <1>10, <1>11, <1>12, <1>13, <1>14, <1>15, <1>16, <1>17, <1>19,
     <1>21, <1>22, <1>23, <1>24, <1>25, <1>26
  DEF Next, Reconcile, Operate, Fails, Outside

-----------------------------------------------------------------------------
LEMMA Start == Init => TypeOK /\ Bookkeeping /\ NoOrphans
<1> SUFFICES ASSUME Init PROVE TypeOK /\ Bookkeeping /\ NoOrphans
  OBVIOUS
<1>1. kind \in Kinds /\ items = <<>> /\ Present = {}
  BY DEF Init, Present
<1>2. /\ kind.size \in Nat /\ MaxEdits[kind.size] \in Nat
      /\ MaxItems \in Nat /\ MaxFaults \in Nat /\ 0 \in Ages
  BY <1>1, KindTypes, TerraformedAssumption DEF Ages
<1>3. TypeOK
  <2>1. items \in Seq([Fields -> Values] \cup {Gone}) /\ Len(items) = 0
    BY <1>1
  <2>2. 1 \in 1..(2 * kind.size + 1)
    BY <1>2
  <2>3. age \in [Fields -> Ages]
    BY <1>2 DEF Init
  <2>4. /\ object \in Object /\ work \in Object
        /\ op \in [run : {"none", "apply", "destroy"}, params : [Fields -> Values]]
    BY StartTypes DEF Init
  <2>5. tf \in 0..MaxItems /\ faults \in 0..MaxFaults /\ edits \in 0..MaxEdits[kind.size]
    BY <1>2 DEF Init, None
  <2>6. /\ fresh \in BOOLEAN /\ lost \in BOOLEAN /\ position = 1
        /\ step \in {"idle", "resolve", "observe", "create", "created"}
    BY DEF Init
  <2>7. Len(items) <= MaxItems
    BY <1>2, <2>1
  <2> QED
    BY <1>1, <2>1, <2>2, <2>3, <2>4, <2>5, <2>6, <2>7 DEF TypeOK
<1> QED
  BY <1>1, <1>3 DEF Init, Bookkeeping, NoOrphans, Absent, Idling, None

\* Types, for every kind.
THEOREM TypeCorrect == Spec => []TypeOK
<1>1. Init => TypeOK
  BY Start
<1> QED
  BY <1>1, TypeStep, PTL DEF Spec

\* Whatever is in the account is what the resource will observe, for every
\* kind and however operations, restarts, users and others interleave.
THEOREM NothingOrphaned == Spec => []NoOrphans
<1>1. Init => TypeOK /\ Bookkeeping /\ NoOrphans
  BY Start
<1>2. TypeOK /\ Bookkeeping /\ NoOrphans /\ [Next]_vars => TypeOK' /\ Bookkeeping' /\ NoOrphans'
  BY TypeStep, BookkeepingStep
<1> QED
  BY <1>1, <1>2, PTL DEF Spec

\* The provider never changes what is set in the spec, for every kind and
\* however old the copy is that a reconcile writes.
THEOREM WhatIsSetStays == Spec => SetValuesStay
<1>1. Init => TypeOK /\ Copied
  BY Start DEF Init, Copied
<1>2. TypeOK /\ Copied /\ [Next]_vars => TypeOK' /\ Copied'
  BY TypeStep, CopiedStep
<1>3. TypeOK /\ Copied /\ [Next]_vars => [SetStays]_vars
  BY CopiedStep
<1>4. Spec => [][SetStays]_vars
  BY <1>1, <1>2, <1>3, PTL DEF Spec
<1> QED
  BY <1>4 DEF SetValuesStay, SetStays

\* An operation is given all that is required and all references, for every
\* kind, however long ago they were resolved and by whichever reconcile.
THEOREM RequestsAreWhole == Spec => []WholeRequests
<1>1. Init => TypeOK /\ Whole
  <2> SUFFICES ASSUME Init PROVE TypeOK /\ Whole
    OBVIOUS
  <2>1. /\ TypeOK /\ step = "idle" /\ object.phase = "absent" /\ op.run = "none"
        /\ Present = {}
    BY Start DEF Init, Absent, Idling, Present
  <2> QED
    BY <2>1 DEF Whole, CopyWhole, ObjectWhole, OperationWhole, ItemsWhole
<1>2. TypeOK /\ Whole /\ [Next]_vars => TypeOK' /\ Whole'
  BY TypeStep, WholeStep
<1>3. Whole => WholeRequests
  BY DEF Whole, OperationWhole, Needed, WholeRequests
<1> QED
  BY <1>1, <1>2, <1>3, PTL DEF Spec

=============================================================================
