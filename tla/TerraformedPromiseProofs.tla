---------------------- MODULE TerraformedPromiseProofs ----------------------
(***************************************************************************)
(* The life of a Terraform-based resource implements TerraformedPromise. A *)
(* step of Terraformed is a step of TerraformedPromise or changes nothing  *)
(* there. The bookkeeping of TerraformedProofs says what the resource      *)
(* knows; what it has announced and what it may have missed meanwhile is   *)
(* the Ledger's.                                                           *)
(***************************************************************************)
EXTENDS TerraformedProofs

\* What a reconcile may rely on about the object although others write to it,
\* and what the name of an item says while Terraform's state has another.
Ledger ==
    /\ object.pending => object.fin
    /\ step \in {"resolve", "observe"} => ~object.pending /\ ~work.pending
    /\ step \in {"create", "created"} => object.pending
    /\ step = "create" => op.run = "none" /\ Known = {}
    /\ fresh /\ step # "idle" => object.phase = work.phase
    /\ step # "idle" /\ work.phase = "deleting" => object.phase = "deleting"
    /\ tf # None /\ tf # object.ext => object.ext \notin Present
    /\ op.run = "destroy" => tf # None

-----------------------------------------------------------------------------
(***************************************************************************)
(* The items in the account                                                *)
(***************************************************************************)

\* Parameters are never those of an item that is gone.
LEMMA NotGone ==
    ASSUME kind \in Kinds, NEW f \in [Fields -> Values]
    PROVE  f # Gone
<1>1. 1 \in Fields
  BY KindTypes DEF Fields
<1>2. DOMAIN Gone = {}
  BY DEF Gone
<1> QED
  BY <1>1, <1>2

\* An item that is given other parameters stays,
LEMMA Replaced ==
    ASSUME TypeOK, NEW u \in Present, NEW f \in [Fields -> Values],
           items' = [items EXCEPT ![u] = f]
    PROVE  Present' = Present
<1>1. f # Gone
  BY NotGone DEF TypeOK
<1> QED
  BY <1>1 DEF Present, TypeOK

\* one that is removed goes and no other does,
LEMMA Cleared ==
    ASSUME TypeOK, NEW u, items' = [items EXCEPT ![u] = Gone]
    PROVE  Present' = Present \ {u}
BY DEF Present, TypeOK

\* and one that is made is new.
LEMMA MadeOne ==
    ASSUME TypeOK, Made, Len(items) < MaxItems
    PROVE  /\ Present' = Present \cup {Len(items) + 1}
           /\ Len(items) + 1 \in (1..MaxItems) \ Present
<1>1. /\ op.params \in [Fields -> Values] /\ kind \in Kinds
      /\ items \in Seq([Fields -> Values] \cup {Gone})
      /\ Len(items) \in Nat /\ MaxItems \in Nat /\ DOMAIN items = 1..Len(items)
  BY TerraformedAssumption DEF TypeOK
<1>2. PICK default \in {Unset} \cup Texts :
          items' = Append(items, [i \in Fields |->
                       IF op.params[i] = Unset THEN default ELSE op.params[i]])
  BY DEF Made
<1> DEFINE f == [i \in Fields |-> IF op.params[i] = Unset THEN default ELSE op.params[i]]
<1>3. f \in [Fields -> Values]
  BY <1>1 DEF Values
<1>4. f # Gone
  BY <1>1, <1>3, NotGone
<1>5. items' = Append(items, f)
  BY <1>2
<1> HIDE DEF f
<1>6. /\ DOMAIN items' = 1..(Len(items) + 1) /\ items'[Len(items) + 1] = f
      /\ \A u \in 1..Len(items) : items'[u] = items[u]
  <2>1. f \in [Fields -> Values] \cup {Gone}
    BY <1>3
  <2> QED
    BY <1>1, <1>5, <2>1
<1>7. Present' = Present \cup {Len(items) + 1}
  BY <1>1, <1>4, <1>6 DEF Present
<1>8. Len(items) + 1 \notin Present
  BY <1>1 DEF Present
<1> QED
  BY <1>1, <1>7, <1>8

\* The types of the object, its copy and the items that are there.
LEMMA ItemFacts ==
    ASSUME TypeOK
    PROVE  /\ object \in Object /\ work \in Object
           /\ Len(items) \in Nat /\ DOMAIN items = 1..Len(items)
           /\ Present \subseteq 1..Len(items) /\ None \notin Present
BY DEF TypeOK, Present, None

-----------------------------------------------------------------------------
(***************************************************************************)
(* The ledger                                                              *)
(***************************************************************************)

\* A step that makes no item and leaves the object as it is, but for its spec.
LEMMA LedgerFrame ==
    ASSUME Ledger, Present' \subseteq Present, tf' = tf,
           object'.phase = object.phase, object'.fin = object.fin,
           object'.pending = object.pending, object'.ext = object.ext,
           \/ step' = "idle"
           \/ /\ step' = step /\ work'.phase = work.phase /\ work'.pending = work.pending
              /\ fresh' => fresh,
           op'.run \in {op.run, "none"}
    PROVE  Ledger'
BY DEF Ledger, Known

LEMMA LedgerReconcile ==
    ASSUME TypeOK, Bookkeeping, Ledger, Reconcile
    PROVE  Ledger'
<1>0. /\ object \in Object /\ work \in Object
      /\ Len(items) \in Nat /\ DOMAIN items = 1..Len(items)
      /\ Present \subseteq 1..Len(items) /\ None \notin Present
  BY ItemFacts
<1>1. CASE Read
  BY <1>1 DEF Read, account, Present, Known, Ledger
<1>2. CASE Resolve
  <2>1. CASE Idle
    BY <1>2, <2>1, LedgerFrame DEF Resolve, Idle, account, Present
  <2>2. CASE SetReference(NextReference)
    <3>1. work'.phase = work.phase /\ work'.pending = work.pending
      BY <1>0, <2>2 DEF SetReference, Object
    <3> QED
      BY <1>2, <2>2, <3>1, LedgerFrame DEF Resolve, SetReference, account, Present
  <2> QED
    BY <1>2, <2>1, <2>2 DEF Resolve
<1>3. CASE Resolved
  <2>1. /\ object'.ext = object.ext /\ object'.fin = object.fin
        /\ object'.phase = object.phase /\ object'.pending = object.pending
        /\ \/ work'.phase = object'.phase /\ work'.pending = object.pending
           \/ work' = work /\ fresh' = fresh
    BY <1>0, <1>3 DEF Resolved, Object
  <2>2. step = "resolve" /\ step' = "observe" /\ UNCHANGED <<op, tf, items>>
    BY <1>3 DEF Resolved, account
  <2> QED
    BY <2>1, <2>2 DEF Present, Known, Ledger
<1>4. CASE Wait \/ Conflict
  BY <1>4, LedgerFrame DEF Wait, Conflict, Idle, account, Present
<1>5. CASE Announce
  <2>1. /\ object'.ext = object.ext /\ object'.fin = TRUE /\ object'.phase = "live"
        /\ object'.pending = TRUE /\ work'.phase = "live"
    BY <1>0, <1>5 DEF Announce, Observes, Object, Bookkeeping
  <2>2. step' = "create" /\ op.run = "none" /\ UNCHANGED <<op, tf, items>>
    BY <1>5 DEF Announce, Observes, account
  <2>3. Known' = {}
    BY <1>5, <2>1, <2>2 DEF Announce, Observes, State, Bookkeeping, Known, Present
  <2>4. tf' # None /\ tf' # object'.ext => object'.ext \notin Present'
    BY <2>1, <2>2 DEF Ledger, Present
  <2> QED
    BY <2>1, <2>2, <2>3, <2>4 DEF Ledger
<1>6. CASE Create
  <2>1. op'.run = "apply" /\ step = "create" /\ step' = "created"
    BY <1>6 DEF Create
  <2>2. UNCHANGED <<object, work, fresh, tf, items>>
    BY <1>6 DEF Create
  <2> QED
    BY <2>1, <2>2 DEF Ledger, Present
<1>7. CASE Record
  <2>1. /\ object'.ext = object.ext /\ object'.fin = object.fin /\ object'.pending = FALSE
    BY <1>0, <1>7 DEF Record, Object
  <2>2. step' = "idle" /\ UNCHANGED <<op, tf, items>>
    BY <1>7 DEF Record, Idle, account
  <2> QED
    BY <2>1, <2>2 DEF Ledger, Present
<1>8. ASSUME State \in Present, step = "observe"
      PROVE  /\ State # None
             /\ State # object.ext => State = tf
  BY <1>0, <1>8 DEF State, Bookkeeping
<1>9. CASE Save
  <2>1. /\ object'.ext = State /\ object'.pending = work.pending
        /\ step = "observe" /\ State \in Present
    BY <1>0, <1>9 DEF Save, Observes, Observed, Object
  <2>2. step' = "idle" /\ tf' = State /\ op' = op
    BY <1>9 DEF Save, Idle
  <2>3. ~object'.pending
    BY <2>1 DEF Ledger
  <2> QED
    BY <1>8, <2>1, <2>2, <2>3 DEF Ledger
<1>10. CASE Update \/ UpToDate \/ Delete
  <2>1. /\ State \in Present /\ step = "observe" /\ tf' = State
        /\ step' = "idle" /\ UNCHANGED <<object, items>>
    BY <1>10 DEF Update, UpToDate, Delete, Observes, Idle
  <2> QED
    BY <1>8, <2>1 DEF Ledger, Present
<1>11. CASE Finalize
  <2>1. object'.pending = FALSE /\ tf' = None /\ step' = "idle"
    BY <1>11 DEF Finalize, Idle, Absent
  <2>2. op'.run = "none"
    BY <1>11 DEF Finalize, Observes
  <2> QED
    BY <2>1, <2>2 DEF Ledger
<1> QED
  BY <1>1, <1>2, <1>3, <1>4, <1>5, <1>6, <1>7, <1>9, <1>10, <1>11 DEF Reconcile

LEMMA LedgerEnvironment ==
    ASSUME TypeOK, Bookkeeping, Ledger, Operate \/ Fails \/ Outside
    PROVE  Ledger'
<1>0. /\ object \in Object /\ work \in Object
      /\ Len(items) \in Nat /\ DOMAIN items = 1..Len(items)
      /\ Present \subseteq 1..Len(items) /\ None \notin Present
  BY ItemFacts
<1>1. ASSUME Made, Len(items) < MaxItems, op.run = "apply", op'.run = "none",
             UNCHANGED <<object, work, step>>, fresh' = FALSE,
             tf' \in {tf, Len(items) + 1}, tf \notin Present
      PROVE  Ledger'
  <2>1. Present' = Present \cup {Len(items) + 1}
    BY <1>1, MadeOne
  <2>2. object.ext \notin Present
    BY <1>1 DEF Ledger, Bookkeeping
  <2>3. object'.ext \notin Present'
    BY <1>0, <1>1, <2>1, <2>2 DEF Bookkeeping
  <2>4. step' # "create"
    BY <1>1 DEF Ledger
  <2> QED
    BY <1>1, <2>3, <2>4 DEF Ledger
<1>2. CASE FinishApply
  <2>1. /\ op.run = "apply" /\ op'.run = "none" /\ fresh' = FALSE
        /\ UNCHANGED <<object, work, step>>
    BY <1>2 DEF FinishApply, End, Idling
  <2>2. CASE tf \in Present /\ items' = [items EXCEPT ![tf] = op.params] /\ UNCHANGED tf
    <3>1. Present' = Present
      BY <2>2, Replaced DEF TypeOK
    <3> QED
      BY <2>1, <2>2, <3>1, LedgerFrame
  <2>3. CASE tf \notin Present /\ Len(items) < MaxItems /\ Made /\ tf' = Len(items) + 1
    BY <1>1, <2>1, <2>3
  <2> QED
    BY <1>2, <2>2, <2>3 DEF FinishApply
<1>3. CASE FinishDestroy
  <2>1. /\ op'.run = "none" /\ items' = [items EXCEPT ![tf] = Gone] /\ fresh' = FALSE
        /\ UNCHANGED <<object, work, step, tf>>
    BY <1>3 DEF FinishDestroy, End, Idling
  <2>2. Present' \subseteq Present
    BY <2>1, Cleared
  <2> QED
    BY <2>1, <2>2, LedgerFrame
<1>4. CASE Fail
  BY <1>4, LedgerFrame DEF Fail, End, Idling, Present
<1>5. CASE MadeUnknown
  <2>1. /\ op.run = "apply" /\ op'.run = "none" /\ fresh' = FALSE
        /\ UNCHANGED <<object, work, step, tf>>
    BY <1>5 DEF MadeUnknown, End, Idling
  <2> QED
    BY <1>1, <1>5, <2>1 DEF MadeUnknown
<1>6. CASE CallFails
  BY <1>6, LedgerFrame DEF CallFails, Idle, account, Present
<1>7. CASE Restart
  <2>1. /\ op'.run = "none" /\ step' = "idle" /\ tf' = None
        /\ UNCHANGED <<object, items>>
    BY <1>7 DEF Restart, Idle, Idling
  <2> QED
    BY <2>1 DEF Ledger
<1>8. CASE Apply
  <2>1. object'.pending = FALSE
    BY <1>8 DEF Apply, Absent
  <2>2. /\ step' = "idle" /\ object.phase = "absent" /\ UNCHANGED <<tf, op, items>>
    BY <1>8 DEF Apply, reconcile, account
  <2>3. tf = None /\ op.run = "none"
    BY <2>2 DEF Bookkeeping
  <2> QED
    BY <2>1, <2>2, <2>3 DEF Ledger
<1>9. CASE EditSpec
  <2>1. /\ object'.phase = object.phase /\ object'.fin = object.fin
        /\ object'.pending = object.pending /\ object'.ext = object.ext
    BY <1>0, <1>9 DEF EditSpec, Object
  <2> QED
    BY <1>9, <2>1, LedgerFrame DEF EditSpec, account, Present
<1>10. CASE RequestDeletion
  <2>1. /\ object.phase = "live" /\ fresh' = FALSE
        /\ UNCHANGED <<work, step, op, tf, items>>
    BY <1>10 DEF RequestDeletion, account
  <2>2. CASE object.fin
    <3>1. /\ object'.ext = object.ext /\ object'.fin = object.fin
          /\ object'.pending = object.pending
      BY <1>0, <1>10, <2>2 DEF RequestDeletion, Object
    <3>2. step # "idle" => work.phase # "deleting"
      BY <2>1 DEF Ledger
    <3> QED
      BY <2>1, <3>1, <3>2 DEF Ledger, Known, Present
  <2>3. CASE ~object.fin
    <3>1. object' = Absent
      BY <1>10, <2>3 DEF RequestDeletion
    <3>2. /\ object'.pending = FALSE /\ tf' = None /\ op'.run = "none"
          /\ step' \notin {"create", "created"}
      BY <2>1, <2>3, <3>1 DEF Absent, Bookkeeping
    <3>3. step # "idle" => work.phase # "deleting"
      BY <2>1 DEF Ledger
    <3> QED
      BY <2>1, <3>2, <3>3 DEF Ledger
  <2> QED
    BY <2>2, <2>3
<1>11. ASSUME NEW i \in Fields, ChangeTarget(i)
       PROVE  Ledger'
  BY <1>11, LedgerFrame DEF ChangeTarget, reconcile, account, Present
<1>12. ASSUME NEW u \in Present, EditItem(u) \/ RemoveItem(u)
       PROVE  Ledger'
  <2>1. PICK x : items' = [items EXCEPT ![u] = x]
    BY <1>12 DEF EditItem, RemoveItem
  <2>2. Present' \subseteq Present
    BY <2>1 DEF Present, TypeOK
  <2> QED
    BY <1>12, <2>2, LedgerFrame DEF EditItem, RemoveItem, reconcile
<1> QED
  BY <1>2, <1>3, <1>4, <1>5, <1>6, <1>7, <1>8, <1>9, <1>10, <1>11, <1>12
  DEF Operate, Fails, Outside

LEMMA LedgerStep ==
    TypeOK /\ Bookkeeping /\ Ledger /\ [Next]_vars => Ledger'
<1> SUFFICES ASSUME TypeOK, Bookkeeping, Ledger, [Next]_vars
             PROVE  Ledger'
  OBVIOUS
<1>1. CASE UNCHANGED vars
  BY <1>1, LedgerFrame DEF vars, reconcile, account, Present
<1> QED
  BY <1>1, LedgerReconcile, LedgerEnvironment DEF Next

-----------------------------------------------------------------------------
(***************************************************************************)
(* The simulation                                                          *)
(***************************************************************************)
LEMMA PromiseInit == Init => Promise!Init
<1> SUFFICES ASSUME Init PROVE Promise!Init
  OBVIOUS
<1>1. object.phase = "absent" /\ ~object.pending /\ op.run = "none" /\ Present = {}
  BY DEF Init, Absent, Idling, Present
<1> QED
  BY <1>1 DEF Promise!Init, Creation, Known, Saved

\* A step that the promise is not about.
Unpromised ==
    /\ object'.phase = object.phase /\ object'.ext = object.ext
    /\ Creation' = Creation /\ op'.run = op.run /\ Present' = Present
    /\ tf' \in {tf, IF tf = None THEN object.ext ELSE tf}

LEMMA UnpromisedStutters == Unpromised => UNCHANGED Promise!vars
<1> SUFFICES ASSUME Unpromised PROVE UNCHANGED Promise!vars
  OBVIOUS
<1>1. Known' = Known /\ Saved' = Saved
  BY DEF Unpromised, Known, Saved
<1> QED
  BY <1>1 DEF Unpromised, Promise!vars, Promise!resource, Promise!items

\* What the promise says of the resource stays, as it does in most steps.
LEMMA SameItems ==
    ASSUME object'.ext = object.ext, Present' = Present,
           tf' \in {tf, IF tf = None THEN object.ext ELSE tf}
    PROVE  Known' = Known /\ Saved' = Saved
BY DEF Known, Saved

\* Reads, references, waits and conflicts are not promised.
LEMMA QuietSteps ==
    ASSUME TypeOK, Bookkeeping, Ledger,
           Read \/ Resolve \/ Resolved \/ Wait \/ Conflict \/ UpToDate
    PROVE  Unpromised
<1>0. object \in Object
  BY ItemFacts
<1>1. /\ object'.phase = object.phase /\ object'.ext = object.ext
      /\ object'.pending = object.pending
      /\ UNCHANGED <<op, items>>
  <2>1. CASE Resolved
    BY <1>0, <2>1 DEF Resolved, account, Object
  <2> QED
    BY <2>1 DEF Read, Resolve, Wait, Conflict, UpToDate, Observes, account
<1>2. tf' \in {tf, IF tf = None THEN object.ext ELSE tf}
  BY DEF Read, Resolve, Resolved, Wait, Conflict, UpToDate, Observes, account, State, Bookkeeping
<1>3. ~object.pending
  BY DEF Read, Resolve, Resolved, Wait, Conflict, UpToDate, Observes, Ledger
<1>4. Creation' = Creation
  BY <1>1, <1>3 DEF Creation
<1> QED
  BY <1>1, <1>2, <1>4 DEF Unpromised, Present

\* A creation is announced when the item is not there, by a reconcile that
\* knows that the resource still is.
LEMMA AnnounceStep ==
    ASSUME TypeOK, Bookkeeping, Ledger, Announce
    PROVE  Promise!Announce
<1>1. /\ step = "observe" /\ op.run = "none" /\ ~object.pending
      /\ object.phase = "live" /\ work.phase = "live" /\ work.ext = object.ext
  BY DEF Announce, Observes, Ledger, Bookkeeping
<1>2. /\ object'.phase = "live" /\ object'.pending = TRUE /\ object'.ext = object.ext
      /\ step' = "create" /\ UNCHANGED <<op, tf, items>>
  BY <1>1, ItemFacts DEF Announce, account, Object
<1>3. Known = {} /\ Present' = Present
  BY <1>1, <1>2 DEF Announce, State, Known, Present
<1>4. Known' = Known /\ Saved' = Saved
  BY <1>2, <1>3, SameItems
<1>5. Creation = "none" /\ Creation' = "announced"
  BY <1>1, <1>2 DEF Creation
<1> QED
  BY <1>1, <1>2, <1>3, <1>4, <1>5 DEF Promise!Announce, Promise!AtRest, Promise!items

\* It begins while that is so,
LEMMA BeginStep ==
    ASSUME TypeOK, Ledger, Create
    PROVE  Promise!Begin
<1>1. /\ step = "create" /\ step' = "created" /\ op'.run = "apply"
      /\ UNCHANGED <<object, tf, items>>
  BY DEF Create
<1>2. object.pending /\ Known = {}
  BY <1>1 DEF Ledger
<1>3. Creation = "announced" /\ Creation' = "begun"
  BY <1>1, <1>2 DEF Creation
<1>4. Present' = Present
  BY <1>1 DEF Present
<1>5. Known' = Known /\ Saved' = Saved
  BY <1>1, <1>4, SameItems
<1> QED
  BY <1>1, <1>2, <1>3, <1>4, <1>5 DEF Promise!Begin, Promise!items

\* and is concluded
LEMMA ConcludeStep ==
    ASSUME TypeOK, Ledger, Record
    PROVE  Promise!Conclude
<1>1. /\ object'.phase = object.phase /\ object'.ext = object.ext
      /\ object'.pending = FALSE /\ UNCHANGED <<op, tf, items>>
  BY DEF Record, account, TypeOK, Object
<1>2. Creation = "begun" /\ Creation' = "none"
  BY <1>1 DEF Record, Creation, Ledger
<1>3. Present' = Present
  BY <1>1 DEF Present
<1>4. Known' = Known /\ Saved' = Saved
  BY <1>1, <1>3, SameItems
<1> QED
  BY <1>1, <1>2, <1>3, <1>4 DEF Promise!Conclude, Promise!items

\* or abandoned by the reconcile that announced it.
LEMMA AbandonStep ==
    ASSUME TypeOK, Ledger, CallFails
    PROVE  Promise!Abandon \/ Unpromised
<1>1. step' = "idle" /\ UNCHANGED <<object, op, tf, items>>
  BY DEF CallFails, Idle, account
<1>2. Present' = Present
  BY <1>1 DEF Present
<1>3. CASE object.pending /\ step \in {"create", "created"}
  <2>1. Creation \in {"announced", "begun"} /\ Creation' = "abandoned"
    BY <1>1, <1>3 DEF Creation
  <2>2. Known' = Known /\ Saved' = Saved
    BY <1>1, <1>2, SameItems
  <2> QED
    BY <1>1, <1>2, <2>1, <2>2 DEF Promise!Abandon, Promise!items
<1>4. CASE ~(object.pending /\ step \in {"create", "created"})
  <2>1. Creation' = Creation
    BY <1>1, <1>4 DEF Creation
  <2> QED
    BY <1>1, <1>2, <2>1 DEF Unpromised
<1> QED
  BY <1>3, <1>4

\* What is observed is known, and what is saved is what is observed.
LEMMA SaveStep ==
    ASSUME TypeOK, Bookkeeping, Ledger, Save
    PROVE  Promise!Save
<1>1. /\ step = "observe" /\ op.run = "none" /\ ~object.pending /\ ~work.pending
      /\ object.phase = "live" /\ work.phase = "live" /\ work.ext = object.ext
      /\ State \in Present
  BY DEF Save, Observes, Ledger, Bookkeeping
<1>2. /\ object'.phase = "live" /\ ~object'.pending /\ object'.ext = State
      /\ tf' = State /\ UNCHANGED <<op, items>>
  BY <1>1, ItemFacts DEF Save, Observed, Object
<1>3. Present' = Present
  BY <1>2 DEF Present
<1>4. Known = {State} /\ Known' = {State} /\ Saved' = {State}
  BY <1>1, <1>2, <1>3 DEF Known, Saved, State
<1>5. Creation = "none" /\ Creation' = "none"
  BY <1>1, <1>2 DEF Creation
<1> QED
  BY <1>1, <1>2, <1>3, <1>4, <1>5 DEF Promise!Save, Promise!AtRest, Promise!resource

\* Operations begin with the item that is known.
LEMMA UpdateStep ==
    ASSUME TypeOK, Bookkeeping, Ledger, Update
    PROVE  Promise!Update
<1>1. /\ step = "observe" /\ op.run = "none" /\ ~object.pending
      /\ work.ext = object.ext /\ State \in Present
      /\ op'.run = "apply" /\ tf' = State /\ UNCHANGED <<object, items>>
  BY DEF Update, Observes, Ledger, Bookkeeping
<1>2. object.phase # "absent"
  BY <1>1, ItemFacts DEF Bookkeeping, State
<1>3. object.ext = State
  <2>1. Observed.ext = State
    BY ItemFacts DEF Observed, Object
  <2> QED
    BY <1>1, <2>1 DEF Update
<1>4. Present' = Present
  BY <1>1 DEF Present
<1>5. Known = {State} /\ Saved = {State} /\ Known' = {State} /\ Saved' = {State}
  BY <1>1, <1>3, <1>4 DEF Known, Saved, State
<1>6. Creation = "none" /\ Creation' = "none"
  BY <1>1 DEF Creation
<1> QED
  BY <1>1, <1>2, <1>4, <1>5, <1>6
  DEF Promise!Update, Promise!AtRest, Promise!resource, Promise!items

LEMMA RemoveStep ==
    ASSUME TypeOK, Bookkeeping, Ledger, Delete
    PROVE  Promise!Remove
<1>1. /\ step = "observe" /\ op.run = "none" /\ ~object.pending
      /\ work.ext = object.ext /\ State \in Present /\ object.phase = "deleting"
      /\ op'.run = "destroy" /\ tf' = State /\ UNCHANGED <<object, items>>
  BY DEF Delete, Observes, Ledger, Bookkeeping
<1>2. Present' = Present
  BY <1>1 DEF Present
<1>3. Known = {State}
  BY <1>1 DEF Known, State
<1>4. Known' = Known /\ Saved' = Saved
  BY <1>1, <1>2, SameItems DEF State
<1>5. Creation = "none" /\ Creation' = "none"
  BY <1>1 DEF Creation
<1> QED
  BY <1>1, <1>2, <1>3, <1>4, <1>5
  DEF Promise!Remove, Promise!AtRest, Promise!resource, Promise!items

\* The resource goes when no item is there under either of its names.
LEMMA VanishStep ==
    ASSUME TypeOK, Bookkeeping, Ledger, Finalize
    PROVE  Promise!Vanish
<1>1. /\ step = "observe" /\ op.run = "none" /\ ~object.pending
      /\ work.ext = object.ext /\ State \notin Present /\ object.phase = "deleting"
      /\ object' = Absent /\ tf' = None /\ UNCHANGED <<op, items>>
  BY DEF Finalize, Observes, Ledger, Bookkeeping
<1>2. /\ object'.phase = "absent" /\ ~object'.pending /\ object'.ext = None
      /\ Present' = Present /\ None \notin Present
  BY <1>1, ItemFacts DEF Absent, Present
<1>3. object.ext \notin Present
  BY <1>1 DEF State, Ledger
<1>4. Known = {} /\ Saved = {} /\ Known' = {} /\ Saved' = {}
  BY <1>1, <1>2, <1>3 DEF Known, Saved, State
<1>5. Creation = "none" /\ Creation' = "none"
  BY <1>1, <1>2 DEF Creation
<1> QED
  BY <1>1, <1>2, <1>4, <1>5 DEF Promise!Vanish, Promise!AtRest, Promise!items

\* An operation leaves the object and the reconcile as they are.
LEMMA OperationKeeps ==
    ASSUME FinishApply \/ FinishDestroy \/ Fail \/ MadeUnknown
    PROVE  /\ op.run # "none" /\ op'.run = "none" /\ UNCHANGED <<object, step>>
           /\ Creation' = Creation
<1>1. op.run # "none" /\ op'.run = "none" /\ UNCHANGED <<object, step>>
  BY DEF FinishApply, FinishDestroy, Fail, MadeUnknown, End, Idling
<1> QED
  BY <1>1 DEF Creation

\* An item is made when none is known,
LEMMA MakesStep ==
    ASSUME TypeOK, Bookkeeping, Ledger, FinishApply \/ MadeUnknown, tf \notin Present
    PROVE  Promise!Makes
<1>1. op.run = "apply" /\ Made /\ Len(items) < MaxItems /\ tf' \in {tf, Len(items) + 1}
  BY DEF FinishApply, MadeUnknown, End
<1> DEFINE u == Len(items) + 1
<1>2. Present' = Present \cup {u} /\ u \in (1..MaxItems) \ Present
  BY <1>1, MadeOne
<1>3. object.ext \notin Present /\ object.ext # u /\ tf # u
  BY <1>1, ItemFacts DEF Bookkeeping, Ledger
<1>4. op.run # "none" /\ op'.run = "none" /\ UNCHANGED object /\ Creation' = Creation
  BY OperationKeeps
<1>5. tf' = u => u # None
  BY ItemFacts DEF None
<1> HIDE DEF u
<1>6. Known = {} /\ Saved = {} /\ Saved' = {}
  BY <1>2, <1>3, <1>4 DEF Known, Saved
<1>7. Known' \in {{u}, {}}
  BY <1>1, <1>2, <1>3, <1>4, <1>5 DEF Known, u
<1> QED
  BY <1>1, <1>2, <1>4, <1>6, <1>7 DEF Promise!Makes, Promise!End, Promise!resource

\* one that is known is updated or removed, and a failure does neither.
LEMMA OperationSteps ==
    ASSUME TypeOK, Bookkeeping, Ledger,
           FinishApply \/ FinishDestroy \/ Fail \/ MadeUnknown
    PROVE  Promise!Makes \/ Promise!Ends \/ Promise!Removes
<1>1. op.run # "none" /\ op'.run = "none" /\ UNCHANGED object /\ Creation' = Creation
  BY OperationKeeps
<1>2. ASSUME Present' = Present, tf' = tf
      PROVE  Promise!Ends
  <2>1. Known' = Known /\ Saved' = Saved
    BY <1>1, <1>2, SameItems
  <2> QED
    BY <1>1, <1>2, <2>1 DEF Promise!Ends, Promise!End, Promise!resource, Promise!items
<1>3. CASE Fail
  BY <1>2, <1>3 DEF Fail, Present
<1>4. CASE (FinishApply \/ MadeUnknown) /\ tf \notin Present
  BY <1>4, MakesStep
<1>5. CASE FinishApply /\ tf \in Present
  <2>1. items' = [items EXCEPT ![tf] = op.params] /\ UNCHANGED tf
    BY <1>5 DEF FinishApply
  <2>2. Present' = Present
    BY <1>5, <2>1, Replaced DEF TypeOK
  <2> QED
    BY <1>2, <2>1, <2>2
<1>6. CASE FinishDestroy
  <2>1. op.run = "destroy" /\ items' = [items EXCEPT ![tf] = Gone] /\ UNCHANGED tf
    BY <1>6 DEF FinishDestroy, End
  <2>2. Present' = Present \ {tf}
    BY <2>1, Cleared
  <2>3. Known' = {} /\ Saved' = {} /\ Present' = Present \ Known
    BY <1>1, <2>1, <2>2 DEF Known, Saved, Ledger
  <2> QED
    BY <1>1, <2>1, <2>3 DEF Promise!Removes, Promise!End, Promise!resource
<1>7. MadeUnknown => tf \notin Present
  BY DEF MadeUnknown
<1> QED
  BY <1>3, <1>4, <1>5, <1>6, <1>7

\* What is known after a restart is what was saved, not an item of an old name.
LEMMA ForgetStep ==
    ASSUME TypeOK, Bookkeeping, Ledger, Restart
    PROVE  Promise!Forget
<1>1. /\ op'.run = "none" /\ step' = "idle" /\ tf' = None /\ UNCHANGED <<object, items>>
  BY DEF Restart, Idle, Idling
<1>2. Present' = Present
  BY <1>1 DEF Present
<1>3. Known' = Saved /\ Saved' = Saved
  BY <1>1, <1>2 DEF Known, Saved
<1>4. Creation' = IF Creation = "none" THEN "none" ELSE "abandoned"
  BY <1>1 DEF Creation
<1> QED
  BY <1>1, <1>2, <1>3, <1>4 DEF Promise!Forget

\* Users apply and delete,
LEMMA UserSteps ==
    ASSUME TypeOK, Bookkeeping, Ledger, Apply \/ EditSpec \/ RequestDeletion
    PROVE  Promise!Apply \/ Promise!RequestDeletion \/ Unpromised
<1>1. step' = step /\ UNCHANGED <<op, tf, items>>
  BY DEF Apply, EditSpec, RequestDeletion, reconcile, account
<1>2. Present' = Present
  BY <1>1 DEF Present
<1>3. CASE Apply
  <2>1. /\ object.phase = "absent" /\ object'.phase = "live"
        /\ ~object'.pending /\ object'.ext = None
    BY <1>3 DEF Apply, Absent
  <2>2. ~object.pending /\ object.ext = None
    BY <2>1, ItemFacts DEF Bookkeeping, Ledger
  <2>3. Known' = Known /\ Saved' = Saved
    BY <1>1, <1>2, <2>1, <2>2, SameItems
  <2>4. Creation' = Creation
    BY <2>1, <2>2 DEF Creation
  <2> QED
    BY <1>1, <1>2, <2>1, <2>3, <2>4 DEF Promise!Apply, Promise!items
<1>4. CASE EditSpec
  <2>1. /\ object'.phase = object.phase /\ object'.ext = object.ext
        /\ object'.pending = object.pending
    BY <1>4, ItemFacts DEF EditSpec, Object
  <2>2. Creation' = Creation
    BY <1>1, <2>1 DEF Creation
  <2> QED
    BY <1>1, <1>2, <2>1, <2>2 DEF Unpromised
<1>5. CASE RequestDeletion /\ object.fin
  <2>1. /\ object.phase = "live" /\ object'.phase = "deleting"
        /\ object'.ext = object.ext /\ object'.pending = object.pending
    BY <1>5, ItemFacts DEF RequestDeletion, Object
  <2>2. Creation' = Creation
    BY <1>1, <2>1 DEF Creation
  <2>3. Known' = Known /\ Saved' = Saved
    BY <1>1, <1>2, <2>1, SameItems
  <2> QED
    BY <1>1, <1>2, <2>1, <2>2, <2>3 DEF Promise!RequestDeletion, Promise!items
<1>6. CASE RequestDeletion /\ ~object.fin
  <2>1. /\ object.phase = "live" /\ object'.phase = "absent"
        /\ ~object'.pending /\ object'.ext = None
    BY <1>6 DEF RequestDeletion, Absent
  <2>2. ~object.pending /\ object.ext = None /\ tf = None /\ op.run = "none"
    BY <1>6 DEF Bookkeeping, Ledger
  <2>3. Creation = "none" /\ Creation' = "none"
    BY <2>1, <2>2 DEF Creation
  <2>4. Known = {}
    BY <2>2, ItemFacts DEF Known
  <2>5. Known' = Known /\ Saved' = Saved
    BY <1>1, <1>2, <2>1, <2>2, SameItems
  <2> QED
    BY <1>1, <1>2, <2>1, <2>2, <2>3, <2>4, <2>5
    DEF Promise!RequestDeletion, Promise!AtRest, Promise!items
<1> QED
  BY <1>3, <1>4, <1>5, <1>6

\* others change and remove items, and the referenced resources come and go.
LEMMA OtherSteps ==
    ASSUME TypeOK,
           \/ \E i \in Fields : ChangeTarget(i)
           \/ \E u \in Present : EditItem(u) \/ RemoveItem(u)
    PROVE  Promise!OutOfBand \/ Unpromised
<1>1. UNCHANGED <<object, step, op, tf>>
  BY DEF ChangeTarget, EditItem, RemoveItem, reconcile, account
<1>2. Creation' = Creation
  BY <1>1 DEF Creation
<1>3. ASSUME Present' = Present
      PROVE  Unpromised
  BY <1>1, <1>2, <1>3 DEF Unpromised
<1>4. CASE \E i \in Fields : ChangeTarget(i)
  BY <1>3, <1>4 DEF ChangeTarget, account, Present
<1>5. ASSUME NEW u \in Present, EditItem(u)
      PROVE  Present' = Present
  <2>1. PICK i \in Fields, value \in Texts : items' = [items EXCEPT ![u][i] = value]
    BY <1>5 DEF EditItem
  <2>2. items[u] \in [Fields -> Values]
    BY <1>5 DEF Present, TypeOK
  <2> DEFINE f == [items[u] EXCEPT ![i] = value]
  <2>3. f \in [Fields -> Values] /\ items' = [items EXCEPT ![u] = f]
    BY <2>1, <2>2 DEF Values
  <2> HIDE DEF f
  <2> QED
    BY <2>3, Replaced
<1>6. ASSUME NEW u \in Present, RemoveItem(u)
      PROVE  Promise!OutOfBand
  <2>1. Present' = Present \ {u}
    BY <1>6, Cleared DEF RemoveItem
  <2>2. Known' = Known \ {u} /\ Saved' = Saved \ {u}
    BY <1>1, <2>1 DEF Known, Saved
  <2> QED
    BY <1>1, <1>2, <2>1, <2>2 DEF Promise!OutOfBand, Promise!resource
<1> QED
  BY <1>3, <1>4, <1>5, <1>6

LEMMA PromiseStep ==
    TypeOK /\ Bookkeeping /\ Ledger /\ [Next]_vars => [Promise!Next]_Promise!vars
<1> SUFFICES ASSUME TypeOK, Bookkeeping, Ledger, [Next]_vars
             PROVE  Promise!Next \/ Unpromised
  BY UnpromisedStutters
<1>1. CASE UNCHANGED vars
  BY <1>1 DEF vars, reconcile, account, Unpromised, Creation, Present
<1>2. CASE Reconcile
  BY <1>2, QuietSteps, AnnounceStep, BeginStep, ConcludeStep, SaveStep, UpdateStep,
     RemoveStep, VanishStep
  DEF Reconcile, Promise!Next
<1>3. CASE Operate \/ Fails
  BY <1>3, OperationSteps, AbandonStep, ForgetStep DEF Operate, Fails, Promise!Next
<1>4. CASE Outside
  BY <1>4, UserSteps, OtherSteps DEF Outside, Promise!Next
<1> QED
  BY <1>1, <1>2, <1>3, <1>4 DEF Next

-----------------------------------------------------------------------------
\* What a reconcile relies on holds whoever writes to the object meanwhile, and
\* an item that was known by another name before is not there any more.
THEOREM LedgerHolds == Spec => []Ledger
<1>1. Init => TypeOK /\ Bookkeeping /\ NoOrphans /\ Ledger
  BY Start DEF Init, Ledger, Absent, Idling
<1>2. TypeOK /\ Bookkeeping /\ NoOrphans /\ Ledger /\ [Next]_vars
        => TypeOK' /\ Bookkeeping' /\ NoOrphans' /\ Ledger'
  BY TypeStep, BookkeepingStep, LedgerStep
<1> QED
  BY <1>1, <1>2, PTL DEF Spec

\* The life of a resource implements TerraformedPromise, for every kind.
THEOREM PromiseHolds == Spec => PromiseKept
<1>1. Init => TypeOK /\ Bookkeeping /\ NoOrphans
  BY Start
<1>2. TypeOK /\ Bookkeeping /\ NoOrphans /\ [Next]_vars => TypeOK' /\ Bookkeeping' /\ NoOrphans'
  BY TypeStep, BookkeepingStep
<1>3. Spec => Promise!Init /\ [][Promise!Next]_Promise!vars
  BY <1>1, <1>2, LedgerHolds, PromiseInit, PromiseStep, PTL DEF Spec
<1> QED
  BY <1>3 DEF PromiseKept, Promise!Spec

=============================================================================
