---------------------------- MODULE ImportProofs ----------------------------
(***************************************************************************)
(* What the import of existing items guarantees for any resources, names,  *)
(* page size and bounds: its types, that a resource is only ever tied to   *)
(* an item of its own name, and that a lookup misses an item only if       *)
(* another is removed while it runs.                                       *)
(***************************************************************************)
EXTENDS Import, TLAPS

-----------------------------------------------------------------------------
(***************************************************************************)
(* Lemmas on pages and on listings                                         *)
(***************************************************************************)

\* Pages have at least one place: a page is not before its number's place.
LEMMA PageStart ==
    ASSUME NEW p \in Nat
    PROVE  /\ p * PageSize \in Nat
           /\ p <= p * PageSize
           /\ (p + 1) * PageSize = p * PageSize + PageSize
<1>1. PageSize \in Nat /\ PageSize >= 1
  BY ImportAssumption
<1>2. p * PageSize \in Nat
  BY <1>1, SMT
<1>3. (p + 1) * PageSize = p * PageSize + PageSize
  BY <1>1, SMT
<1>4. p * PageSize >= p * 1
  BY <1>1, SMT
<1> QED
  BY <1>2, <1>3, <1>4

\* What is left of a listing from which one place is taken out.
LEMMA TakenOut ==
    ASSUME NEW S, NEW s \in Seq(S), NEW i \in DOMAIN s
    PROVE  /\ RemoveAt(s, i) \in Seq(S)
           /\ Len(RemoveAt(s, i)) = Len(s) - 1
           /\ \A j \in 1..(Len(s) - 1) :
                 RemoveAt(s, i)[j] = s[IF j < i THEN j ELSE j + 1]
<1> DEFINE a == SubSeq(s, 1, i - 1)
           b == SubSeq(s, i + 1, Len(s))
<1>1. i \in 1..Len(s) /\ Len(s) \in Nat
  OBVIOUS
<1>2. a \in Seq(S) /\ Len(a) = i - 1 /\ \A j \in 1..(i - 1) : a[j] = s[j]
  BY <1>1
<1>3. b \in Seq(S) /\ Len(b) = Len(s) - i /\ \A j \in 1..(Len(s) - i) : b[j] = s[i + j]
  BY <1>1
<1>4. RemoveAt(s, i) = a \o b
  BY DEF RemoveAt
<1> HIDE DEF a, b
<1>5. a \o b \in Seq(S) /\ Len(a \o b) = Len(s) - 1
  BY <1>1, <1>2, <1>3
<1>6. ASSUME NEW j \in 1..(Len(s) - 1)
      PROVE  (a \o b)[j] = s[IF j < i THEN j ELSE j + 1]
  <2>1. CASE j < i
    BY <1>1, <1>2, <1>3, <2>1
  <2>2. CASE j >= i
    <3>1. (a \o b)[j] = b[j - (i - 1)]
      BY <1>1, <1>2, <1>3, <2>2
    <3>2. j - (i - 1) \in 1..(Len(s) - i)
      BY <1>1, <2>2
    <3> QED
      BY <1>1, <1>3, <2>2, <3>1, <3>2
  <2>3. j < i \/ j >= i
    BY <1>1
  <2> QED
    BY <2>1, <2>2, <2>3
<1> QED
  BY <1>4, <1>5, <1>6

\* What is listed on a page is in the account, and has been made.
LEMMA ListedItems ==
    ASSUME AccountOK
    PROVE  /\ \A p : Listed(p) \subseteq Items
           /\ Items \subseteq DOMAIN named
           /\ DOMAIN named \subseteq UUIDs
           /\ \A n : Bearers(n) \subseteq Items
<1>1. DOMAIN named = 1..Len(named) /\ Len(named) \in Nat
  BY DEF AccountOK
<1>2. \A i \in DOMAIN account : account[i] \in DOMAIN named
  BY DEF AccountOK
<1>3. DOMAIN named \subseteq UUIDs
  BY <1>1, ImportAssumption DEF AccountOK, UUIDs
<1>4. Items \subseteq DOMAIN named
  BY <1>2 DEF Items, ToSet
<1>5. \A p : Listed(p) \subseteq Items
  BY DEF Listed, Items, ToSet
<1> QED
  BY <1>3, <1>4, <1>5 DEF Bearers

\* An item that is added has a name that was free, a UUID that is new, and
\* the last place in the listing.
LEMMA ItemAdded ==
    ASSUME AccountOK, NEW n \in Names, Bearers(n) = {}, Len(named) < MaxItems,
           named' = Append(named, n), account' = Append(account, Len(named) + 1)
    PROVE  /\ AccountOK'
           /\ Len(named) + 1 \in UUIDs
           /\ Len(named) + 1 \in DOMAIN named'
           /\ named'[Len(named) + 1] = n
           /\ \A u \in DOMAIN named : u \in DOMAIN named' /\ named'[u] = named[u]
           /\ \A i \in DOMAIN account : i \in DOMAIN account' /\ account'[i] = account[i]
<1> DEFINE u == Len(named) + 1
<1>1. /\ Len(named) \in Nat /\ DOMAIN named = 1..Len(named)
      /\ Len(account) \in Nat /\ DOMAIN account = 1..Len(account)
      /\ \A i \in DOMAIN account : account[i] \in DOMAIN named
  BY DEF AccountOK
<1>2. /\ named' \in Seq(Names) /\ Len(named') = u /\ DOMAIN named' = 1..u
      /\ named'[u] = n
      /\ \A v \in DOMAIN named : v \in DOMAIN named' /\ named'[v] = named[v]
  BY <1>1 DEF AccountOK
<1>3. u \in UUIDs /\ u \notin DOMAIN named
  BY <1>1, ImportAssumption DEF UUIDs
<1>4. /\ Len(account') = Len(account) + 1 /\ DOMAIN account' = 1..(Len(account) + 1)
      /\ account'[Len(account) + 1] = u
      /\ \A i \in DOMAIN account : i \in DOMAIN account' /\ account'[i] = account[i]
  BY <1>1 DEF AccountOK
<1>5. account' \in Seq(DOMAIN named')
  <2>1. account \in Seq(DOMAIN named') /\ u \in DOMAIN named'
    BY <1>1, <1>2 DEF AccountOK
  <2> QED
    BY <2>1
<1>6. \A i \in DOMAIN account : named[account[i]] # n
  BY <1>1 DEF Bearers, Items, ToSet
<1>7. ASSUME NEW i \in DOMAIN account', NEW j \in DOMAIN account', i # j
      PROVE  named'[account'[i]] # named'[account'[j]]
  <2>1. CASE i \in DOMAIN account /\ j \in DOMAIN account
    BY <1>1, <1>2, <1>4, <1>7, <2>1 DEF AccountOK
  <2>2. CASE i \notin DOMAIN account
    <3>1. i = Len(account) + 1 /\ j \in DOMAIN account
      BY <1>1, <1>4, <1>7, <2>2
    <3> QED
      BY <1>1, <1>2, <1>4, <1>6, <3>1
  <2>3. CASE j \notin DOMAIN account
    <3>1. j = Len(account) + 1 /\ i \in DOMAIN account
      BY <1>1, <1>4, <1>7, <2>3
    <3> QED
      BY <1>1, <1>2, <1>4, <1>6, <3>1
  <2> QED
    BY <2>1, <2>2, <2>3
<1>8. Len(named') <= MaxItems /\ Len(account') <= Len(named')
  BY <1>1, <1>2, <1>4, ImportAssumption DEF AccountOK
<1> QED
  BY <1>2, <1>3, <1>4, <1>5, <1>7, <1>8 DEF AccountOK

\* An item that is taken out leaves the others, each with its name.
LEMMA ItemTaken ==
    ASSUME AccountOK, NEW u, TakeOut(u), named' = named
    PROVE  AccountOK'
<1>1. PICK i \in DOMAIN account : account' = RemoveAt(account, i)
  BY DEF TakeOut
<1>2. /\ account' \in Seq(DOMAIN named)
      /\ Len(account') = Len(account) - 1
      /\ \A j \in 1..(Len(account) - 1) : account'[j] = account[IF j < i THEN j ELSE j + 1]
  BY <1>1, TakenOut DEF AccountOK
<1>3. /\ Len(account) \in Nat /\ DOMAIN account = 1..Len(account) /\ i \in 1..Len(account)
      /\ Len(named) \in Nat
  BY DEF AccountOK
<1>4. DOMAIN account' = 1..(Len(account) - 1)
  BY <1>2
<1>5. ASSUME NEW j \in DOMAIN account', NEW k \in DOMAIN account', j # k
      PROVE  named[account'[j]] # named[account'[k]]
  <2> DEFINE at(x) == IF x < i THEN x ELSE x + 1
  <2>1. at(j) \in DOMAIN account /\ at(k) \in DOMAIN account /\ at(j) # at(k)
    BY <1>3, <1>4, <1>5
  <2>2. account'[j] = account[at(j)] /\ account'[k] = account[at(k)]
    BY <1>2, <1>4
  <2> QED
    BY <2>1, <2>2 DEF AccountOK
<1> QED
  BY <1>2, <1>3, <1>5 DEF AccountOK

\* A page that is not empty has a number that pages can have.
LEMMA PageBound ==
    ASSUME AccountOK, NEW p \in 1..(MaxItems + 1), paged = TRUE, Listed(p) # {}
    PROVE  p + 1 \in 1..(MaxItems + 1)
<1>1. PICK j \in DOMAIN account : (p - 1) * PageSize < j
  BY DEF Listed
<1>2. p - 1 \in Nat /\ MaxItems \in Nat
  BY ImportAssumption
<1>3. p - 1 <= (p - 1) * PageSize /\ (p - 1) * PageSize \in Nat
  BY <1>2, PageStart
<1>4. j \in Nat /\ j <= MaxItems
  <2>1. Len(account) \in Nat /\ j \in 1..Len(account) /\ Len(named) \in Nat
    BY DEF AccountOK
  <2> QED
    BY <2>1, <1>2 DEF AccountOK
<1> QED
  BY <1>1, <1>2, <1>3, <1>4

-----------------------------------------------------------------------------
(***************************************************************************)
(* Types                                                                   *)
(***************************************************************************)

\* The updates of a resource that the actions make.
LEMMA ObjectUpdate ==
    ASSUME NEW o \in Object
    PROVE  /\ o.phase \in Phases /\ o.ext \in UUIDs \cup {None}
           /\ Absent \in Object
           /\ [Absent EXCEPT !.phase = "live"] \in Object
           /\ [o EXCEPT !.phase = "deleting"] \in Object
           /\ \A e \in UUIDs \cup {None} :
                 /\ [o EXCEPT !.fin = TRUE, !.ext = e] \in Object
                 /\ [o EXCEPT !.fin = TRUE, !.ext = e, !.pending = TRUE] \in Object
                 /\ [o EXCEPT !.ext = e, !.pending = FALSE] \in Object
<1>1. Absent \in Object /\ [Absent EXCEPT !.phase = "live"] \in Object
  BY DEF Object, Absent, Phases
<1>2. o.phase \in Phases /\ o.ext \in UUIDs \cup {None}
  BY DEF Object
<1>3. [o EXCEPT !.phase = "deleting"] \in Object
  BY DEF Object, Phases
<1>4. ASSUME NEW e \in UUIDs \cup {None}
      PROVE  /\ [o EXCEPT !.fin = TRUE, !.ext = e] \in Object
             /\ [o EXCEPT !.fin = TRUE, !.ext = e, !.pending = TRUE] \in Object
             /\ [o EXCEPT !.ext = e, !.pending = FALSE] \in Object
  BY DEF Object
<1> QED
  BY <1>1, <1>2, <1>3, <1>4

\* A reconcile that ends leaves what it had in memory with its types.
LEMMA IdleTypes ==
    ASSUME TypeOK, NEW r \in Resources, Idle(r)
    PROVE  /\ step' \in [Resources -> {"idle", "lookup", "connect", "create", "created"}]
           /\ read' \in [Resources -> Phases]
           /\ page' \in [Resources -> 1..(MaxItems + 1)]
           /\ found' \in [Resources -> UUIDs \cup {None}]
           /\ present' \in [Resources -> UUIDs \cup {None}]
           /\ shifted' \in [Resources -> BOOLEAN]
<1>1. 1 \in 1..(MaxItems + 1)
  BY ImportAssumption
<1> QED
  BY <1>1 DEF Idle, TypeOK, Phases

\* The external name, or what Terraform knows instead, is a UUID or none.
LEMMA StateType ==
    ASSUME TypeOK, NEW r \in Resources
    PROVE  State(r) \in UUIDs \cup {None}
BY DEF State, TypeOK

\* An item that is made leaves the listing with its types.
LEMMA ItemMade ==
    ASSUME TypeOK, NEW n \in Names, PutIn(n)
    PROVE  /\ AccountOK' /\ Len(named) + 1 \in UUIDs
           /\ overtaken' \in [Resources -> BOOLEAN]
<1>1. overtaken \in [Resources -> BOOLEAN]
  BY DEF TypeOK
<1>2. overtaken' \in [Resources -> BOOLEAN]
  BY <1>1 DEF PutIn
<1> QED
  BY <1>2, ItemAdded DEF PutIn, TypeOK

\* Every reachable state has its types.
THEOREM TypeCorrect == Spec => []TypeOK
<1>1. Init => TypeOK
  <2> SUFFICES ASSUME Init PROVE TypeOK
    OBVIOUS
  <2>1. named \in Seq(Names) /\ Len(named) <= 2
    <3>1. OtherNames \subseteq Names /\ \A r \in Resources : NameOf[r] \in Names
      BY DEF Names
    <3>2. CASE named = <<>>
      BY <3>2
    <3>3. CASE \E n \in Names : named = <<n>>
      BY <3>3
    <3>4. CASE \E m, n \in OtherNames : named = <<m, n>>
      BY <3>1, <3>4
    <3> QED
      BY <3>2, <3>3, <3>4 DEF Init
  <2>2. Len(named) <= MaxItems
    BY <2>1, ImportAssumption
  <2>3. /\ account \in Seq(DOMAIN named) /\ Len(account) = Len(named)
        /\ DOMAIN account = DOMAIN named /\ \A i \in DOMAIN account : account[i] = i
    BY <2>1 DEF Init
  <2>4. \A i, j \in DOMAIN account : i # j => named[account[i]] # named[account[j]]
    BY <2>3 DEF Init, IsInjective
  <2>5. AccountOK
    BY <2>1, <2>2, <2>3, <2>4 DEF AccountOK
  <2>6. Absent \in Object
    BY DEF Absent, Object, Phases
  <2> QED
    BY <2>5, <2>6, ImportAssumption DEF Init, TypeOK, Phases
<1>2. TypeOK /\ [Next]_vars => TypeOK'
  <2> SUFFICES ASSUME TypeOK, [Next]_vars PROVE TypeOK'
    OBVIOUS
  <2> USE DEF TypeOK, reconciles, operations, history
  <2>1. ASSUME UNCHANGED <<paged, named, account>> PROVE AccountOK'
    BY <2>1 DEF AccountOK
  <2>2. ASSUME NEW r \in Resources, Initialize(r) PROVE TypeOK'
    <3>1. Bearer(NameOf[r]) \in UUIDs \cup {None}
      BY ListedItems DEF Bearer
    <3>2. object[r].phase \in Phases /\ object[r].ext \in UUIDs \cup {None}
      BY ObjectUpdate
    <3>3. 1 \in 1..(MaxItems + 1)
      BY ImportAssumption
    <3> QED
      BY <2>1, <2>2, <3>1, <3>2, <3>3 DEF Initialize
  <2>3. ASSUME NEW r \in Resources, Lookup(r) PROVE TypeOK'
    <3> DEFINE matches == {u \in Listed(page[r]) : named[u] = NameOf[r]}
    <3>1. CASE matches = {} /\ paged /\ Listed(page[r]) # {}
      <4>1. page' = [page EXCEPT ![r] = @ + 1] /\ UNCHANGED <<found, step>>
        BY <2>3, <3>1 DEF Lookup
      <4>2. page[r] + 1 \in 1..(MaxItems + 1)
        BY <3>1, PageBound
      <4>3. page' \in [Resources -> 1..(MaxItems + 1)]
        BY <4>1, <4>2
      <4> QED
        BY <2>1, <2>3, <4>1, <4>3 DEF Lookup
    <3>2. CASE ~(matches = {} /\ paged /\ Listed(page[r]) # {})
      <4>1. /\ found' = [found EXCEPT ![r] = IF matches = {} THEN None ELSE CHOOSE u \in matches : TRUE]
            /\ step' = [step EXCEPT ![r] = "connect"]
            /\ UNCHANGED page
        BY <2>3, <3>2 DEF Lookup
      <4>2. matches \subseteq UUIDs
        BY ListedItems
      <4>3. found' \in [Resources -> UUIDs \cup {None}]
        BY <4>1, <4>2
      <4> QED
        BY <2>1, <2>3, <4>1, <4>3 DEF Lookup
    <3> QED
      BY <3>1, <3>2
  <2>4. ASSUME NEW r \in Resources, Refuse(r) \/ Wait(r) PROVE TypeOK'
    <3>1. Idle(r) /\ UNCHANGED <<paged, named, account, object, operations, faults, edits, overtaken, made>>
      BY <2>4 DEF Refuse, Wait
    <3> QED
      BY <2>1, <3>1, IdleTypes
  <2>5. ASSUME NEW r \in Resources, Adopt(r) PROVE TypeOK'
    <3>1. State(r) \in UUIDs \cup {None}
      BY StateType
    <3>2. object' \in [Resources -> Object]
      <4>1. [object[r] EXCEPT !.fin = TRUE, !.ext = State(r)] \in Object
        BY <3>1, ObjectUpdate
      <4>2. \/ object' = [object EXCEPT ![r] = [object[r] EXCEPT !.fin = TRUE, !.ext = State(r)]]
            \/ object' = object
        BY <2>5 DEF Adopt
      <4> HIDE DEF State
      <4> QED
        BY <4>1, <4>2
    <3>3. /\ tf' = [tf EXCEPT ![r] = State(r)] /\ Idle(r)
          /\ UNCHANGED <<paged, named, account, op, faults, edits, overtaken, made>>
      BY <2>5 DEF Adopt
    <3>4. tf' \in [Resources -> UUIDs \cup {None}]
      BY <3>1, <3>3
    <3> QED
      BY <2>1, <3>2, <3>3, <3>4, IdleTypes
  <2>6. ASSUME NEW r \in Resources, Announce(r) PROVE TypeOK'
    <3>1. object' \in [Resources -> Object]
      <4>1. [object[r] EXCEPT !.fin = TRUE, !.ext = found[r], !.pending = TRUE] \in Object
        BY ObjectUpdate
      <4> QED
        BY <2>6, <4>1 DEF Announce
    <3>2. /\ step' = [step EXCEPT ![r] = "create"] /\ tf' = [tf EXCEPT ![r] = None]
          /\ UNCHANGED <<paged, named, account, read, page, found, op, faults, edits, history>>
      BY <2>6 DEF Announce
    <3> QED
      BY <2>1, <3>1, <3>2
  <2>7. ASSUME NEW r \in Resources, Create(r) PROVE TypeOK'
    <3>1. /\ op' = [op EXCEPT ![r] = "create"]
          /\ step' = [step EXCEPT ![r] = "created"]
          /\ overtaken' = [overtaken EXCEPT ![r] = shifted[r] \/ present[r] # Bearer(NameOf[r])]
          /\ UNCHANGED <<paged, named, account, object, read, page, found, tf, faults, edits,
                         present, shifted, made>>
      BY <2>7 DEF Create
    <3>2. overtaken' \in [Resources -> BOOLEAN]
      <4>1. (shifted[r] \/ present[r] # Bearer(NameOf[r])) \in BOOLEAN
        OBVIOUS
      <4> QED
        BY <3>1, <4>1
    <3>3. op' \in [Resources -> {"none", "create", "delete"}]
      BY <3>1
    <3> QED
      BY <2>1, <3>1, <3>2, <3>3
  <2>8. ASSUME NEW r \in Resources, Record(r) PROVE TypeOK'
    <3>1. object' \in [Resources -> Object]
      <4>1. [object[r] EXCEPT !.ext = found[r], !.pending = FALSE] \in Object
        BY ObjectUpdate
      <4> QED
        BY <2>8, <4>1 DEF Record
    <3>2. Idle(r) /\ UNCHANGED <<paged, named, account, operations, faults, edits, overtaken, made>>
      BY <2>8 DEF Record
    <3> QED
      BY <2>1, <3>1, <3>2, IdleTypes
  <2>9. ASSUME NEW r \in Resources, Delete(r) PROVE TypeOK'
    <3>1. /\ op' = [op EXCEPT ![r] = "delete"] /\ tf' = [tf EXCEPT ![r] = State(r)] /\ Idle(r)
          /\ UNCHANGED <<paged, named, account, object, faults, edits, overtaken, made>>
      BY <2>9 DEF Delete
    <3>2. tf' \in [Resources -> UUIDs \cup {None}]
      BY <3>1, StateType
    <3>3. op' \in [Resources -> {"none", "create", "delete"}]
      BY <3>1
    <3> QED
      BY <2>1, <3>1, <3>2, <3>3, IdleTypes
  <2>10. ASSUME NEW r \in Resources, Finalize(r) PROVE TypeOK'
    <3>1. object' \in [Resources -> Object]
      BY <2>10, ObjectUpdate DEF Finalize
    <3>2. /\ made' = [made EXCEPT ![r] = {}] /\ tf' = [tf EXCEPT ![r] = None] /\ Idle(r)
          /\ UNCHANGED <<paged, named, account, op, faults, edits, overtaken>>
      BY <2>10 DEF Finalize
    <3> QED
      BY <2>1, <3>1, <3>2, IdleTypes
  <2>11. ASSUME NEW r \in Resources, CreateRefused(r) PROVE TypeOK'
    BY <2>1, <2>11 DEF CreateRefused, End
  <2>12. ASSUME NEW r \in Resources, Store(r)
         PROVE  /\ AccountOK' /\ Len(named) + 1 \in UUIDs
                /\ overtaken' \in [Resources -> BOOLEAN]
                /\ made' \in [Resources -> SUBSET UUIDs]
                /\ op' \in [Resources -> {"none", "create", "delete"}]
                /\ UNCHANGED <<paged, object, reconciles, edits, present, shifted>>
    <3>1. NameOf[r] \in Names /\ PutIn(NameOf[r])
      BY <2>12 DEF Names, Store
    <3>2. /\ AccountOK' /\ Len(named) + 1 \in UUIDs
          /\ overtaken' \in [Resources -> BOOLEAN]
      BY <3>1, ItemMade
    <3> QED
      BY <2>12, <3>2 DEF Store, End
  <2>13. ASSUME NEW r \in Resources, CreateStored(r) PROVE TypeOK'
    <3>1. Store(r) /\ faults' = faults /\ tf' = [tf EXCEPT ![r] = Len(named) + 1]
      BY <2>13 DEF CreateStored
    <3> QED
      BY <2>12, <3>1
  <2>14. ASSUME NEW r \in Resources, CreateLost(r) PROVE TypeOK'
    <3>1. Store(r) /\ faults' \in 0..MaxFaults /\ tf' = tf
      BY <2>14, ImportAssumption DEF CreateLost, Failing
    <3> QED
      BY <2>12, <3>1
  <2>15. ASSUME NEW u, TakeOut(u)
         PROVE  /\ shifted' \in [Resources -> BOOLEAN]
                /\ overtaken' \in [Resources -> BOOLEAN]
                /\ present' \in [Resources -> UUIDs \cup {None}]
    BY <2>15 DEF TakeOut
  <2>16. ASSUME NEW r \in Resources, Deleted(r) PROVE TypeOK'
    <3>1. /\ op' \in [Resources -> {"none", "create", "delete"}]
          /\ UNCHANGED <<paged, named, object, reconciles, tf, faults, edits, made>>
      BY <2>16 DEF Deleted, End
    <3>2. CASE TakeOut(tf[r])
      BY <2>15, <3>1, <3>2, ItemTaken
    <3>3. CASE UNCHANGED <<account, present, shifted, overtaken>>
      BY <2>1, <3>1, <3>3
    <3> QED
      BY <2>16, <3>2, <3>3 DEF Deleted
  <2>17. ASSUME NEW r \in Resources, Fault(r) PROVE TypeOK'
    <3>1. /\ Idle(r) /\ faults' \in 0..MaxFaults
          /\ UNCHANGED <<paged, named, account, object, operations, edits, overtaken, made>>
      BY <2>17, ImportAssumption DEF Fault, Failing
    <3> QED
      BY <2>1, <3>1, IdleTypes
  <2>18. ASSUME Restart PROVE TypeOK'
    <3>1. faults' \in 0..MaxFaults /\ 1 \in 1..(MaxItems + 1)
      BY <2>18, ImportAssumption DEF Restart, Failing
    <3> QED
      BY <2>1, <2>18, <3>1 DEF Restart, Phases
  <2>19. ASSUME Edit
         PROVE  /\ edits' \in 0..MaxEdits
                /\ UNCHANGED <<paged, reconciles, operations, faults>>
    BY <2>19, ImportAssumption DEF Edit
  <2>20. ASSUME NEW r \in Resources, Apply(r) PROVE TypeOK'
    <3>1. object' \in [Resources -> Object]
      BY <2>20, ObjectUpdate DEF Apply
    <3> QED
      BY <2>1, <2>19, <2>20, <3>1 DEF Apply
  <2>21. ASSUME NEW r \in Resources, RequestDeletion(r) PROVE TypeOK'
    <3>1. object' \in [Resources -> Object]
      <4>1. (IF object[r].fin THEN [object[r] EXCEPT !.phase = "deleting"] ELSE Absent) \in Object
        BY ObjectUpdate
      <4> QED
        BY <2>21, <4>1 DEF RequestDeletion
    <3>2. Edit /\ UNCHANGED <<named, account, present, shifted, overtaken, made>>
      BY <2>21 DEF RequestDeletion
    <3> QED
      BY <2>1, <2>19, <3>1, <3>2
  <2>22. ASSUME NEW n \in Names, AddItem(n) PROVE TypeOK'
    BY <2>19, <2>22, ItemMade DEF AddItem
  <2>23. ASSUME NEW u \in Items, RemoveItem(u) PROVE TypeOK'
    BY <2>15, <2>19, <2>23, ItemTaken DEF RemoveItem
  <2>24. CASE UNCHANGED vars
    BY <2>1, <2>24 DEF vars
  <2> QED
    BY <2>2, <2>3, <2>4, <2>5, <2>6, <2>7, <2>8, <2>9, <2>10, <2>11, <2>13, <2>14, <2>16,
       <2>17, <2>18, <2>20, <2>21, <2>22, <2>23, <2>24 DEF Next, Reconcile, Operate, Outside
<1> QED
  BY <1>1, <1>2, PTL DEF Spec

-----------------------------------------------------------------------------
(***************************************************************************)
(* Names                                                                   *)
(***************************************************************************)

\* Items keep their names.
LEMMA NamesKept ==
    ASSUME TypeOK, [Next]_vars
    PROVE  \A u \in DOMAIN named : u \in DOMAIN named' /\ named'[u] = named[u]
<1> USE DEF reconciles, history
<1>1. CASE named' = named
  BY <1>1
<1>2. CASE \E r \in Resources : CreateStored(r) \/ CreateLost(r)
  <2>1. \A r \in Resources : NameOf[r] \in Names
    BY DEF Names
  <2> QED
    BY <1>2, <2>1, ItemAdded DEF CreateStored, CreateLost, Store, PutIn, TypeOK
<1>3. CASE \E n \in Names : AddItem(n)
  BY <1>3, ItemAdded DEF AddItem, PutIn, TypeOK
<1>4. CASE Restart \/ \E r \in Resources :
              \/ Initialize(r) \/ Lookup(r) \/ Refuse(r) \/ Wait(r) \/ Adopt(r)
              \/ Announce(r) \/ Create(r) \/ Record(r) \/ Delete(r) \/ Finalize(r)
              \/ CreateRefused(r) \/ Deleted(r) \/ Fault(r)
  BY <1>1, <1>4 DEF Initialize, Lookup, Refuse, Wait, Adopt, Announce, Create, Record, Delete,
                    Finalize, CreateRefused, Deleted, Fault, Restart
<1>5. CASE \E r \in Resources : Apply(r) \/ RequestDeletion(r)
  BY <1>1, <1>5 DEF Apply, RequestDeletion
<1>6. CASE \E u \in Items : RemoveItem(u)
  BY <1>1, <1>6 DEF RemoveItem
<1>7. CASE UNCHANGED vars
  BY <1>1, <1>7 DEF vars
<1> QED
  BY <1>2, <1>3, <1>4, <1>5, <1>6, <1>7 DEF Next, Reconcile, Operate, Outside

\* What a lookup that ends has found is an item of the name, or nothing.
LEMMA LookupResult ==
    ASSUME TypeOK, NEW r \in Resources, Lookup(r)
    PROVE  \/ /\ step' = step /\ found' = found
              /\ paged = TRUE /\ Listed(page[r]) # {}
              /\ page' = [page EXCEPT ![r] = @ + 1]
              /\ \A u \in Listed(page[r]) : named[u] # NameOf[r]
           \/ /\ step' = [step EXCEPT ![r] = "connect"]
              /\ \E u \in Listed(page[r]) :
                    Bears(u, r) /\ found' = [found EXCEPT ![r] = u]
           \/ /\ step' = [step EXCEPT ![r] = "connect"]
              /\ found' = [found EXCEPT ![r] = None]
              /\ \A u \in Listed(page[r]) : named[u] # NameOf[r]
              /\ paged = FALSE \/ Listed(page[r]) = {}
<1> DEFINE matches == {u \in Listed(page[r]) : named[u] = NameOf[r]}
<1>1. paged \in BOOLEAN
  BY DEF TypeOK
<1>2. CASE matches = {} /\ paged /\ Listed(page[r]) # {}
  BY <1>1, <1>2 DEF Lookup
<1>3. CASE matches # {}
  <2>1. /\ found' = [found EXCEPT ![r] = CHOOSE u \in matches : TRUE]
        /\ step' = [step EXCEPT ![r] = "connect"]
    BY <1>3 DEF Lookup
  <2>2. (CHOOSE u \in matches : TRUE) \in matches
    BY <1>3
  <2>3. \A u \in matches : u \in Listed(page[r]) /\ Bears(u, r)
    BY ListedItems DEF Bears, TypeOK
  <2> QED
    BY <2>1, <2>2, <2>3
<1>4. CASE matches = {} /\ ~(paged /\ Listed(page[r]) # {})
  <2>1. /\ found' = [found EXCEPT ![r] = None]
        /\ step' = [step EXCEPT ![r] = "connect"]
    BY <1>4 DEF Lookup
  <2> QED
    BY <1>1, <1>4, <2>1
<1> QED
  BY <1>2, <1>3, <1>4

\* A resource is only ever tied to an item of its own name.
THEOREM TiesAreByName == Spec => []TiedByName
<1>1. Init => TiedByName
  BY DEF Init, TiedByName, Absent
<1>2. TypeOK /\ TiedByName /\ [Next]_vars => TiedByName'
  <2> SUFFICES ASSUME TypeOK, TiedByName, [Next]_vars, NEW r \in Resources
               PROVE  /\ object'[r].ext # None => Bears(object[r].ext, r)'
                      /\ found'[r] # None => Bears(found[r], r)'
                      /\ tf'[r] # None => Bears(tf[r], r)'
    BY DEF TiedByName
  <2> USE DEF reconciles, operations, history
  <2> DEFINE Tied == {None, object[r].ext, found[r], tf[r]}
             TiedNext == /\ object'[r].ext # None => Bears(object[r].ext, r)'
                         /\ found'[r] # None => Bears(found[r], r)'
                         /\ tf'[r] # None => Bears(tf[r], r)'
  <2>1. \A u : Bears(u, r) => u \in DOMAIN named' /\ named'[u] = NameOf[r]
    BY NamesKept DEF Bears
  <2>2. /\ object[r].ext # None => Bears(object[r].ext, r)
        /\ found[r] # None => Bears(found[r], r)
        /\ tf[r] # None => Bears(tf[r], r)
    BY DEF TiedByName
  <2>3. ASSUME object'[r].ext \in Tied, found'[r] \in Tied, tf'[r] \in Tied
        PROVE  TiedNext
    BY <2>1, <2>2, <2>3 DEF Bears
  <2>4. object \in [Resources -> Object] /\ found \in [Resources -> UUIDs \cup {None}]
        /\ tf \in [Resources -> UUIDs \cup {None}]
    BY DEF TypeOK
  <2>5. ASSUME NEW q \in Resources, Lookup(q) PROVE TiedNext
    <3>1. object' = object /\ named' = named /\ tf' = tf
      BY <2>5 DEF Lookup
    <3>2. found'[r] = found[r] \/ found'[r] = None \/ Bears(found'[r], r)
      <4>1. \/ found' = found
            \/ \E u : Bears(u, q) /\ found' = [found EXCEPT ![q] = u]
            \/ found' = [found EXCEPT ![q] = None]
        BY <2>5, LookupResult
      <4> QED
        BY <2>4, <4>1
    <3> QED
      BY <2>2, <3>1, <3>2 DEF Bears
  <2>6. ASSUME NEW q \in Resources, CreateStored(q) PROVE TiedNext
    <3>1. object' = object /\ found' = found /\ tf' = [tf EXCEPT ![q] = Len(named) + 1] /\ Store(q)
      BY <2>6 DEF CreateStored, Store
    <3>2. Len(named) + 1 \in DOMAIN named' /\ named'[Len(named) + 1] = NameOf[q]
      <4>1. NameOf[q] \in Names
        BY DEF Names
      <4> QED
        BY <3>1, <4>1, ItemAdded DEF Store, PutIn, TypeOK
    <3>3. CASE q = r
      BY <2>1, <2>2, <2>4, <3>1, <3>2, <3>3 DEF Bears
    <3>4. CASE q # r
      BY <2>1, <2>2, <2>4, <3>1, <3>4 DEF Bears
    <3> QED
      BY <3>3, <3>4
  <2>7. ASSUME NEW q \in Resources, Initialize(q) PROVE TiedNext
    BY <2>3, <2>4, <2>7 DEF Initialize
  <2>8. ASSUME NEW q \in Resources, Idle(q) PROVE found'[r] \in Tied
    BY <2>4, <2>8 DEF Idle
  <2>9. ASSUME NEW q \in Resources, Refuse(q) \/ Wait(q) \/ Fault(q) PROVE TiedNext
    <3>1. Idle(q) /\ object' = object /\ tf' = tf
      BY <2>9 DEF Refuse, Wait, Fault
    <3> QED
      BY <2>3, <2>8, <3>1
  <2>10. ASSUME NEW q \in Resources, Create(q) \/ CreateRefused(q) \/ CreateLost(q) \/ Deleted(q)
         PROVE  TiedNext
    <3>1. object' = object /\ found' = found /\ tf' = tf
      BY <2>10 DEF Create, CreateRefused, CreateLost, Store, Deleted
    <3> QED
      BY <2>3, <3>1
  <2>11. \A q \in Resources : State(q) = found[q] \/ State(q) = tf[q]
    BY DEF State
  <2>12. ASSUME NEW q \in Resources, Adopt(q) PROVE TiedNext
    <3>1. Idle(q) /\ tf' = [tf EXCEPT ![q] = State(q)]
      BY <2>12 DEF Adopt
    <3>2. \/ object' = [object EXCEPT ![q] = [object[q] EXCEPT !.fin = TRUE, !.ext = State(q)]]
          \/ object' = object
      BY <2>12 DEF Adopt
    <3>3. object'[r].ext \in Tied
      BY <2>4, <2>11, <3>2 DEF Object
    <3>4. tf'[r] \in Tied
      BY <2>4, <2>11, <3>1
    <3> QED
      BY <2>3, <2>8, <3>1, <3>3, <3>4
  <2>13. ASSUME NEW q \in Resources, Announce(q) PROVE TiedNext
    <3>1. found' = found /\ tf' = [tf EXCEPT ![q] = None]
      BY <2>13 DEF Announce
    <3>2. object'[r].ext \in Tied
      BY <2>4, <2>13 DEF Announce, Object
    <3> QED
      BY <2>3, <2>4, <3>1, <3>2
  <2>14. ASSUME NEW q \in Resources, Record(q) PROVE TiedNext
    <3>1. Idle(q) /\ tf' = tf
      BY <2>14 DEF Record
    <3>2. object'[r].ext \in Tied
      BY <2>4, <2>14 DEF Record, Object
    <3> QED
      BY <2>3, <2>8, <3>1, <3>2
  <2>15. ASSUME NEW q \in Resources, Delete(q) PROVE TiedNext
    <3>1. Idle(q) /\ tf' = [tf EXCEPT ![q] = State(q)] /\ object' = object
      BY <2>15 DEF Delete
    <3>2. tf'[r] \in Tied
      BY <2>4, <2>11, <3>1
    <3> QED
      BY <2>3, <2>8, <3>1, <3>2
  <2>16. ASSUME NEW q \in Resources, Finalize(q) PROVE TiedNext
    <3>1. Idle(q) /\ tf' = [tf EXCEPT ![q] = None] /\ object' = [object EXCEPT ![q] = Absent]
      BY <2>16 DEF Finalize
    <3>2. object'[r].ext \in Tied /\ tf'[r] \in Tied
      BY <2>4, <3>1 DEF Absent
    <3> QED
      BY <2>3, <2>8, <3>1, <3>2
  <2>17. CASE Restart
    <3>1. object' = object /\ found'[r] = None /\ tf'[r] = None
      BY <2>17 DEF Restart
    <3> QED
      BY <2>3, <3>1
  <2>18. CASE Outside
    <3>1. found' = found /\ tf' = tf
      BY <2>18 DEF Outside, Apply, RequestDeletion, AddItem, RemoveItem, Edit
    <3>2. ASSUME NEW q \in Resources, Apply(q) PROVE object'[r].ext \in Tied
      BY <2>4, <3>2 DEF Apply, Object, Absent
    <3>3. ASSUME NEW q \in Resources, RequestDeletion(q) PROVE object'[r].ext \in Tied
      <4>1. \/ object' = [object EXCEPT ![q] = [object[q] EXCEPT !.phase = "deleting"]]
            \/ object' = [object EXCEPT ![q] = Absent]
        BY <3>3 DEF RequestDeletion
      <4> QED
        BY <2>4, <4>1 DEF Object, Absent
    <3>4. object'[r].ext \in Tied
      BY <2>18, <3>2, <3>3 DEF Outside, AddItem, RemoveItem
    <3> QED
      BY <2>3, <3>1, <3>4
  <2>19. CASE UNCHANGED vars
    BY <2>3, <2>19 DEF vars
  <2> QED
    BY <2>5, <2>6, <2>7, <2>9, <2>10, <2>12, <2>13, <2>14, <2>15, <2>16, <2>17, <2>18, <2>19
       DEF Next, Reconcile, Operate
<1> QED
  BY <1>1, <1>2, TypeCorrect, PTL DEF Spec

-----------------------------------------------------------------------------
(***************************************************************************)
(* Lookups                                                                 *)
(***************************************************************************)

\* A page without the item moves the lookup closer to it, and the lookup does
\* not end before it.
LEMMA LookupStaysBehind ==
    ASSUME TypeOK, NEW r \in Resources, NEW i \in DOMAIN account,
           Bears(account[i], r), (page[r] - 1) * PageSize < i,
           \A u \in Listed(page[r]) : named[u] # NameOf[r]
    PROVE  /\ paged = TRUE
           /\ Listed(page[r]) # {}
           /\ (page[r] + 1 - 1) * PageSize < i
<1> DEFINE n == (page[r] - 1) * PageSize
<1>1. page[r] \in Nat \ {0} /\ PageSize \in Nat \ {0}
  BY ImportAssumption DEF TypeOK
<1>2. n \in Nat /\ page[r] * PageSize = n + PageSize
  <2>1. page[r] - 1 \in Nat /\ (page[r] - 1) + 1 = page[r]
    BY <1>1
  <2> QED
    BY <2>1, PageStart
<1>3. i \in Nat /\ DOMAIN account = 1..Len(account) /\ Len(account) \in Nat
  BY DEF TypeOK, AccountOK
<1>4. named[account[i]] = NameOf[r]
  BY DEF Bears
<1>5. paged = TRUE
  <2>1. CASE paged = FALSE
    <3>1. account[i] \in Listed(page[r])
      BY <2>1 DEF Listed, Items, ToSet
    <3> QED
      BY <1>4, <3>1
  <2> QED
    BY <2>1 DEF TypeOK
<1> HIDE DEF n
<1>6. \A j \in DOMAIN account : n < j /\ j <= n + PageSize => account[j] \in Listed(page[r])
  BY <1>5 DEF Listed, n
<1>7. n + 1 \in DOMAIN account /\ n < n + 1 /\ n + 1 <= n + PageSize
  <2>1. n < i
    BY DEF n
  <2> QED
    BY <2>1, <1>1, <1>2, <1>3
<1>8. Listed(page[r]) # {}
  BY <1>6, <1>7
<1>9. i > n + PageSize
  <2>1. ~(i <= n + PageSize)
    BY <1>4, <1>6 DEF n
  <2> QED
    BY <2>1, <1>1, <1>2, <1>3
<1>10. page[r] + 1 - 1 = page[r]
  BY <1>1
<1> QED
  BY <1>2, <1>5, <1>8, <1>9, <1>10

\* The inductive invariant, for one resource: an item that has been there all
\* along, in a listing that has lost nothing, is not on a page already read,
\* and a lookup that has found nothing has missed nothing.
BehindAndQuiet(r) ==
    /\ step[r] = "lookup" /\ present[r] # None /\ ~shifted[r]
          => \E i \in DOMAIN account :
                /\ account[i] = present[r]
                /\ Bears(present[r], r)
                /\ (page[r] - 1) * PageSize < i
    /\ step[r] \in {"connect", "create"} /\ found[r] = None
          => present[r] = None \/ shifted[r]

\* The listing may grow, and a reconcile that is not looking up or connecting
\* has nothing to keep.
LEMMA GrowthKeeps ==
    ASSUME TypeOK, NEW r \in Resources, BehindAndQuiet(r),
           \A u \in DOMAIN named : u \in DOMAIN named' /\ named'[u] = named[u],
           \A i \in DOMAIN account : i \in DOMAIN account' /\ account'[i] = account[i],
           present'[r] = present[r], shifted'[r] = shifted[r],
           \/ step'[r] \notin {"lookup", "connect", "create"}
           \/ step'[r] = "create" /\ step[r] = "connect" /\ found'[r] = found[r]
           \/ step'[r] = step[r] /\ found'[r] = found[r] /\ page'[r] = page[r]
    PROVE  BehindAndQuiet(r)'
  BY DEF BehindAndQuiet, Bears

\* A removal leaves nothing to keep.
LEMMA RemovalKeeps ==
    ASSUME NEW u, TakeOut(u), step' = step, NEW r \in Resources
    PROVE  BehindAndQuiet(r)'
  BY DEF TakeOut, BehindAndQuiet

\* Nor does the end of the reconcile.
LEMMA IdleKeeps ==
    ASSUME NEW r \in Resources, step'[r] = "idle"
    PROVE  BehindAndQuiet(r)'
  BY DEF BehindAndQuiet

LEMMA LookupsAreBehind == Spec => []\A r \in Resources : BehindAndQuiet(r)
<1>1. Init => \A r \in Resources : BehindAndQuiet(r)
  BY DEF Init, BehindAndQuiet
<1>2. TypeOK /\ (\A r \in Resources : BehindAndQuiet(r)) /\ [Next]_vars
        => (\A r \in Resources : BehindAndQuiet(r))'
  <2> SUFFICES ASSUME TypeOK, \A q \in Resources : BehindAndQuiet(q), [Next]_vars,
                      NEW r \in Resources
               PROVE  BehindAndQuiet(r)'
    OBVIOUS
  <2> USE DEF reconciles, operations, history
  <2>1. \A u \in DOMAIN named : u \in DOMAIN named' /\ named'[u] = named[u]
    BY NamesKept
  <2>2. ASSUME NEW q \in Resources, Initialize(q) PROVE BehindAndQuiet(r)'
    <3>1. CASE q # r
      BY <2>1, <2>2, <3>1, GrowthKeeps DEF Initialize, TypeOK
    <3>2. CASE q = r
      <4>1. /\ step'[r] = IF object[r].ext = None THEN "lookup" ELSE "connect"
            /\ found'[r] = object[r].ext
            /\ page'[r] = 1
            /\ present'[r] = Bearer(NameOf[r])
            /\ UNCHANGED <<named, account>>
        BY <2>2, <3>2 DEF Initialize, TypeOK
      <4>2. ASSUME present'[r] # None
            PROVE  \E i \in DOMAIN account :
                      account[i] = present'[r] /\ Bears(present'[r], r) /\ 0 < i
        <5>1. present'[r] \in Bearers(NameOf[r])
          BY <4>1, <4>2 DEF Bearer
        <5>2. PICK i \in DOMAIN account : account[i] = present'[r]
          BY <5>1 DEF Bearers, Items, ToSet
        <5>3. Bears(present'[r], r)
          BY <5>1, ListedItems DEF Bearers, Bears, TypeOK
        <5>4. 0 < i
          BY <5>2 DEF TypeOK, AccountOK
        <5> QED
          BY <5>2, <5>3, <5>4
      <4>3. (1 - 1) * PageSize = 0
        BY ImportAssumption
      <4> QED
        BY <4>1, <4>2, <4>3 DEF BehindAndQuiet, Bears
    <3> QED
      BY <3>1, <3>2
  <2>3. ASSUME NEW q \in Resources, Lookup(q) PROVE BehindAndQuiet(r)'
    <3>1. UNCHANGED <<named, account, present, shifted>>
      BY <2>3 DEF Lookup
    <3>2. CASE q # r
      <4>1. step'[r] = step[r] /\ found'[r] = found[r] /\ page'[r] = page[r]
        BY <2>3, <3>2 DEF Lookup, TypeOK
      <4> QED
        BY <2>1, <3>1, <4>1, GrowthKeeps
    <3>3. CASE q = r
      <4>1. step[r] = "lookup"
        BY <2>3, <3>3 DEF Lookup
      <4>2. ASSUME present[r] # None, ~shifted[r]
            PROVE  \E i \in DOMAIN account :
                      /\ account[i] = present[r]
                      /\ Bears(account[i], r)
                      /\ (page[r] - 1) * PageSize < i
        BY <4>1, <4>2 DEF BehindAndQuiet
      <4>3. CASE /\ step' = step /\ found' = found
                 /\ page' = [page EXCEPT ![r] = @ + 1]
                 /\ \A u \in Listed(page[r]) : named[u] # NameOf[r]
        <5>1. page'[r] = page[r] + 1 /\ step'[r] = "lookup"
          BY <4>1, <4>3 DEF TypeOK
        <5>2. ASSUME present[r] # None, ~shifted[r]
              PROVE  \E i \in DOMAIN account :
                        /\ account[i] = present[r]
                        /\ Bears(present[r], r)
                        /\ (page'[r] - 1) * PageSize < i
          <6>1. PICK i \in DOMAIN account :
                   /\ account[i] = present[r]
                   /\ Bears(account[i], r)
                   /\ (page[r] - 1) * PageSize < i
            BY <4>2, <5>2
          <6>2. (page[r] + 1 - 1) * PageSize < i
            BY <4>3, <6>1, LookupStaysBehind
          <6>3. page'[r] - 1 = page[r] + 1 - 1
            <7>1. page[r] \in Nat
              BY DEF TypeOK
            <7> QED
              BY <5>1, <7>1
          <6>4. (page'[r] - 1) * PageSize < i
            BY <6>2, <6>3, Zenon
          <6> QED
            BY <6>1, <6>4
        <5> QED
          BY <3>1, <5>1, <5>2 DEF BehindAndQuiet, Bears
      <4>4. CASE /\ step' = [step EXCEPT ![r] = "connect"]
                 /\ \E u : Bears(u, r) /\ found' = [found EXCEPT ![r] = u]
        <5>1. step'[r] = "connect" /\ \E u \in DOMAIN named : found'[r] = u
          BY <4>4 DEF TypeOK, Bears
        <5>2. found'[r] # None
          BY <5>1 DEF TypeOK, AccountOK, None
        <5> QED
          BY <5>1, <5>2 DEF BehindAndQuiet
      <4>5. CASE /\ step' = [step EXCEPT ![r] = "connect"]
                 /\ \A u \in Listed(page[r]) : named[u] # NameOf[r]
                 /\ paged = FALSE \/ Listed(page[r]) = {}
        <5>1. step'[r] = "connect"
          BY <4>5 DEF TypeOK
        <5>2. present[r] = None \/ shifted[r]
          BY <4>2, <4>5, LookupStaysBehind
        <5> QED
          BY <3>1, <5>1, <5>2 DEF BehindAndQuiet
      <4> QED
        BY <2>3, <3>3, <4>3, <4>4, <4>5, LookupResult
    <3> QED
      BY <3>2, <3>3
  <2>4. ASSUME NEW q \in Resources,
               \/ Refuse(q) \/ Wait(q) \/ Adopt(q) \/ Record(q)
               \/ Delete(q) \/ Finalize(q) \/ Fault(q)
        PROVE  BehindAndQuiet(r)'
    <3>1. Idle(q) /\ UNCHANGED <<named, account>>
      BY <2>4 DEF Refuse, Wait, Adopt, Record, Delete, Finalize, Fault
    <3>2. CASE q = r
      BY <3>1, <3>2, IdleKeeps DEF Idle, TypeOK
    <3>3. CASE q # r
      <4>1. /\ step'[r] = step[r] /\ found'[r] = found[r] /\ page'[r] = page[r]
            /\ present'[r] = present[r] /\ shifted'[r] = shifted[r]
        BY <3>1, <3>3 DEF Idle, TypeOK
      <4> QED
        BY <2>1, <3>1, <4>1, GrowthKeeps
    <3> QED
      BY <3>2, <3>3
  <2>5. ASSUME NEW q \in Resources, Announce(q) PROVE BehindAndQuiet(r)'
    <3>1. /\ step' = [step EXCEPT ![q] = "create"] /\ step[q] = "connect"
          /\ UNCHANGED <<named, account, present, shifted, found, page>>
      BY <2>5 DEF Announce, Observes, Connects
    <3> QED
      BY <2>1, <3>1, GrowthKeeps DEF TypeOK
  <2>6. \A q \in Resources : NameOf[q] \in Names
    BY DEF Names
  <2>7. ASSUME NEW q \in Resources, CreateStored(q) \/ CreateLost(q) PROVE BehindAndQuiet(r)'
    <3>1. Store(q) /\ UNCHANGED <<present, shifted, page, found, step>>
      BY <2>7 DEF CreateStored, CreateLost, Store
    <3>2. \A i \in DOMAIN account : i \in DOMAIN account' /\ account'[i] = account[i]
      BY <2>6, <3>1, ItemAdded DEF Store, PutIn, TypeOK
    <3> QED
      BY <2>1, <3>1, <3>2, GrowthKeeps
  <2>8. ASSUME NEW q \in Resources, Create(q) \/ CreateRefused(q) PROVE BehindAndQuiet(r)'
    <3>1. UNCHANGED <<named, account, present, shifted, found, page>>
      BY <2>8 DEF Create, CreateRefused
    <3>2. step'[r] = step[r] \/ step'[r] = "created"
      BY <2>8 DEF Create, CreateRefused, TypeOK
    <3> QED
      BY <2>1, <3>1, <3>2, GrowthKeeps
  <2>9. ASSUME NEW q \in Resources, Deleted(q) PROVE BehindAndQuiet(r)'
    <3>1. UNCHANGED <<named, found, page, step>>
      BY <2>9 DEF Deleted
    <3>2. CASE TakeOut(tf[q])
      BY <3>1, <3>2, RemovalKeeps
    <3>3. CASE UNCHANGED <<account, present, shifted>>
      BY <2>1, <3>1, <3>3, GrowthKeeps
    <3> QED
      BY <2>9, <3>2, <3>3 DEF Deleted
  <2>10. ASSUME Restart PROVE BehindAndQuiet(r)'
    BY <2>10, IdleKeeps DEF Restart
  <2>11. ASSUME NEW q \in Resources, Apply(q) \/ RequestDeletion(q) PROVE BehindAndQuiet(r)'
    <3>1. UNCHANGED <<named, account, present, shifted, found, page, step>>
      BY <2>11 DEF Apply, RequestDeletion, Edit
    <3> QED
      BY <2>1, <3>1, GrowthKeeps
  <2>12. ASSUME NEW n \in Names, AddItem(n) PROVE BehindAndQuiet(r)'
    <3>1. UNCHANGED <<present, shifted, found, page, step>>
      BY <2>12 DEF AddItem, Edit
    <3>2. \A i \in DOMAIN account : i \in DOMAIN account' /\ account'[i] = account[i]
      BY <2>12, ItemAdded DEF AddItem, PutIn, TypeOK
    <3> QED
      BY <2>1, <3>1, <3>2, GrowthKeeps
  <2>13. ASSUME NEW u \in Items, RemoveItem(u) PROVE BehindAndQuiet(r)'
    BY <2>13, RemovalKeeps DEF RemoveItem, Edit
  <2>14. CASE UNCHANGED vars
    BY <2>1, <2>14, GrowthKeeps DEF vars
  <2> QED
    BY <2>2, <2>3, <2>4, <2>5, <2>7, <2>8, <2>9, <2>10, <2>11, <2>12, <2>13, <2>14
       DEF Next, Reconcile, Operate, Outside
<1> QED
  BY <1>1, <1>2, TypeCorrect, PTL DEF Spec

\* A lookup misses an item that is there all along only if another is removed.
THEOREM QuietLookupsFind == Spec => []QuietLookupFinds
<1>1. (\A r \in Resources : BehindAndQuiet(r)) => QuietLookupFinds
  BY DEF BehindAndQuiet, QuietLookupFinds
<1> QED
  BY <1>1, LookupsAreBehind, PTL

-----------------------------------------------------------------------------
(***************************************************************************)
(* Refused POSTs                                                           *)
(***************************************************************************)

\* An announced creation is protected by the finalizer until it has ended, and
\* what it was announced with is the external name in memory. While it runs, an
\* account with an item of the name has changed since the lookup began.
Running(r) ==
    /\ object[r].phase = "absent" => object[r].fin = FALSE
    /\ step[r] \in {"create", "created"} => object[r].fin = TRUE /\ object[r].ext = found[r]
    /\ op[r] = "create" => object[r].fin = TRUE
    /\ op[r] = "create" /\ object[r].ext = None /\ ~overtaken[r] => Bearers(NameOf[r]) = {}

\* What the account has of a name is what is listed.
LEMMA SameBearers ==
    ASSUME UNCHANGED <<named, account>>, NEW n
    PROVE  Bearers(n)' = Bearers(n)
BY DEF Bearers, Items

\* A resource whose object keeps what protects it.
ObjectKept(r) ==
    \/ object'[r] = object[r]
    \/ object'[r].phase # "absent" /\ object'[r].fin = object[r].fin /\ object'[r].ext = object[r].ext

\* A change that leaves the resource's creation, and the listing, alone.
LEMMA RunningKept ==
    ASSUME NEW r \in Resources, Running(r), ObjectKept(r),
           (step'[r] = step[r] /\ found'[r] = found[r]) \/ step'[r] \in {"idle", "lookup", "connect"},
           (op'[r] = op[r] /\ overtaken'[r] = overtaken[r]) \/ op'[r] # "create",
           UNCHANGED <<named, account>>
    PROVE  Running(r)'
<1>1. Bearers(NameOf[r])' = Bearers(NameOf[r])
  BY SameBearers
<1> QED
  BY <1>1 DEF Running, ObjectKept

\* A resource without a creation has little to keep.
LEMMA RunningEnded ==
    ASSUME NEW r \in Resources, op'[r] # "create", step'[r] \in {"idle", "lookup", "connect"},
           object'[r].phase # "absent" \/ object'[r].fin = FALSE
    PROVE  Running(r)'
BY DEF Running

\* An item that is made has the name of no creation that is not overtaken.
LEMMA RunningAndPutIn ==
    ASSUME TypeOK, NEW r \in Resources, Running(r), NEW n \in Names, PutIn(n),
           object' = object, step' = step, found' = found, op'[r] \in {"none", op[r]}
    PROVE  Running(r)'
<1>1. ASSUME op'[r] = "create", ~overtaken'[r]
      PROVE  ~overtaken[r] /\ NameOf[r] # n /\ op[r] = "create"
  BY <1>1 DEF PutIn
<1>2. ASSUME Bearers(NameOf[r]) = {}, NameOf[r] # n
      PROVE  Bearers(NameOf[r])' = {}
  <2> SUFFICES ASSUME NEW u \in Items', named'[u] = NameOf[r]
               PROVE  FALSE
    BY DEF Bearers
  <2>1. PICK i \in DOMAIN account' : account'[i] = u
    BY DEF Items, ToSet
  <2>2. /\ account \in Seq(DOMAIN named) /\ named \in Seq(Names)
        /\ account' = Append(account, Len(named) + 1) /\ named' = Append(named, n)
    BY DEF TypeOK, AccountOK, PutIn
  <2>3. CASE i \in DOMAIN account
    <3>1. u = account[i] /\ u \in DOMAIN named /\ named'[u] = named[u]
      BY <2>1, <2>2, <2>3
    <3> QED
      BY <1>2, <2>3, <3>1 DEF Bearers, Items, ToSet
  <2>4. CASE i \notin DOMAIN account
    <3>1. u = Len(named) + 1 /\ named'[u] = n
      BY <2>1, <2>2, <2>4
    <3> QED
      BY <1>2, <3>1
  <2> QED
    BY <2>3, <2>4
<1> QED
  BY <1>1, <1>2 DEF Running

\* An item that is taken out overtakes every creation.
LEMMA RunningAndTakeOut ==
    ASSUME NEW r \in Resources, Running(r), NEW u, TakeOut(u),
           object' = object, step' = step, found' = found, op'[r] \in {"none", op[r]}
    PROVE  Running(r)'
BY DEF Running, TakeOut

LEMMA CreationsRun == Spec => []\A r \in Resources : Running(r)
<1>1. Init => \A r \in Resources : Running(r)
  BY DEF Init, Running, Absent
<1>2. TypeOK /\ QuietLookupFinds /\ (\A r \in Resources : Running(r)) /\ [Next]_vars
        => (\A r \in Resources : Running(r))'
  <2> SUFFICES ASSUME TypeOK, QuietLookupFinds, \A q \in Resources : Running(q), [Next]_vars,
                      NEW r \in Resources
               PROVE  Running(r)'
    OBVIOUS
  <2> USE DEF reconciles, operations, history
  <2>1. Running(r)
    OBVIOUS
  <2>2. /\ object \in [Resources -> Object] /\ found \in [Resources -> UUIDs \cup {None}]
        /\ step \in [Resources -> {"idle", "lookup", "connect", "create", "created"}]
        /\ op \in [Resources -> {"none", "create", "delete"}]
        /\ overtaken \in [Resources -> BOOLEAN]
    BY DEF TypeOK
  <2>3. ASSUME NEW q \in Resources, Initialize(q) PROVE Running(r)'
    <3>1. /\ (step'[r] = step[r] /\ found'[r] = found[r]) \/ step'[r] \in {"lookup", "connect"}
          /\ UNCHANGED <<named, account, object, op, overtaken>>
      BY <2>2, <2>3 DEF Initialize
    <3> QED
      BY <2>1, <3>1, RunningKept DEF ObjectKept
  <2>4. ASSUME NEW q \in Resources, Lookup(q) PROVE Running(r)'
    <3>1. \/ step' = step /\ found' = found
          \/ step' = [step EXCEPT ![q] = "connect"] /\ \E u : found' = [found EXCEPT ![q] = u]
      BY <2>4, LookupResult
    <3>2. (step'[r] = step[r] /\ found'[r] = found[r]) \/ step'[r] = "connect"
      BY <2>2, <3>1
    <3>3. UNCHANGED <<named, account, object, op, overtaken>>
      BY <2>4 DEF Lookup
    <3> QED
      BY <2>1, <3>2, <3>3, RunningKept DEF ObjectKept
  <2>5. ASSUME NEW q \in Resources, Idle(q)
        PROVE  (step'[r] = step[r] /\ found'[r] = found[r]) \/ step'[r] = "idle"
    BY <2>2, <2>5 DEF Idle
  <2>6. ASSUME NEW q \in Resources, Refuse(q) \/ Wait(q) \/ Fault(q) PROVE Running(r)'
    <3>1. Idle(q) /\ UNCHANGED <<named, account, object, op, overtaken>>
      BY <2>6 DEF Refuse, Wait, Fault
    <3> QED
      BY <2>1, <2>5, <3>1, RunningKept DEF ObjectKept
  <2>7. ASSUME NEW q \in Resources, Adopt(q) PROVE Running(r)'
    <3>1. Idle(q) /\ UNCHANGED <<named, account, op, overtaken>>
      BY <2>7 DEF Adopt
    <3>2. op[q] = "none" /\ object[q].phase = "live"
      BY <2>7 DEF Adopt, Observes, Connects
    <3>3. \/ object' = [object EXCEPT ![q] = [object[q] EXCEPT !.fin = TRUE, !.ext = State(q)]]
          \/ object' = object
      BY <2>7 DEF Adopt
    <3>4. CASE q = r
      <4>1. step'[r] = "idle" /\ op'[r] = "none"
        BY <2>2, <3>1, <3>2, <3>4 DEF Idle
      <4>2. object'[r].phase = "live"
        <5>1. CASE object' = [object EXCEPT ![q] = [object[q] EXCEPT !.fin = TRUE, !.ext = State(q)]]
          <6>1. object'[q] = [object[q] EXCEPT !.fin = TRUE, !.ext = State(q)]
            BY <2>2, <5>1
          <6>2. object'[q].phase = object[q].phase
            BY <2>2, <6>1 DEF Object
          <6> QED
            BY <3>2, <3>4, <6>2
        <5>2. CASE object' = object
          BY <3>2, <3>4, <5>2
        <5> QED
          BY <3>3, <5>1, <5>2
      <4> QED
        BY <4>1, <4>2, RunningEnded
    <3>5. CASE q # r
      <4>1. object'[r] = object[r]
        BY <2>2, <3>3, <3>5
      <4> QED
        BY <2>1, <2>5, <3>1, <4>1, RunningKept DEF ObjectKept
    <3> QED
      BY <3>4, <3>5
  <2>8. ASSUME NEW q \in Resources, Announce(q) PROVE Running(r)'
    <3>1. /\ step' = [step EXCEPT ![q] = "create"]
          /\ object' = [object EXCEPT ![q] = [object[q] EXCEPT !.fin = TRUE, !.ext = found[q], !.pending = TRUE]]
          /\ op[q] = "none" /\ object[q].phase = "live"
          /\ UNCHANGED <<named, account, found, op, overtaken>>
      BY <2>8 DEF Announce, Observes, Connects
    <3>2. CASE q = r
      <4>1. /\ object'[r].phase = "live" /\ object'[r].fin = TRUE /\ object'[r].ext = found'[r]
            /\ op'[r] = "none"
        BY <2>2, <3>1, <3>2 DEF Object
      <4> QED
        BY <4>1 DEF Running
    <3>3. CASE q # r
      <4>1. object'[r] = object[r] /\ step'[r] = step[r]
        BY <2>2, <3>1, <3>3
      <4> QED
        BY <2>1, <3>1, <4>1, RunningKept DEF ObjectKept
    <3> QED
      BY <3>2, <3>3
  <2>9. ASSUME NEW q \in Resources, Create(q) PROVE Running(r)'
    <3>1. /\ step[q] = "create" /\ step' = [step EXCEPT ![q] = "created"]
          /\ op' = [op EXCEPT ![q] = "create"]
          /\ overtaken' = [overtaken EXCEPT ![q] = shifted[q] \/ present[q] # Bearer(NameOf[q])]
          /\ UNCHANGED <<named, account, object, found>>
      BY <2>9 DEF Create
    <3>2. CASE q = r
      <4>1. object[r].fin = TRUE /\ object[r].ext = found[r] /\ step'[r] = "created"
        BY <2>1, <2>2, <3>1, <3>2 DEF Running
      <4>2. ASSUME object[r].ext = None, ~overtaken'[r]
            PROVE  Bearers(NameOf[r]) = {}
        <5>1. present[r] = None \/ shifted[r]
          BY <3>1, <3>2, <4>1, <4>2 DEF QuietLookupFinds
        <5>2. ~shifted[r] /\ present[r] = Bearer(NameOf[r])
          BY <2>2, <3>1, <3>2, <4>2
        <5>3. Bearer(NameOf[r]) = None
          BY <5>1, <5>2
        <5>4. None \notin Bearers(NameOf[r])
          <6>1. Items \subseteq DOMAIN named
            BY DEF Items, ToSet, TypeOK, AccountOK
          <6>2. 0 \notin DOMAIN named
            BY DEF TypeOK, AccountOK
          <6> QED
            BY <6>1, <6>2 DEF None, Bearers
        <5> QED
          BY <5>3, <5>4 DEF Bearer
      <4>3. Bearers(NameOf[r])' = Bearers(NameOf[r])
        BY <3>1, SameBearers
      <4>4. object[r].phase = "absent" => object[r].fin = FALSE
        BY <2>1 DEF Running
      <4> QED
        BY <3>1, <4>1, <4>2, <4>3, <4>4 DEF Running
    <3>3. CASE q # r
      <4>1. step'[r] = step[r] /\ op'[r] = op[r] /\ overtaken'[r] = overtaken[r]
        BY <2>2, <3>1, <3>3
      <4> QED
        BY <2>1, <3>1, <4>1, RunningKept DEF ObjectKept
    <3> QED
      BY <3>2, <3>3
  <2>10. ASSUME NEW q \in Resources, Record(q) PROVE Running(r)'
    <3>1. /\ Idle(q) /\ step[q] = "created"
          /\ object' = [object EXCEPT ![q] = [object[q] EXCEPT !.ext = found[q], !.pending = FALSE]]
          /\ UNCHANGED <<named, account, op, overtaken>>
      BY <2>10 DEF Record
    <3>2. object[q].fin = TRUE /\ object[q].ext = found[q] /\ object[q].phase # "absent"
      BY <3>1 DEF Running
    <3>3. ObjectKept(r)
      <4>1. CASE q = r
        BY <2>2, <3>1, <3>2, <4>1 DEF ObjectKept, Object
      <4>2. CASE q # r
        BY <2>2, <3>1, <4>2 DEF ObjectKept
      <4> QED
        BY <4>1, <4>2
    <3> QED
      BY <2>1, <2>5, <3>1, <3>3, RunningKept
  <2>11. ASSUME NEW q \in Resources, Delete(q) PROVE Running(r)'
    <3>1. /\ Idle(q) /\ op[q] = "none" /\ op' = [op EXCEPT ![q] = "delete"]
          /\ UNCHANGED <<named, account, object, overtaken>>
      BY <2>11 DEF Delete, Observes
    <3>2. op'[r] = op[r] \/ op'[r] # "create"
      BY <2>2, <3>1
    <3> QED
      BY <2>1, <2>5, <3>1, <3>2, RunningKept DEF ObjectKept
  <2>12. ASSUME NEW q \in Resources, Finalize(q) PROVE Running(r)'
    <3>1. /\ Idle(q) /\ op[q] = "none" /\ object' = [object EXCEPT ![q] = Absent]
          /\ UNCHANGED <<named, account, op, overtaken>>
      BY <2>12 DEF Finalize, Observes
    <3>2. CASE q = r
      <4>1. object'[r].fin = FALSE /\ step'[r] = "idle" /\ op'[r] = "none"
        BY <2>2, <3>1, <3>2 DEF Idle, Absent
      <4> QED
        BY <4>1, RunningEnded
    <3>3. CASE q # r
      <4>1. object'[r] = object[r]
        BY <2>2, <3>1, <3>3
      <4> QED
        BY <2>1, <2>5, <3>1, <4>1, RunningKept DEF ObjectKept
    <3> QED
      BY <3>2, <3>3
  <2>13. ASSUME NEW q \in Resources, CreateRefused(q) PROVE Running(r)'
    <3>1. /\ op' = [op EXCEPT ![q] = "none"] /\ overtaken' = [overtaken EXCEPT ![q] = FALSE]
          /\ UNCHANGED <<named, account, object, step, found>>
      BY <2>13 DEF CreateRefused, End
    <3>2. (op'[r] = op[r] /\ overtaken'[r] = overtaken[r]) \/ op'[r] # "create"
      BY <2>2, <3>1
    <3> QED
      BY <2>1, <3>1, <3>2, RunningKept DEF ObjectKept
  <2>14. ASSUME NEW q \in Resources, CreateStored(q) \/ CreateLost(q) PROVE Running(r)'
    <3>1. /\ PutIn(NameOf[q]) /\ op' = [op EXCEPT ![q] = "none"]
          /\ UNCHANGED <<object, step, found>>
      BY <2>14 DEF CreateStored, CreateLost, Store, End
    <3>2. NameOf[q] \in Names /\ op'[r] \in {"none", op[r]}
      BY <2>2, <3>1 DEF Names
    <3> QED
      BY <2>1, <3>1, <3>2, RunningAndPutIn
  <2>15. ASSUME NEW q \in Resources, Deleted(q) PROVE Running(r)'
    <3>1. /\ op' = [op EXCEPT ![q] = "none"]
          /\ UNCHANGED <<named, object, step, found>>
      BY <2>15 DEF Deleted, End
    <3>2. op'[r] \in {"none", op[r]}
      BY <2>2, <3>1
    <3>3. CASE TakeOut(tf[q])
      BY <2>1, <3>1, <3>2, <3>3, RunningAndTakeOut
    <3>4. CASE UNCHANGED <<account, overtaken>>
      BY <2>1, <3>1, <3>2, <3>4, RunningKept DEF ObjectKept
    <3> QED
      BY <2>15, <3>3, <3>4 DEF Deleted
  <2>16. CASE Restart
    <3>1. step'[r] = "idle" /\ op'[r] = "none" /\ object' = object
      BY <2>16 DEF Restart
    <3> QED
      BY <2>1, <3>1, RunningEnded DEF Running
  <2>17. ASSUME Edit PROVE step' = step /\ found' = found /\ op' = op
    BY <2>17 DEF Edit
  <2>18. ASSUME NEW q \in Resources, Apply(q) PROVE Running(r)'
    <3>1. /\ object[q].phase = "absent" /\ step[q] = "idle"
          /\ object' = [object EXCEPT ![q] = [Absent EXCEPT !.phase = "live"]]
          /\ UNCHANGED <<named, account, step, found, op, overtaken>>
      BY <2>17, <2>18 DEF Apply
    <3>2. CASE q = r
      <4>1. op[r] # "create" /\ object'[r].phase # "absent"
        BY <2>1, <2>2, <3>1, <3>2 DEF Running, Absent
      <4> QED
        BY <3>1, <3>2, <4>1, RunningEnded
    <3>3. CASE q # r
      <4>1. object'[r] = object[r]
        BY <2>2, <3>1, <3>3
      <4> QED
        BY <2>1, <3>1, <4>1, RunningKept DEF ObjectKept
    <3> QED
      BY <3>2, <3>3
  <2>19. ASSUME NEW q \in Resources, RequestDeletion(q) PROVE Running(r)'
    <3>1. /\ object' = [object EXCEPT ![q] = IF object[q].fin THEN [object[q] EXCEPT !.phase = "deleting"]
                                                              ELSE Absent]
          /\ UNCHANGED <<named, account, step, found, op, overtaken>>
      BY <2>17, <2>19 DEF RequestDeletion
    <3>2. CASE q = r /\ object[r].fin = TRUE
      <4>1. ObjectKept(r)
        BY <2>2, <3>1, <3>2 DEF ObjectKept, Object
      <4> QED
        BY <2>1, <3>1, <4>1, RunningKept
    <3>3. CASE q = r /\ object[r].fin # TRUE
      <4>1. object[r].fin = FALSE
        BY <2>2, <3>3 DEF Object
      <4>2. object'[r] = Absent
        BY <2>2, <3>1, <3>3, <4>1
      <4>3. op[r] # "create" /\ step[r] \in {"idle", "lookup", "connect"}
        BY <2>1, <2>2, <4>1 DEF Running
      <4>4. object'[r].fin = FALSE
        BY <4>2 DEF Absent
      <4> QED
        BY <3>1, <4>3, <4>4, RunningEnded
    <3>4. CASE q # r
      <4>1. object'[r] = object[r]
        BY <2>2, <3>1, <3>4
      <4> QED
        BY <2>1, <3>1, <4>1, RunningKept DEF ObjectKept
    <3> QED
      BY <3>2, <3>3, <3>4
  <2>20. ASSUME NEW n \in Names, AddItem(n) PROVE Running(r)'
    BY <2>1, <2>17, <2>20, RunningAndPutIn DEF AddItem
  <2>21. ASSUME NEW u \in Items, RemoveItem(u) PROVE Running(r)'
    BY <2>1, <2>17, <2>21, RunningAndTakeOut DEF RemoveItem
  <2>22. CASE UNCHANGED vars
    BY <2>1, <2>22, RunningKept DEF vars, ObjectKept
  <2> QED
    BY <2>3, <2>4, <2>6, <2>7, <2>8, <2>9, <2>10, <2>11, <2>12, <2>13, <2>14, <2>15, <2>16,
       <2>18, <2>19, <2>20, <2>21, <2>22 DEF Next, Reconcile, Operate, Outside
<1> QED
  BY <1>1, <1>2, TypeCorrect, QuietLookupsFind, PTL DEF Spec

\* A resource without an external name whose POST is refused has been
\* overtaken since its lookup began: an item came or went.
THEOREM RefusalsAreOvertaken == Spec => RefusedOnlyIfOvertaken
<1>1. (\A r \in Resources : Running(r))
        => \A r \in Resources : CreateRefused(r) /\ object[r].ext = None => overtaken[r]
  BY DEF CreateRefused, End, Running
<1>2. (\A r \in Resources : Running(r)) /\ [Next]_vars
        => [\A r \in Resources : CreateRefused(r) /\ object[r].ext = None => overtaken[r]]_vars
  BY <1>1
<1> QED
  BY <1>2, CreationsRun, PTL DEF Spec, RefusedOnlyIfOvertaken

-----------------------------------------------------------------------------
(***************************************************************************)
(* Deletions                                                               *)
(***************************************************************************)

\* What is listed when an item is made, and when one is taken out.
LEMMA ItemsAfter ==
    ASSUME AccountOK
    PROVE  /\ account' = account => Items' = Items
           /\ \A n : PutIn(n) => Items' = Items \cup {Len(named) + 1}
           /\ \A u : TakeOut(u) => Items' \subseteq Items
<1>1. ASSUME account' = account PROVE Items' = Items
  BY <1>1 DEF Items
<1>2. ASSUME NEW n, PutIn(n) PROVE Items' = Items \cup {Len(named) + 1}
  <2>1. account' = Append(account, Len(named) + 1) /\ account \in Seq(DOMAIN named)
    BY <1>2 DEF PutIn, AccountOK
  <2>2. /\ DOMAIN account' = DOMAIN account \cup {Len(account) + 1}
        /\ account'[Len(account) + 1] = Len(named) + 1
        /\ \A i \in DOMAIN account : account'[i] = account[i]
    BY <2>1
  <2> QED
    BY <2>2 DEF Items, ToSet
<1>3. ASSUME NEW u, TakeOut(u) PROVE Items' \subseteq Items
  <2>1. PICK i \in DOMAIN account : account' = RemoveAt(account, i)
    BY <1>3 DEF TakeOut
  <2>2. /\ account' \in Seq(DOMAIN named) /\ Len(account') = Len(account) - 1
        /\ \A j \in 1..(Len(account) - 1) : account'[j] = account[IF j < i THEN j ELSE j + 1]
    BY <2>1, TakenOut DEF AccountOK
  <2>3. /\ Len(account) \in Nat /\ DOMAIN account = 1..Len(account)
        /\ DOMAIN account' = 1..(Len(account) - 1)
    BY <2>2 DEF AccountOK
  <2>4. ASSUME NEW j \in DOMAIN account' PROVE account'[j] \in Items
    <3>1. (IF j < i THEN j ELSE j + 1) \in DOMAIN account
      BY <2>3
    <3> QED
      BY <2>2, <2>3, <3>1 DEF Items, ToSet
  <2> QED
    BY <2>4 DEF Items, ToSet
<1> QED
  BY <1>1, <1>2, <1>3

\* Terraform knows nothing while an item is being made, and what it knows
\* later leaves no other item listed that the resource has made.
Owned(r) ==
    /\ step[r] = "create" => op[r] = "none"
    /\ step[r] = "create" \/ op[r] = "create" => tf[r] = None
    /\ \A u \in made[r] : Bears(u, r)
    /\ tf[r] # None => \A u \in made[r] : u \in Items => u = tf[r]

\* A lookup during which nothing is removed leads to items that are listed.
Seen(r) ==
    /\ step[r] # "idle" /\ ~shifted[r] /\ present[r] # None => present[r] \in Items
    /\ step[r] = "connect" /\ object[r].phase # "absent" /\ object[r].ext = None
       /\ found[r] # None /\ ~shifted[r]
          => found[r] \in Items

\* Items that go, items of others, and knowledge that is lost change nothing.
LEMMA OwnedKept ==
    ASSUME NEW r \in Resources, Owned(r),
           \A u \in DOMAIN named : u \in DOMAIN named' /\ named'[u] = named[u],
           \A u \in DOMAIN named : u \in Items' => u \in Items,
           made'[r] \subseteq made[r],
           tf'[r] = tf[r] \/ tf'[r] = None,
           \/ step'[r] = step[r] /\ op'[r] = op[r]
           \/ step'[r] # "create" /\ op'[r] \in {"none", "delete", op[r]}
           \/ step'[r] = "create" /\ op'[r] = "none" /\ tf'[r] = None
           \/ step'[r] = "created" /\ step[r] = "create"
    PROVE  Owned(r)'
BY DEF Owned, Bears

\* An item listed under the name is all that is listed of the resource's.
LEMMA OneOwned ==
    ASSUME AccountOK, NEW r \in Resources, Owned(r), NEW u \in Items, Bears(u, r)
    PROVE  \A v \in made[r] : v \in Items => v = u
<1> SUFFICES ASSUME NEW v \in made[r], v \in Items PROVE v = u
  OBVIOUS
<1>1. Bears(v, r)
  BY DEF Owned
<1>2. PICK i, j \in DOMAIN account : account[i] = u /\ account[j] = v
  BY DEF Items, ToSet
<1> QED
  BY <1>1, <1>2 DEF AccountOK, Bears

\* What Terraform takes over is an item of the name.
LEMMA OwnedTaken ==
    ASSUME AccountOK, NEW r \in Resources, Owned(r), State(r) \in Items, Bears(State(r), r),
           UNCHANGED <<named, account>>, made'[r] = made[r], tf'[r] = State(r),
           step'[r] = "idle", op'[r] # "create"
    PROVE  Owned(r)'
<1> HIDE DEF State
<1>1. \A v \in made[r] : v \in Items => v = State(r)
  BY OneOwned
<1>2. Items' = Items
  BY ItemsAfter
<1> QED
  BY <1>1, <1>2 DEF Owned, Bears

\* Nothing was listed under the name of an item that is made.
LEMMA OwnedMade ==
    ASSUME TypeOK, NEW r \in Resources, Owned(r), Store(r), tf'[r] \in {None, Len(named) + 1}
    PROVE  Owned(r)'
<1> DEFINE u == Len(named) + 1
<1>1. /\ op[r] = "create" /\ op'[r] = "none" /\ step' = step /\ PutIn(NameOf[r])
      /\ made'[r] = made[r] \cup {u} /\ NameOf[r] \in Names
  BY DEF Store, End, TypeOK, reconciles, Names
<1>2. /\ \A v \in DOMAIN named : v \in DOMAIN named' /\ named'[v] = named[v]
      /\ u \in DOMAIN named' /\ named'[u] = NameOf[r]
  BY <1>1, ItemAdded DEF PutIn, TypeOK
<1>3. Items' = Items \cup {u} /\ Bearers(NameOf[r]) = {}
  BY <1>1, ItemsAfter DEF PutIn, TypeOK
<1>4. \A v \in made[r] : v \in Items' => v = u
  BY <1>3 DEF Owned, Bears, Bearers
<1> HIDE DEF u
<1>5. \A v \in made'[r] : v \in Items' => v = u
  BY <1>1, <1>4
<1>6. \A v \in made'[r] : Bears(v, r)'
  BY <1>1, <1>2 DEF Owned, Bears
<1>7. step'[r] # "create"
  BY <1>1 DEF Owned
<1> QED
  BY <1>1, <1>5, <1>6, <1>7 DEF Owned, u

\* Items that come, and steps that do not reach the observation, change nothing.
LEMMA SeenKept ==
    ASSUME NEW r \in Resources, Seen(r), Items \subseteq Items',
           present'[r] = present[r], shifted'[r] = shifted[r],
           \/ step[r] # "idle" /\ step'[r] # "connect"
           \/ /\ step'[r] = step[r] /\ found'[r] = found[r]
              /\ \/ object'[r] = object[r]
                 \/ object'[r].phase = "absent"
                 \/ object[r].phase # "absent" /\ object'[r].ext = object[r].ext
                 \/ step[r] = "idle"
    PROVE  Seen(r)'
BY DEF Seen

LEMMA SeenIdle ==
    ASSUME NEW r \in Resources, step'[r] = "idle"
    PROVE  Seen(r)'
BY DEF Seen

LEMMA SeenShifted ==
    ASSUME NEW r \in Resources, NEW u, TakeOut(u), step' = step
    PROVE  Seen(r)'
BY DEF Seen, TakeOut

LEMMA NothingIsForgotten == Spec => []\A r \in Resources : Owned(r) /\ Seen(r)
<1>1. Init => \A r \in Resources : Owned(r) /\ Seen(r)
  BY DEF Init, Owned, Seen
<1>2. TypeOK /\ TiedByName /\ (\A r \in Resources : Owned(r) /\ Seen(r)) /\ [Next]_vars
        => (\A r \in Resources : Owned(r) /\ Seen(r))'
  <2> SUFFICES ASSUME TypeOK, TiedByName, \A q \in Resources : Owned(q) /\ Seen(q), [Next]_vars,
                      NEW r \in Resources
               PROVE  Owned(r)' /\ Seen(r)'
    OBVIOUS
  <2> USE DEF reconciles, operations, history
  <2>1. Owned(r) /\ Seen(r) /\ AccountOK
    BY DEF TypeOK
  <2>2. /\ object \in [Resources -> Object] /\ found \in [Resources -> UUIDs \cup {None}]
        /\ step \in [Resources -> {"idle", "lookup", "connect", "create", "created"}]
        /\ page \in [Resources -> 1..(MaxItems + 1)]
        /\ op \in [Resources -> {"none", "create", "delete"}]
        /\ tf \in [Resources -> UUIDs \cup {None}]
        /\ present \in [Resources -> UUIDs \cup {None}] /\ shifted \in [Resources -> BOOLEAN]
        /\ made \in [Resources -> SUBSET UUIDs]
    BY DEF TypeOK
  <2>3. \A u \in DOMAIN named : u \in DOMAIN named' /\ named'[u] = named[u]
    BY NamesKept
  <2>4. account' = account => Items' = Items
    BY <2>1, ItemsAfter
  <2>5. ASSUME NEW q \in Resources, Idle(q)
        PROVE  \/ step'[r] = "idle"
               \/ /\ q # r /\ step'[r] = step[r] /\ found'[r] = found[r]
                  /\ present'[r] = present[r] /\ shifted'[r] = shifted[r]
    BY <2>2, <2>5 DEF Idle
  <2>6. ASSUME NEW q \in Resources, Idle(q), account' = account,
               q # r => object'[r] = object[r]
        PROVE  Seen(r)'
    BY <2>1, <2>4, <2>5, <2>6, SeenIdle, SeenKept
  <2>7. ASSUME NEW q \in Resources, Initialize(q) PROVE Owned(r)' /\ Seen(r)'
    <3>1. /\ UNCHANGED <<named, account, object, op, tf, made>> /\ step[q] = "idle"
          /\ step' = [step EXCEPT ![q] = IF object[q].ext = None THEN "lookup" ELSE "connect"]
          /\ found' = [found EXCEPT ![q] = object[q].ext]
          /\ present' = [present EXCEPT ![q] = Bearer(NameOf[q])]
          /\ shifted' = [shifted EXCEPT ![q] = FALSE]
      BY <2>7 DEF Initialize
    <3>2. Owned(r)'
      <4>1. step'[r] = step[r] \/ step'[r] # "create"
        BY <2>2, <3>1
      <4> QED
        BY <2>1, <2>3, <2>4, <3>1, <4>1, OwnedKept
    <3>3. Seen(r)'
      <4>1. CASE q = r
        <5>1. /\ step'[r] = "connect" => object'[r].ext # None
              /\ present'[r] = Bearer(NameOf[r])
          BY <2>2, <3>1, <4>1
        <5>2. Bearer(NameOf[r]) \in Items \cup {None}
          BY DEF Bearer, Bearers
        <5> QED
          BY <2>4, <3>1, <5>1, <5>2 DEF Seen
      <4>2. CASE q # r
        <5>1. /\ step'[r] = step[r] /\ found'[r] = found[r]
              /\ present'[r] = present[r] /\ shifted'[r] = shifted[r]
          BY <2>2, <3>1, <4>2
        <5> QED
          BY <2>1, <2>4, <3>1, <5>1, SeenKept
      <4> QED
        BY <4>1, <4>2
    <3> QED
      BY <3>2, <3>3
  <2>8. ASSUME NEW q \in Resources, Lookup(q) PROVE Owned(r)' /\ Seen(r)'
    <3>1. UNCHANGED <<named, account, object, op, tf, made, present, shifted>> /\ step[q] = "lookup"
      BY <2>8 DEF Lookup
    <3>2. \/ step' = step /\ found' = found
          \/ /\ step' = [step EXCEPT ![q] = "connect"]
             /\ \E u \in Items \cup {None} : found' = [found EXCEPT ![q] = u]
      BY <2>1, <2>8, LookupResult, ListedItems
    <3>3. Owned(r)'
      <4>1. step'[r] = step[r] \/ step'[r] = "connect"
        BY <2>2, <3>2
      <4> QED
        BY <2>1, <2>3, <2>4, <3>1, <4>1, OwnedKept
    <3>4. Seen(r)'
      <4>1. CASE step'[r] = step[r] /\ found'[r] = found[r]
        BY <2>1, <2>4, <3>1, <4>1, SeenKept
      <4>2. CASE step[r] = "lookup" /\ found'[r] \in Items \cup {None}
        BY <2>1, <2>4, <3>1, <4>2 DEF Seen
      <4> QED
        BY <2>2, <3>1, <3>2, <4>1, <4>2
    <3> QED
      BY <3>3, <3>4
  <2>9. ASSUME NEW q \in Resources, Refuse(q) \/ Wait(q) \/ Fault(q) PROVE Owned(r)' /\ Seen(r)'
    <3>1. Idle(q) /\ UNCHANGED <<named, account, object, op, tf, made>>
      BY <2>9 DEF Refuse, Wait, Fault
    <3>2. Owned(r)'
      BY <2>1, <2>3, <2>4, <2>5, <3>1, OwnedKept
    <3> QED
      BY <2>6, <3>1, <3>2
  <2>10. ASSUME NEW q \in Resources, Adopt(q) \/ Delete(q) PROVE Owned(r)' /\ Seen(r)'
    <3>1. /\ Idle(q) /\ State(q) \in Items /\ tf' = [tf EXCEPT ![q] = State(q)]
          /\ op[q] = "none" /\ UNCHANGED <<named, account, made>>
          /\ op' = op \/ op' = [op EXCEPT ![q] = "delete"]
      BY <2>10 DEF Adopt, Delete, Observes
    <3>2. CASE q = r
      <4>1. State(r) # None
        <5>1. Items \subseteq DOMAIN named /\ 0 \notin DOMAIN named
          BY DEF Items, ToSet, TypeOK, AccountOK
        <5> QED
          BY <3>1, <3>2, <5>1 DEF None
      <4>2. Bears(State(r), r)
        BY <4>1 DEF State, TiedByName
      <4>3. tf'[r] = State(r) /\ step'[r] = "idle" /\ op'[r] # "create" /\ made'[r] = made[r]
        <5>1. tf'[r] = State(r)
          BY <2>2, <3>1, <3>2
        <5>2. step'[r] = "idle"
          BY <2>2, <3>1, <3>2 DEF Idle
        <5>3. op'[r] # "create"
          BY <2>2, <3>1, <3>2
        <5> QED
          BY <3>1, <5>1, <5>2, <5>3
      <4>4. Owned(r)'
        BY <2>1, <3>1, <3>2, <4>2, <4>3, OwnedTaken
      <4> QED
        BY <4>3, <4>4, SeenIdle
    <3>3. CASE q # r
      <4>1. tf'[r] = tf[r] /\ op'[r] = op[r]
        BY <2>2, <3>1, <3>3
      <4>2. Owned(r)'
        BY <2>1, <2>3, <2>4, <2>5, <3>1, <3>3, <4>1, OwnedKept
      <4>3. object'[r] = object[r]
        BY <2>2, <2>10, <3>3 DEF Adopt, Delete
      <4> QED
        BY <2>6, <3>1, <4>2, <4>3
    <3> QED
      BY <3>2, <3>3
  <2>11. ASSUME NEW q \in Resources, Announce(q) PROVE Owned(r)' /\ Seen(r)'
    <3>1. /\ step[q] = "connect" /\ op[q] = "none" /\ step' = [step EXCEPT ![q] = "create"]
          /\ tf' = [tf EXCEPT ![q] = None]
          /\ UNCHANGED <<named, account, op, made, found, present, shifted>>
      BY <2>11 DEF Announce, Observes, Connects
    <3>2. \/ q = r /\ step'[r] = "create" /\ tf'[r] = None
          \/ q # r /\ step'[r] = step[r] /\ tf'[r] = tf[r]
      BY <2>2, <3>1
    <3>3. Owned(r)'
      BY <2>1, <2>3, <2>4, <3>1, <3>2, OwnedKept
    <3>4. q # r => object'[r] = object[r]
      BY <2>2, <2>11 DEF Announce
    <3> QED
      BY <2>1, <2>4, <3>1, <3>2, <3>3, <3>4, SeenKept
  <2>12. ASSUME NEW q \in Resources, Create(q) PROVE Owned(r)' /\ Seen(r)'
    <3>1. /\ step[q] = "create" /\ step' = [step EXCEPT ![q] = "created"]
          /\ op' = [op EXCEPT ![q] = "create"]
          /\ UNCHANGED <<named, account, object, tf, made, found, present, shifted>>
      BY <2>12 DEF Create
    <3>2. \/ q = r /\ step[r] = "create" /\ step'[r] = "created"
          \/ q # r /\ step'[r] = step[r] /\ op'[r] = op[r]
      BY <2>2, <3>1
    <3> QED
      BY <2>1, <2>3, <2>4, <3>1, <3>2, OwnedKept, SeenKept
  <2>13. ASSUME NEW q \in Resources, Record(q) PROVE Owned(r)' /\ Seen(r)'
    <3>1. Idle(q) /\ UNCHANGED <<named, account, op, tf, made>>
      BY <2>13 DEF Record
    <3>2. Owned(r)'
      BY <2>1, <2>3, <2>4, <2>5, <3>1, OwnedKept
    <3>3. q # r => object'[r] = object[r]
      BY <2>2, <2>13 DEF Record
    <3> QED
      BY <2>6, <3>1, <3>2, <3>3
  <2>14. ASSUME NEW q \in Resources, Finalize(q) PROVE Owned(r)' /\ Seen(r)'
    <3>1. /\ Idle(q) /\ UNCHANGED <<named, account, op>>
          /\ tf' = [tf EXCEPT ![q] = None] /\ made' = [made EXCEPT ![q] = {}]
      BY <2>14 DEF Finalize
    <3>2. (tf'[r] = tf[r] \/ tf'[r] = None) /\ made'[r] \subseteq made[r]
      BY <2>2, <3>1
    <3>3. Owned(r)'
      BY <2>1, <2>3, <2>4, <2>5, <3>1, <3>2, OwnedKept
    <3>4. q # r => object'[r] = object[r]
      BY <2>2, <2>14 DEF Finalize
    <3> QED
      BY <2>6, <3>1, <3>3, <3>4
  <2>15. ASSUME NEW q \in Resources, CreateRefused(q) PROVE Owned(r)' /\ Seen(r)'
    <3>1. /\ op' = [op EXCEPT ![q] = "none"]
          /\ UNCHANGED <<named, account, object, tf, made, step, found, present, shifted>>
      BY <2>15 DEF CreateRefused, End
    <3>2. op'[r] \in {"none", op[r]}
      BY <2>2, <3>1
    <3>3. Owned(r)'
      <4>1. CASE op'[r] = op[r]
        BY <2>1, <2>3, <2>4, <3>1, <4>1, OwnedKept
      <4>2. CASE op'[r] = "none"
        BY <2>1, <2>4, <3>1, <4>2 DEF Owned, Bears
      <4> QED
        BY <3>2, <4>1, <4>2
    <3> QED
      BY <2>1, <2>4, <3>1, <3>3, SeenKept
  <2>16. ASSUME NEW q \in Resources, CreateStored(q) \/ CreateLost(q) PROVE Owned(r)' /\ Seen(r)'
    <3>1. /\ Store(q)
          /\ tf' = tf \/ tf' = [tf EXCEPT ![q] = Len(named) + 1]
      BY <2>16 DEF CreateStored, CreateLost
    <3>2. /\ op[q] = "create" /\ PutIn(NameOf[q])
          /\ op' = [op EXCEPT ![q] = "none"]
          /\ made' = [made EXCEPT ![q] = @ \cup {Len(named) + 1}]
          /\ UNCHANGED <<object, step, found, present, shifted>>
      BY <3>1 DEF Store, End
    <3>3. Items' = Items \cup {Len(named) + 1} /\ Len(named) + 1 \notin DOMAIN named
      <4>1. Len(named) + 1 \notin DOMAIN named
        BY <2>1 DEF AccountOK
      <4> QED
        BY <2>1, <3>2, <4>1, ItemsAfter
    <3>4. Owned(r)'
      <4>1. CASE q = r
        <5>1. tf[r] = None
          BY <2>1, <3>2, <4>1 DEF Owned
        <5>2. tf'[r] \in {None, Len(named) + 1}
          BY <2>2, <3>1, <4>1, <5>1
        <5> QED
          BY <2>1, <3>1, <4>1, <5>2, OwnedMade
      <4>2. CASE q # r
        <5>1. tf'[r] = tf[r] /\ made'[r] = made[r] /\ op'[r] = op[r]
          BY <2>2, <3>1, <3>2, <4>2
        <5> QED
          BY <2>1, <2>3, <3>2, <3>3, <5>1, OwnedKept
      <4> QED
        BY <4>1, <4>2
    <3> QED
      BY <2>1, <3>2, <3>3, <3>4, SeenKept
  <2>17. ASSUME NEW q \in Resources, Deleted(q) PROVE Owned(r)' /\ Seen(r)'
    <3>1. /\ op' = [op EXCEPT ![q] = "none"] /\ op[q] = "delete"
          /\ UNCHANGED <<named, object, step, found, tf, made>>
      BY <2>17 DEF Deleted, End
    <3>2. \/ TakeOut(tf[q])
          \/ UNCHANGED <<account, present, shifted>>
      BY <2>17 DEF Deleted
    <3>3. Items' \subseteq Items
      BY <2>1, <2>4, <3>2, ItemsAfter
    <3>4. Owned(r)'
      <4>1. op'[r] = op[r] \/ (step'[r] # "create" /\ op'[r] = "none")
        <5>1. CASE q = r
          BY <2>1, <2>2, <3>1, <5>1 DEF Owned
        <5>2. CASE q # r
          BY <2>2, <3>1, <5>2
        <5> QED
          BY <5>1, <5>2
      <4> QED
        BY <2>1, <2>3, <3>1, <3>3, <4>1, OwnedKept
    <3>5. Seen(r)'
      <4>1. CASE TakeOut(tf[q])
        BY <3>1, <4>1, SeenShifted
      <4>2. CASE UNCHANGED <<account, present, shifted>>
        BY <2>1, <2>4, <3>1, <4>2, SeenKept
      <4> QED
        BY <3>2, <4>1, <4>2
    <3> QED
      BY <3>4, <3>5
  <2>18. CASE Restart
    <3>1. /\ step'[r] = "idle" /\ op'[r] = "none" /\ tf'[r] = None
          /\ UNCHANGED <<named, account, made>>
      BY <2>18 DEF Restart
    <3> QED
      BY <2>1, <2>3, <2>4, <3>1, OwnedKept, SeenIdle
  <2>19. ASSUME NEW q \in Resources, Apply(q) \/ RequestDeletion(q) PROVE Owned(r)' /\ Seen(r)'
    <3>1. UNCHANGED <<named, account, step, found, op, tf, made, present, shifted>>
      BY <2>19 DEF Apply, RequestDeletion, Edit
    <3>2. \/ object'[r] = object[r]
          \/ object'[r].phase = "absent"
          \/ object[r].phase # "absent" /\ object'[r].ext = object[r].ext
          \/ step[r] = "idle"
      <4>1. CASE Apply(q)
        BY <2>2, <4>1 DEF Apply
      <4>2. CASE RequestDeletion(q)
        <5>1. /\ object[q].phase = "live"
              /\ \/ object' = [object EXCEPT ![q] = [object[q] EXCEPT !.phase = "deleting"]]
                 \/ object' = [object EXCEPT ![q] = Absent]
          BY <4>2 DEF RequestDeletion
        <5> QED
          BY <2>2, <5>1 DEF Object, Absent
      <4> QED
        BY <2>19, <4>1, <4>2
    <3> QED
      BY <2>1, <2>3, <2>4, <3>1, <3>2, OwnedKept, SeenKept
  <2>20. ASSUME NEW n \in Names, AddItem(n) PROVE Owned(r)' /\ Seen(r)'
    <3>1. PutIn(n) /\ UNCHANGED <<object, step, found, op, tf, made, present, shifted>>
      BY <2>20 DEF AddItem, Edit
    <3>2. Items' = Items \cup {Len(named) + 1} /\ Len(named) + 1 \notin DOMAIN named
      <4>1. Len(named) + 1 \notin DOMAIN named
        BY <2>1 DEF AccountOK
      <4> QED
        BY <2>1, <3>1, <4>1, ItemsAfter
    <3> QED
      BY <2>1, <2>3, <3>1, <3>2, OwnedKept, SeenKept
  <2>21. ASSUME NEW u \in Items, RemoveItem(u) PROVE Owned(r)' /\ Seen(r)'
    <3>1. TakeOut(u) /\ UNCHANGED <<named, object, step, found, op, tf, made>>
      BY <2>21 DEF RemoveItem, Edit
    <3>2. Items' \subseteq Items
      BY <2>1, <3>1, ItemsAfter
    <3> QED
      BY <2>1, <2>3, <3>1, <3>2, OwnedKept, SeenShifted
  <2>22. CASE UNCHANGED vars
    BY <2>1, <2>3, <2>4, <2>22, OwnedKept, SeenKept DEF vars
  <2> QED
    BY <2>7, <2>8, <2>9, <2>10, <2>11, <2>12, <2>13, <2>14, <2>15, <2>16, <2>17, <2>18,
       <2>19, <2>20, <2>21, <2>22 DEF Next, Reconcile, Operate, Outside
<1> QED
  BY <1>1, <1>2, TypeCorrect, TiesAreByName, PTL DEF Spec

\* A resource without an external name that goes leaves no item behind that
\* it made and that its last lookup has seen from the start to the end.
THEOREM NothingIsLeftBehind == Spec => NothingLeftBehind
<1>1. TypeOK /\ TiedByName /\ QuietLookupFinds /\ (\A r \in Resources : Owned(r) /\ Seen(r))
        => \A r \in Resources :
              Finalize(r) /\ object[r].ext = None => present[r] \notin made[r] \/ shifted[r]
  <2> SUFFICES ASSUME TypeOK, TiedByName, QuietLookupFinds, NEW r \in Resources,
                      Owned(r), Seen(r), Finalize(r), object[r].ext = None,
                      present[r] \in made[r], ~shifted[r]
               PROVE  FALSE
    OBVIOUS
  <2>1. step[r] = "connect" /\ object[r].phase = "deleting" /\ State(r) \notin Items
    BY DEF Finalize, Observes, Connects
  <2>2. present[r] # None /\ Bears(present[r], r)
    BY DEF TypeOK, UUIDs, None, Owned
  <2>3. found[r] # None
    BY <2>1, <2>2 DEF QuietLookupFinds
  <2>4. present[r] \in Items /\ found[r] \in Items
    BY <2>1, <2>2, <2>3 DEF Seen
  <2>5. CASE tf[r] = None
    BY <2>1, <2>4, <2>5 DEF State
  <2>6. CASE tf[r] # None
    <3>1. present[r] = tf[r]
      BY <2>4, <2>6 DEF Owned
    <3> QED
      BY <2>1, <2>4, <2>6, <3>1 DEF State
  <2> QED
    BY <2>5, <2>6
<1>2. TypeOK /\ TiedByName /\ QuietLookupFinds /\ (\A r \in Resources : Owned(r) /\ Seen(r))
        /\ [Next]_vars
        => [\A r \in Resources :
              Finalize(r) /\ object[r].ext = None
                  => present[r] \notin made[r] \/ shifted[r]]_vars
  BY <1>1
<1> QED
  BY <1>2, TypeCorrect, TiesAreByName, QuietLookupsFind, NothingIsForgotten, PTL
     DEF Spec, NothingLeftBehind

=============================================================================
