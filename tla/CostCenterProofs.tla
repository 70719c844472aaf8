--------------------------- MODULE CostCenterProofs ---------------------------
(***************************************************************************)
(* Theorems about CostCenter, for any resources, keys, values and bounds.  *)
(***************************************************************************)
EXTENDS CostCenter, TLAPS

-----------------------------------------------------------------------------
(***************************************************************************)
(* Objects and items                                                       *)
(***************************************************************************)

\* The fields of an object have their types.
LEMMA ObjectFields ==
    ASSUME NEW o \in Object
    PROVE  /\ o.phase \in {"absent", "live", "deleting"}
           /\ o.fin \in BOOLEAN
           /\ o.ext \in Keys \cup {NoKey}
           /\ o.creation \in {"none", "pending", "succeeded", "failed"}
           /\ o.spec \in Specs \cup {NoSpec}
           /\ o.at \in Item \cup {NoItem}
  BY DEF Object

\* An object stays one when the controller or a user changes a field.
LEMMA ObjectChanges ==
    ASSUME NEW o \in Object
    PROVE  /\ \A b \in BOOLEAN : [o EXCEPT !.fin = b] \in Object
           /\ \A k \in Keys \cup {NoKey} : [o EXCEPT !.ext = k] \in Object
           /\ \A a \in Item \cup {NoItem} : [o EXCEPT !.at = a] \in Object
           /\ \A s \in Specs \cup {NoSpec} : [o EXCEPT !.spec = s] \in Object
           /\ \A p \in {"none", "pending", "succeeded", "failed"} :
                 /\ [o EXCEPT !.creation = p] \in Object
                 /\ \A k \in Keys \cup {NoKey} :
                       [o EXCEPT !.ext = k, !.creation = p] \in Object
           /\ [o EXCEPT !.phase = "deleting"] \in Object
           /\ \A s \in Specs, k \in Keys \cup {NoKey} :
                 [o EXCEPT !.phase = "live", !.spec = s, !.ext = k] \in Object
  BY DEF Object

\* An object nobody stores is one too.
LEMMA GoneIsObject == Gone \in Object
  BY DEF Gone, Object

\* findItem answers with a cost center of the account that has the key asked
\* for, or with none, and then the account has none.
LEMMA FindItemAnswer ==
    ASSUME NEW k, store \in [Keys -> Values \cup {NoValue}]
    PROVE  \/ /\ FindItem(k) = NoItem
              /\ k \in Keys => store[k] = NoValue
           \/ /\ k \in Keys
              /\ store[k] # NoValue
              /\ FindItem(k) = [key |-> k, val |-> store[k]]
              /\ FindItem(k) \in Item
              /\ FindItem(k) # NoItem
<1>1. CASE \E item \in List : item.key = k
  <2> DEFINE it == CHOOSE item \in List : item.key = k
  <2>1. it \in List /\ it.key = k
    BY <1>1
  <2>2. PICK l \in Keys : store[l] # NoValue /\ it = [key |-> l, val |-> store[l]]
    BY <2>1 DEF List
  <2>3. l = k
    BY <2>1, <2>2
  <2>4. FindItem(k) = [key |-> k, val |-> store[k]]
    BY <1>1, <2>2, <2>3 DEF FindItem
  <2>5. k \in Keys /\ store[k] \in Values
    BY <2>2, <2>3
  <2>6. [key |-> k, val |-> store[k]] # NoItem
    BY <2>5, CostCenterAssumption DEF NoItem
  <2> QED
    BY <2>2, <2>3, <2>4, <2>5, <2>6 DEF Item
<1>2. CASE ~ \E item \in List : item.key = k
  <2>1. FindItem(k) = NoItem
    BY <1>2 DEF FindItem
  <2>2. ASSUME k \in Keys, store[k] # NoValue PROVE FALSE
    <3>1. [key |-> k, val |-> store[k]] \in List
      BY <2>2 DEF List
    <3> QED
      BY <1>2, <3>1
  <2> QED
    BY <2>1, <2>2
<1> QED
  BY <1>1, <1>2

-----------------------------------------------------------------------------
(***************************************************************************)
(* Type correctness                                                        *)
(***************************************************************************)

\* The initial states have the right types.
LEMMA TypeInit == Init => TypeOK
  BY GoneIsObject, CostCenterAssumption DEF Init, TypeOK, Steps

\* Every value an action posts is one.
LEMMA DesiredIsValue ==
    ASSUME NEW s \in Specs \cup {NoSpec}
    PROVE  DesiredValue(s) \in Values
  <1>1. CASE s \in Specs
    BY <1>1, CostCenterAssumption DEF DesiredValue, Spec_t
  <1>2. CASE s = NoSpec
    BY <1>2, CostCenterAssumption DEF DesiredValue, NoSpec
  <1> QED
    BY <1>1, <1>2

\* A spec's key is a key or none.
LEMMA SpecKey ==
    ASSUME NEW s \in Specs \cup {NoSpec}
    PROVE  s.key \in Keys \cup {NoKey}
  BY CostCenterAssumption DEF Spec_t, NoSpec

\* The parts of an object the controller keeps have their types.
LEMMA TypedObjects ==
    ASSUME TypeOK, NEW c \in Resources
    PROVE  /\ api[c] \in Object /\ cache[c] \in Object /\ work[c] \in Object
           /\ found[c] \in Item \cup {NoItem}
           /\ api[c].at \in Item \cup {NoItem}
           /\ work[c].at \in Item \cup {NoItem}
           /\ work[c].ext \in Keys \cup {NoKey}
           /\ work[c].creation \in {"none", "pending", "succeeded", "failed"}
           /\ work[c].spec \in Specs \cup {NoSpec}
           /\ work[c].spec.key \in Keys \cup {NoKey}
           /\ NameOf[c] \in Keys
  BY ObjectFields, SpecKey, CostCenterAssumption DEF TypeOK

\* What Observe matches is an item.
LEMMA FindItemType ==
    ASSUME TypeOK, NEW k
    PROVE  FindItem(k) \in Item \cup {NoItem}
  BY FindItemAnswer DEF TypeOK

\* No step of a reconcile breaks a type.
LEMMA TypeReconcile ==
    ASSUME TypeOK, NEW c \in Resources, Reconcile(c)
    PROVE  TypeOK'
<1> USE TypedObjects, ObjectChanges, GoneIsObject
<1>1. CASE Start(c)
  BY <1>1 DEF Start, Local, TypeOK, kube, local, account, bounds, Steps
<1>2. CASE DefaultName(c)
  BY <1>2 DEF DefaultName, Update, TypeOK, kube, local, account, bounds, Steps
<1>3. CASE RefuseIncomplete(c)
  BY <1>3 DEF RefuseIncomplete, Return, TypeOK, kube, local, account, bounds, Steps
<1>4. CASE Proceed(c)
  BY <1>4 DEF Proceed, Local, TypeOK, kube, local, account, bounds, Steps
<1>5. CASE Connect(c)
  BY <1>5 DEF Connect, Local, TypeOK, kube, local, account, bounds, Steps
<1>6. CASE Observe(c)
  <2> DEFINE item == FindItem(TargetKey(work[c]))
  <2>1. /\ item \in Item \cup {NoItem}
        /\ item # NoItem => item.key \in Keys
    BY FindItemType DEF Item
  <2>2. /\ found' = [found EXCEPT ![c] = item]
        /\ \/ work' = work
           \/ work' = [work EXCEPT ![c].ext = item.key] /\ item # NoItem
           \/ work' = [work EXCEPT ![c].at = item]
        /\ \/ pc' = [pc EXCEPT ![c] = "decide"]
           \/ pc' = [pc EXCEPT ![c] = "syncName"]
        /\ UNCHANGED <<kube, workFresh, account, bounds>>
    BY <1>6 DEF Observe, Local
  <2> HIDE DEF item
  <2>3. found' \in [Resources -> Item \cup {NoItem}]
    BY <2>1, <2>2 DEF TypeOK
  <2>4. work' \in [Resources -> Object]
    <3>1. item # NoItem => [work[c] EXCEPT !.ext = item.key] \in Object
      BY <2>1
    <3>2. [work[c] EXCEPT !.at = item] \in Object
      BY <2>1
    <3> QED
      BY <2>2, <3>1, <3>2 DEF TypeOK
  <2>5. pc' \in [Resources -> Steps]
    BY <2>2 DEF TypeOK, Steps
  <2> QED
    BY <2>2, <2>3, <2>4, <2>5 DEF TypeOK, kube, account, bounds
<1>7. CASE SyncExternalName(c)
  BY <1>7 DEF SyncExternalName, TypeOK, kube, local, account, bounds, Steps
<1>8. CASE AddFinalizer(c)
  BY <1>8 DEF AddFinalizer, Update, TypeOK, kube, local, account, bounds, Steps
<1>9. CASE AnnounceCreate(c)
  BY <1>9 DEF AnnounceCreate, Update, TypeOK, kube, local, account, bounds, Steps
<1>10. CASE UpToDate(c)
  BY <1>10 DEF UpToDate, Local, TypeOK, kube, local, account, bounds, Steps
<1>11. CASE Report(c)
  BY <1>11 DEF Report, Return, TypeOK, kube, local, account, bounds, Steps
<1>12. CASE RemoveFinalizer(c)
  BY <1>12 DEF RemoveFinalizer, Return, Gone, TypeOK, kube, local, account, bounds, Steps
<1>13. CASE CreateStored(c)
  <2>1. work[c].spec.key \in Keys /\ DesiredValue(work[c].spec) \in Values
    BY <1>13, DesiredIsValue DEF CreateStored
  <2> QED
    BY <1>13, <2>1 DEF CreateStored, TypeOK, kube, bounds, Steps
<1>14. CASE CreateConflict(c)
  BY <1>14 DEF CreateConflict, TypeOK, kube, local, account, bounds, Steps
<1>15. CASE CreateKeyless(c)
  BY <1>15 DEF CreateKeyless, TypeOK, kube, local, account, bounds, Steps
<1>16. CASE SaveName(c)
  BY <1>16 DEF SaveName, TypeOK, kube, local, account, bounds, Steps
<1>17. CASE SaveNameConflict(c)
  BY <1>17 DEF SaveNameConflict, TypeOK, kube, local, account, bounds, Steps
<1>18. CASE RecordOutcome(c)
  BY <1>18 DEF RecordOutcome, Return, TypeOK, kube, local, account, bounds, Steps
<1>19. CASE Delete(c)
  <2>1. CASE UNCHANGED account
    BY <1>19, <2>1 DEF Delete, TypeOK, kube, account, bounds, Steps
  <2>2. CASE Removed(work[c].ext)
    BY <1>19, <2>2 DEF Delete, Removed, TypeOK, kube, bounds, Steps
  <2> QED
    BY <1>19, <2>1, <2>2 DEF Delete
<1>20. CASE Conflict(c)
  BY <1>20 DEF Conflict, Return, TypeOK, kube, local, account, bounds, Steps
<1> QED
  BY <1>1, <1>2, <1>3, <1>4, <1>5, <1>6, <1>7, <1>8, <1>9, <1>10, <1>11, <1>12, <1>13, <1>14, <1>15, <1>16, <1>17, <1>18, <1>19, <1>20 DEF Reconcile

\* A counter below its bound can be incremented.
LEMMA Counters ==
    ASSUME TypeOK
    PROVE  /\ faults < MaxFaults => faults + 1 \in 0..MaxFaults
           /\ edits < MaxEdits => edits + 1 \in 0..MaxEdits
  BY CostCenterAssumption DEF TypeOK

\* No failure breaks a type.
LEMMA TypeFailure ==
    ASSUME TypeOK, NEW c \in Resources, Failure(c)
    PROVE  TypeOK'
<1> USE TypedObjects, ObjectChanges, GoneIsObject, Counters
<1>1. CASE CreateLost(c)
  <2>1. work[c].spec.key \in Keys /\ DesiredValue(work[c].spec) \in Values
    BY <1>1, DesiredIsValue DEF CreateLost
  <2> QED
    BY <1>1, <2>1 DEF CreateLost, TypeOK, kube, Steps
<1>2. CASE CreateFails(c)
  BY <1>2 DEF CreateFails, TypeOK, kube, account, Steps
<1>3. CASE SaveNameFails(c)
  BY <1>3 DEF SaveNameFails, TypeOK, kube, account, Steps
<1>4. CASE Fault(c)
  BY <1>4 DEF Fault, Return, TypeOK, kube, account, Steps
<1> QED
  BY <1>1, <1>2, <1>3, <1>4 DEF Failure

\* No user, watch or other client breaks a type.
LEMMA TypeEnvironment ==
    ASSUME TypeOK, NEW c \in Resources, User(c) \/ CacheSync(c)
    PROVE  TypeOK'
<1> USE TypedObjects, ObjectChanges, GoneIsObject, Counters
<1>1. ASSUME NEW s \in Specs, EditSpec(c, s) PROVE TypeOK'
  BY <1>1 DEF EditSpec, OutsideUpdate, TypeOK, account
<1>2. ASSUME NEW s \in Specs, NEW k \in Imports, Apply(c, s, k)
      PROVE  TypeOK'
  <2>1. k \in Keys \cup {NoKey}
    BY CostCenterAssumption
  <2> QED
    BY <1>2, <2>1 DEF Apply, OutsideUpdate, TypeOK, account
<1>3. CASE RequestDeletion(c)
  BY <1>3 DEF RequestDeletion, OutsideUpdate, TypeOK, account, bounds
<1>4. CASE CacheSync(c)
  BY <1>4 DEF CacheSync, TypeOK, local, account, bounds
<1> QED
  BY <1>1, <1>2, <1>3, <1>4 DEF User

\* No step at all breaks a type.
LEMMA TypeNext == TypeOK /\ [Next]_vars => TypeOK'
<1> SUFFICES ASSUME TypeOK, [Next]_vars PROVE TypeOK'
  OBVIOUS
<1>1. ASSUME NEW c \in Resources,
             Reconcile(c) \/ Failure(c) \/ User(c) \/ CacheSync(c)
      PROVE  TypeOK'
  BY <1>1, TypeReconcile, TypeFailure, TypeEnvironment
<1>2. CASE Restart
  BY <1>2, GoneIsObject, Counters DEF Restart, TypeOK, account, Steps
<1>3. ASSUME NEW k \in Keys, NEW v \in Values \cup {NoValue}, OutOfBand(k, v)
      PROVE  TypeOK'
  BY <1>3, Counters DEF OutOfBand, Removed, TypeOK, kube, local
<1>4. CASE UNCHANGED vars
  BY <1>4 DEF TypeOK, vars, kube, local, account, bounds
<1> QED
  BY <1>1, <1>2, <1>3, <1>4 DEF Next

\* Type correctness: every reachable state has its types, whatever the
\* resources, specs and bounds.
THEOREM TypeCorrect == Spec => []TypeOK
<1>1. Init => TypeOK
  BY TypeInit
<1>2. TypeOK /\ [Next]_vars => TypeOK'
  BY TypeNext
<1> QED
  BY <1>1, <1>2, PTL DEF Spec

-----------------------------------------------------------------------------
(***************************************************************************)
(* Claimed cost centers are never forgotten                                *)
(*                                                                         *)
(* A step of one resource leaves the variables of the others alone, but    *)
(* for the account, where it may take a cost center, and with it a claim,  *)
(* away.  So the invariant is split by resource: the first lemma is about  *)
(* the resources a step does not act on, the others about the one it does. *)
(***************************************************************************)

\* The invariant, for one resource.
Kept(c) == /\ CopiesTrack(c)
           /\ MatchNamed(c)
           /\ Announced(c)
           /\ ClaimsKnown(c)
           /\ Remembered(c)

\* A step that touches neither the object nor the reconcile of a resource
\* keeps the invariant for it, provided the claims it loses are those whose
\* cost centers go.
LEMMA OthersKept ==
    ASSUME NEW d, Kept(d),
           api'[d] = api[d], cache'[d] = cache[d],
           cacheFresh'[d] = cacheFresh[d], pc'[d] = pc[d],
           work'[d] = work[d], workFresh'[d] = workFresh[d],
           found'[d] = found[d],
           claimed'[d] \subseteq claimed[d],
           \A k \in claimed'[d] : store'[k] # NoValue
    PROVE  Kept(d)'
<1>1. CopiesTrack(d)'
  BY DEF Kept, CopiesTrack
<1>2. MatchNamed(d)'
  BY DEF Kept, MatchNamed
<1>3. Announced(d)'
  BY DEF Kept, Announced, Creating
<1>4. ClaimsKnown(d)'
  BY DEF Kept, ClaimsKnown
<1>5. Remembered(d)'
  BY DEF Kept, Remembered
<1> QED
  BY <1>1, <1>2, <1>3, <1>4, <1>5 DEF Kept

\* At the start nothing is claimed and nothing is copied.
LEMMA BookkeepingInit == Init => Bookkeeping
<1> SUFFICES ASSUME Init, NEW c \in Resources PROVE Kept(c)
  BY DEF Bookkeeping, Kept
<1> QED
  BY DEF Init, Gone, Kept, CopiesTrack, MatchNamed, Announced, ClaimsKnown,
         Remembered, Creating

\* Claims are keys, which the missing key is not.
LEMMA ClaimsAreKeys ==
    ASSUME TypeOK, NEW c \in Resources
    PROVE  claimed[c] \subseteq Keys /\ NoKey \notin claimed[c]
  BY CostCenterAssumption DEF TypeOK

\* A step of the reconcile of a resource keeps the invariant for it.
LEMMA OwnKept ==
    ASSUME TypeOK, NEW c \in Resources, Kept(c), Reconcile(c)
    PROVE  Kept(c)'
<1> USE TypedObjects, ObjectFields DEF Kept, CopiesTrack, MatchNamed, Announced, ClaimsKnown, Remembered, Creating
<1>1. CASE Start(c)
  BY <1>1 DEF Start, Local, TypeOK, kube, local, account, bounds
<1>2. CASE DefaultName(c)
  <2>1. /\ api' = [api EXCEPT ![c] = work'[c]]
        /\ work' = [work EXCEPT ![c] = work'[c]]
        /\ work'[c] = [work[c] EXCEPT !.ext = NameOf[c], !.at = api[c].at]
    BY <1>2 DEF DefaultName, Update, TypeOK
  <2>2. /\ work'[c].phase = work[c].phase /\ work'[c].fin = work[c].fin
        /\ work'[c].creation = work[c].creation
        /\ work'[c].spec = work[c].spec
    BY <2>1 DEF Object
  <2>3. claimed[c] = {} \/ api[c].creation = "pending"
    BY <1>2, ClaimsAreKeys DEF DefaultName, Update
  <2> QED
    BY <1>2, <2>1, <2>2, <2>3 DEF DefaultName, Update, TypeOK, account, bounds
<1>3. CASE RefuseIncomplete(c)
  BY <1>3 DEF RefuseIncomplete, Return, TypeOK, kube, local, account, bounds
<1>4. CASE Proceed(c)
  BY <1>4 DEF Proceed, Local, TypeOK, kube, local, account, bounds
<1>5. CASE Connect(c)
  BY <1>5 DEF Connect, Local, TypeOK, kube, local, account, bounds
<1>6. CASE Observe(c)
  <2> DEFINE item == FindItem(TargetKey(work[c]))
  <2>1. /\ UNCHANGED <<kube, workFresh, account, bounds>>
        /\ pc[c] = "observe"
        /\ found'[c] = item
    BY <1>6 DEF Observe, Local, TypeOK
  <2>2. item # NoItem => item.key = TargetKey(work[c]) /\ item.key # NoKey
    BY FindItemAnswer, CostCenterAssumption DEF TypeOK
  <2>3. CASE item = NoItem
    <3>1. work[c].ext \in Keys => store[work[c].ext] = NoValue
      <4>1. work[c].ext \in Keys => TargetKey(work[c]) = work[c].ext
        BY CostCenterAssumption DEF TargetKey
      <4> QED
        BY <2>3, <4>1, FindItemAnswer DEF TypeOK
    <3>2. workFresh[c] => claimed[c] = {}
      BY <2>1, <3>1, ClaimsAreKeys
    <3>3. work' = work /\ pc'[c] = "decide"
      BY <1>6, <2>3 DEF Observe, Local, TypeOK
    <3> QED
      BY <2>1, <2>3, <3>2, <3>3 DEF kube, account
  <2>4. CASE item # NoItem /\ work[c].ext # item.key
    <3>1. work[c].ext = NoKey
      BY <2>2, <2>4 DEF TargetKey
    <3>2. /\ work'[c] = [work[c] EXCEPT !.ext = item.key]
          /\ pc'[c] = "syncName"
      BY <1>6, <2>4 DEF Observe, Local, TypeOK
    <3>3. /\ work'[c].ext = item.key
          /\ work'[c].phase = work[c].phase /\ work'[c].fin = work[c].fin
          /\ work'[c].creation = work[c].creation
          /\ work'[c].spec = work[c].spec
      BY <3>2 DEF Object
    <3> HIDE DEF item
    <3> QED
      BY <2>1, <2>2, <2>4, <3>1, <3>2, <3>3 DEF kube, account
  <2>5. CASE item # NoItem /\ work[c].ext = item.key
    <3>1. /\ work'[c] = [work[c] EXCEPT !.at = item]
          /\ pc'[c] = "decide"
      BY <1>6, <2>5 DEF Observe, Local, TypeOK
    <3>2. /\ work'[c].ext = work[c].ext
          /\ work'[c].phase = work[c].phase /\ work'[c].fin = work[c].fin
          /\ work'[c].creation = work[c].creation
          /\ work'[c].spec = work[c].spec
      BY <3>1 DEF Object
    <3> HIDE DEF item
    <3> QED
      BY <2>1, <2>2, <2>5, <3>1, <3>2 DEF kube, account
  <2> QED
    BY <2>3, <2>4, <2>5
<1>7. CASE SyncExternalName(c)
  <2>1. claimed[c] = {}
    BY <1>7, ClaimsAreKeys DEF SyncExternalName
  <2>2. /\ api'[c] = [work[c] EXCEPT !.at = api[c].at]
        /\ work'[c] = [work[c] EXCEPT !.at = found[c]]
        /\ workFresh[c] /\ pc'[c] = "decide"
        /\ cacheFresh'[c] = FALSE /\ claimed' = claimed /\ found' = found
    BY <1>7 DEF SyncExternalName, TypeOK, account
  <2>3. /\ api'[c].phase = work[c].phase /\ work'[c].phase = work[c].phase
        /\ api'[c].fin = work[c].fin /\ work'[c].fin = work[c].fin
        /\ api'[c].creation = work[c].creation
        /\ work'[c].creation = work[c].creation
        /\ api'[c].spec = work[c].spec /\ work'[c].spec = work[c].spec
        /\ api'[c].ext = work[c].ext /\ work'[c].ext = work[c].ext
    BY <2>2 DEF Object
  <2> QED
    BY <1>7, <2>1, <2>2, <2>3 DEF SyncExternalName
<1>8. CASE AddFinalizer(c)
  BY <1>8 DEF AddFinalizer, Update, TypeOK, kube, local, account, bounds
<1>9. CASE AnnounceCreate(c)
  BY <1>9 DEF AnnounceCreate, Update, TypeOK, kube, local, account, bounds
<1>10. CASE UpToDate(c)
  BY <1>10 DEF UpToDate, Local, TypeOK, kube, local, account, bounds
<1>11. CASE Report(c)
  BY <1>11 DEF Report, Return, TypeOK, kube, local, account, bounds
<1>12. CASE RemoveFinalizer(c)
  BY <1>12 DEF RemoveFinalizer, Return, Gone, TypeOK, kube, local, account, bounds
<1>13. CASE CreateStored(c)
  <2> DEFINE k == work[c].spec.key
  <2>1. /\ pc[c] = "create" /\ pc'[c] = "saveName"
        /\ k \in Keys
        /\ work'[c] = [work[c] EXCEPT !.ext = k]
        /\ claimed'[c] = claimed[c] \cup {k}
        /\ UNCHANGED <<api, cache, cacheFresh, workFresh, found>>
    BY <1>13 DEF CreateStored, TypeOK, kube
  <2>2. store'[k] # NoValue
    BY <1>13, <2>1, DesiredIsValue, CostCenterAssumption DEF CreateStored, TypeOK
  <2>3. /\ work'[c].ext = k
        /\ work'[c].phase = work[c].phase /\ work'[c].fin = work[c].fin
        /\ work'[c].creation = work[c].creation
        /\ work'[c].spec = work[c].spec
    BY <2>1 DEF Object
  <2> HIDE DEF k
  <2> QED
    BY <2>1, <2>2, <2>3
<1>14. CASE CreateConflict(c)
  BY <1>14 DEF CreateConflict, TypeOK, kube, local, account, bounds
<1>15. CASE CreateKeyless(c)
  BY <1>15 DEF CreateKeyless, TypeOK, kube, local, account, bounds
<1>16. CASE SaveName(c)
  BY <1>16 DEF SaveName, TypeOK, kube, local, account, bounds
<1>17. CASE SaveNameConflict(c)
  BY <1>17 DEF SaveNameConflict, TypeOK, kube, local, account, bounds
<1>18. CASE RecordOutcome(c)
  BY <1>18 DEF RecordOutcome, Return, TypeOK, kube, local, account, bounds
<1>19. CASE Delete(c)
  BY <1>19 DEF Delete, AtDelete, Removed, TypeOK, kube, local, account, bounds
<1>20. CASE Conflict(c)
  BY <1>20 DEF Conflict, Return, TypeOK, kube, local, account, bounds
<1> QED
  BY <1>1, <1>2, <1>3, <1>4, <1>5, <1>6, <1>7, <1>8, <1>9, <1>10, <1>11, <1>12, <1>13, <1>14, <1>15, <1>16, <1>17, <1>18, <1>19, <1>20 DEF Reconcile

\* A failure of a resource keeps the invariant for it.
LEMMA OwnKeptOnFailure ==
    ASSUME TypeOK, NEW c \in Resources, Kept(c), Failure(c)
    PROVE  Kept(c)'
<1> USE TypedObjects, ObjectFields DEF Kept, CopiesTrack, MatchNamed, Announced, ClaimsKnown, Remembered, Creating
<1>1. CASE CreateLost(c)
  BY <1>1, DesiredIsValue, CostCenterAssumption DEF CreateLost, TypeOK, kube
<1>2. CASE CreateFails(c)
  BY <1>2 DEF CreateFails, TypeOK, kube, account
<1>3. CASE SaveNameFails(c)
  BY <1>3 DEF SaveNameFails, TypeOK, kube, account
<1>4. CASE Fault(c)
  BY <1>4 DEF Fault, Return, TypeOK, kube, account
<1> QED
  BY <1>1, <1>2, <1>3, <1>4 DEF Failure

\* What users and the watch do to a resource keeps the invariant for it: a
\* deletion only marks an object that has a claim, because it is protected.
LEMMA OwnKeptByOthers ==
    ASSUME TypeOK, NEW c \in Resources, Kept(c), User(c) \/ CacheSync(c)
    PROVE  Kept(c)'
<1> USE TypedObjects, ObjectFields DEF Kept, CopiesTrack, MatchNamed, Announced, ClaimsKnown, Remembered, Creating
<1>1. ASSUME NEW s \in Specs, EditSpec(c, s) PROVE Kept(c)'
  BY <1>1 DEF EditSpec, OutsideUpdate, TypeOK, account
<1>2. ASSUME NEW s \in Specs, NEW k \in Imports, Apply(c, s, k)
      PROVE  Kept(c)'
  BY <1>2 DEF Apply, OutsideUpdate, Gone, TypeOK, account
<1>3. CASE RequestDeletion(c)
  BY <1>3 DEF RequestDeletion, OutsideUpdate, Gone, TypeOK, account, bounds
<1>4. CASE CacheSync(c)
  BY <1>4 DEF CacheSync, TypeOK, local, account, bounds
<1> QED
  BY <1>1, <1>2, <1>3, <1>4 DEF User

\* The variables of resource d, the claims aside.
Untouched(d) ==
    /\ api'[d] = api[d] /\ cache'[d] = cache[d]
    /\ cacheFresh'[d] = cacheFresh[d] /\ pc'[d] = pc[d]
    /\ work'[d] = work[d] /\ workFresh'[d] = workFresh[d]
    /\ found'[d] = found[d]

\* A step of one resource leaves the objects and reconciles of the others be.
LEMMA UntouchedOthers ==
    ASSUME TypeOK, NEW c \in Resources, NEW d \in Resources, d # c,
           Reconcile(c) \/ Failure(c) \/ User(c) \/ CacheSync(c)
    PROVE  Untouched(d)
<1>1. CASE Reconcile(c)
  BY <1>1 DEF Reconcile, Untouched, TypeOK, kube, local, account, bounds,
     Start, DefaultName, RefuseIncomplete, Proceed, Connect, Observe,
     SyncExternalName, AddFinalizer, AnnounceCreate, UpToDate, Report,
     RemoveFinalizer, CreateStored, CreateConflict, CreateKeyless, SaveName,
     SaveNameConflict, RecordOutcome, Delete, Conflict, Local, Update, Return
<1>2. CASE Failure(c)
  BY <1>2 DEF Failure, Untouched, TypeOK, kube, CreateLost, CreateFails,
     SaveNameFails, Fault, Return
<1>3. CASE User(c) \/ CacheSync(c)
  BY <1>3 DEF User, Untouched, TypeOK, local, EditSpec, Apply,
     RequestDeletion, CacheSync, OutsideUpdate
<1> QED
  BY <1>1, <1>2, <1>3

\* A cost center that leaves the account takes the claims to it along.
LEMMA RemovedKeepsClaims ==
    ASSUME TypeOK, NEW k \in Keys, Removed(k), NEW d \in Resources, ClaimsKnown(d)
    PROVE  /\ claimed'[d] \subseteq claimed[d]
           /\ \A l \in claimed'[d] : store'[l] # NoValue
  BY DEF Removed, TypeOK, ClaimsKnown

\* A step of one resource leaves the others untouched; only the account may
\* lose a cost center, with the claims to it.
LEMMA Frame ==
    ASSUME TypeOK, NEW c \in Resources, NEW d \in Resources, d # c, Kept(d),
           Reconcile(c) \/ Failure(c) \/ User(c) \/ CacheSync(c)
    PROVE  Kept(d)'
<1>1. Untouched(d)
  BY UntouchedOthers
<1>2. /\ claimed'[d] \subseteq claimed[d]
      /\ \A l \in claimed'[d] : store'[l] # NoValue
  <2>1. CASE UNCHANGED <<store, claimed>>
    BY <2>1 DEF Kept, ClaimsKnown
  <2>2. CASE CreateStored(c) \/ CreateConflict(c) \/ CreateLost(c)
    <3>1. /\ claimed'[d] = claimed[d]
          /\ \/ store' = store
             \/ store' = [store EXCEPT ![work[c].spec.key] =
                                         DesiredValue(work[c].spec)]
      BY <2>2 DEF CreateStored, CreateConflict, CreateLost, TypeOK
    <3>2. DesiredValue(work[c].spec) # NoValue
      BY TypedObjects, DesiredIsValue, CostCenterAssumption
    <3> QED
      BY <3>1, <3>2 DEF Kept, ClaimsKnown, TypeOK
  <2>3. CASE RemoveFinalizer(c)
    BY <2>3 DEF RemoveFinalizer, Kept, ClaimsKnown, TypeOK
  <2>4. CASE Delete(c)
    <3>1. CASE UNCHANGED account
      BY <3>1 DEF account, Kept, ClaimsKnown
    <3>2. CASE work[c].ext # NoKey /\ Removed(work[c].ext)
      BY <3>2, TypedObjects, RemovedKeepsClaims DEF Kept
    <3> QED
      BY <2>4, <3>1, <3>2 DEF Delete
  <2> QED
    BY <2>1, <2>2, <2>3, <2>4
    DEF Reconcile, Failure, User, account, bounds, local,
       Start, DefaultName, RefuseIncomplete, Proceed, Connect, Observe,
       SyncExternalName, AddFinalizer, AnnounceCreate, UpToDate, Report,
       CreateKeyless, SaveName, SaveNameConflict, RecordOutcome, Conflict,
       Local, CreateFails, SaveNameFails, Fault, EditSpec, Apply,
       RequestDeletion, CacheSync
<1> QED
  BY <1>1, <1>2, OthersKept DEF Untouched

\* Every step keeps the invariant.
LEMMA BookkeepingNext == TypeOK /\ Bookkeeping /\ [Next]_vars => Bookkeeping'
<1> SUFFICES ASSUME TypeOK, Bookkeeping, [Next]_vars, NEW d \in Resources
             PROVE  Kept(d)'
  BY DEF Bookkeeping, Kept
<1>1. Kept(d)
  BY DEF Bookkeeping, Kept
<1>2. ASSUME NEW c \in Resources,
             Reconcile(c) \/ Failure(c) \/ User(c) \/ CacheSync(c)
      PROVE  Kept(d)'
  <2>1. CASE c = d
    BY <1>1, <1>2, <2>1, OwnKept, OwnKeptOnFailure, OwnKeptByOthers
  <2>2. CASE c # d
    BY <1>1, <1>2, <2>2, Frame
  <2> QED
    BY <2>1, <2>2
<1>3. CASE Restart
  BY <1>1, <1>3 DEF Restart, account, TypeOK, Kept, CopiesTrack, MatchNamed,
                    Announced, ClaimsKnown, Remembered, Creating
<1>4. ASSUME NEW k \in Keys, NEW v \in Values \cup {NoValue}, OutOfBand(k, v)
      PROVE  Kept(d)'
  <2>1. Untouched(d)
    BY <1>4 DEF OutOfBand, Untouched, kube, local
  <2>2. /\ claimed'[d] \subseteq claimed[d]
        /\ \A l \in claimed'[d] : store'[l] # NoValue
    <3>1. CASE v = NoValue
      BY <1>1, <1>4, <3>1, RemovedKeepsClaims DEF OutOfBand, Kept
    <3>2. CASE v # NoValue
      BY <1>1, <1>4, <3>2 DEF OutOfBand, Kept, ClaimsKnown, TypeOK
    <3> QED
      BY <3>1, <3>2
  <2> QED
    BY <1>1, <2>1, <2>2, OthersKept DEF Untouched
<1>5. CASE UNCHANGED vars
  BY <1>1, <1>5, OthersKept DEF vars, kube, local, account, Kept, ClaimsKnown
<1> QED
  BY <1>2, <1>3, <1>4, <1>5 DEF Next

\* The object, its copies, the account and the claims agree at every step.
THEOREM BookkeepingHolds == Spec => []Bookkeeping
<1>1. Init => Bookkeeping
  BY BookkeepingInit
<1>2. TypeOK /\ Bookkeeping /\ [Next]_vars => Bookkeeping'
  BY BookkeepingNext
<1> QED
  BY <1>1, <1>2, TypeCorrect, PTL DEF Spec

\* A cost center the account confirmed to Create is never lost track of,
\* however the updates of its object fail, conflict or are cut off.
THEOREM ClaimsAreRemembered == Spec => []ClaimedNeverForgotten
<1>1. Bookkeeping => ClaimedNeverForgotten
  BY DEF Bookkeeping, ClaimedNeverForgotten
<1> QED
  BY <1>1, BookkeepingHolds, PTL

\* Every DELETE request names the cost center Observe matched, never the
\* collection.
THEOREM DeletesAreAddressed == Spec => []DeleteIsAddressed
<1>1. Bookkeeping => DeleteIsAddressed
  BY DEF Bookkeeping, MatchNamed, DeleteIsAddressed, AtDelete
<1> QED
  BY <1>1, BookkeepingHolds, PTL

\* A step of the reconcile of a resource whose creation was abandoned leaves
\* it so, or drops an orphaned object.
LEMMA ReconcileAbandoned ==
    ASSUME TypeOK, NEW c \in Resources, Kept(c), Abandoned(c), Reconcile(c)
    PROVE  Abandoned(c)' \/ (api[c].spec.orphan /\ api'[c].phase = "absent")
<1> USE TypedObjects DEF Kept, CopiesTrack, MatchNamed, Announced, Abandoned, Creating
<1>1. CASE DefaultName(c)
  BY <1>1 DEF DefaultName, Update, TypeOK, Object
<1>2. CASE RemoveFinalizer(c)
  BY <1>2 DEF RemoveFinalizer, Return, TypeOK, Orphaned, Gone
<1>3. CASE Report(c)
  BY <1>3 DEF Report, Return, TypeOK, Object
<1>4. CASE Start(c) \/ RefuseIncomplete(c) \/ Proceed(c) \/ Connect(c) \/ Conflict(c)
  BY <1>4 DEF Start, RefuseIncomplete, Proceed, Connect, Conflict, Local,
              Return, TypeOK, kube
<1>5. CASE Observe(c) \/ UpToDate(c) \/ Delete(c)
  BY <1>5 DEF Observe, UpToDate, Delete, AtDelete, Local, TypeOK, kube
<1>6. CASE SyncExternalName(c) \/ AddFinalizer(c) \/ AnnounceCreate(c)
  BY <1>6 DEF SyncExternalName, AddFinalizer, AnnounceCreate, Update
<1>7. CASE \/ CreateStored(c) \/ CreateConflict(c) \/ CreateKeyless(c)
           \/ SaveName(c) \/ SaveNameConflict(c) \/ RecordOutcome(c)
  BY <1>7 DEF CreateStored, CreateConflict, CreateKeyless, SaveName,
              SaveNameConflict, RecordOutcome
<1> QED
  BY <1>1, <1>2, <1>3, <1>4, <1>5, <1>6, <1>7 DEF Reconcile

\* Nobody resumes an abandoned creation, not even from an outdated copy.
THEOREM AbandonedIsFinal == Spec => AbandonedStays
<1>1. ASSUME TypeOK, Bookkeeping, Next, NEW d \in Resources, Abandoned(d)
      PROVE  Abandoned(d)' \/ (api[d].spec.orphan /\ api'[d].phase = "absent")
  <2>1. Kept(d)
    BY <1>1 DEF Bookkeeping, Kept
  <2>2. ASSUME api'[d] = api[d], pc'[d] = pc[d] \/ pc'[d] = "idle"
        PROVE  Abandoned(d)'
    BY <1>1, <2>2 DEF Abandoned, Creating
  <2>3. ASSUME NEW c \in Resources,
               Reconcile(c) \/ Failure(c) \/ User(c) \/ CacheSync(c), c # d
        PROVE  Abandoned(d)'
    BY <1>1, <2>2, <2>3, UntouchedOthers DEF Untouched
  <2>4. CASE Reconcile(d)
    BY <1>1, <2>1, <2>4, ReconcileAbandoned
  <2>5. CASE Failure(d)
    BY <1>1, <2>5 DEF Failure, CreateLost, CreateFails, SaveNameFails, Fault,
       Return, kube, TypeOK, Abandoned, Creating
  <2>6. CASE User(d)
    <3>1. api'[d].creation = "pending" /\ pc' = pc
      <4>1. api[d].fin /\ api[d].phase # "absent" /\ api[d].creation = "pending"
        BY <1>1, <2>1 DEF Kept, Announced, Abandoned
      <4>2. ASSUME NEW s \in Specs, EditSpec(d, s)
            PROVE  api'[d].creation = "pending" /\ pc' = pc
        BY <1>1, <4>1, <4>2, TypedObjects DEF EditSpec, OutsideUpdate, TypeOK, Object
      <4>3. CASE RequestDeletion(d)
        BY <1>1, <4>1, <4>3, TypedObjects DEF RequestDeletion, OutsideUpdate, TypeOK, Object
      <4> QED
        BY <2>6, <4>1, <4>2, <4>3 DEF User, Apply
    <3> QED
      BY <1>1, <3>1 DEF Abandoned, Creating
  <2>7. CASE CacheSync(d) \/ Restart \/ \E k \in Keys, v \in Values \cup {NoValue} : OutOfBand(k, v)
    BY <1>1, <2>2, <2>7 DEF CacheSync, Restart, OutOfBand, kube, local
  <2> QED
    BY <1>1, <2>3, <2>4, <2>5, <2>6, <2>7 DEF Next
<1>2. TypeOK /\ Bookkeeping /\ [Next]_vars =>
        [\A c \in Resources :
           Abandoned(c) => \/ Abandoned(c)'
                           \/ api[c].spec.orphan /\ api'[c].phase = "absent"]_vars
  BY <1>1
<1> QED
  BY <1>2, TypeCorrect, BookkeepingHolds, PTL DEF Spec, AbandonedStays

===============================================================================
