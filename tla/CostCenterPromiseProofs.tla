----------------------- MODULE CostCenterPromiseProofs -----------------------
(***************************************************************************)
(* The CostCenter controller implements CostCenterPromise. A step of       *)
(* CostCenter is a step of CostCenterPromise or changes nothing there. For *)
(* most steps that follows from the bookkeeping of CostCenterProofs. Delete *)
(* needs more: the reconcile may work on a copy of a resource that is gone *)
(* and has been applied again, and must not delete what the new one holds. *)
(***************************************************************************)
EXTENDS CostCenterProofs

\* Copies belong to the resource that is there or to one before it. Once a
\* reconcile has seen the resource live, the cache cannot hold an earlier one
\* that was being deleted; what a live resource holds was taken by a
\* reconcile that had seen it live.
Incarnation(c) ==
    /\ pc[c] # "idle" /\ work[c].phase = "live" /\ cache[c].phase = "deleting"
          => api[c].phase = "deleting"
    /\ Creating(c) => work[c].phase = "live"
    /\ claimed[c] # {} /\ api[c].phase = "live"
          => cache[c].phase # "deleting" /\ work[c].phase # "deleting"

Incarnations == \A c \in Resources : Incarnation(c)

-----------------------------------------------------------------------------
\* A step that leaves a resource alone keeps it in step with its copies.
LEMMA IncarnationFrame ==
    ASSUME NEW d, Incarnation(d), Untouched(d), claimed'[d] \subseteq claimed[d]
    PROVE  Incarnation(d)'
  BY DEF Incarnation, Untouched, Creating

\* What a resource holds is not taken by a step of another's.
LEMMA OthersClaims ==
    ASSUME TypeOK, NEW c \in Resources, NEW d \in Resources, d # c,
           Reconcile(c) \/ Failure(c) \/ User(c) \/ CacheSync(c)
    PROVE  claimed'[d] \subseteq claimed[d]
<1>1. CASE UNCHANGED claimed
  BY <1>1
<1>2. CASE CreateStored(c) \/ CreateConflict(c) \/ RemoveFinalizer(c)
  BY <1>2 DEF CreateStored, CreateConflict, RemoveFinalizer, TypeOK
<1>3. CASE Delete(c)
  BY <1>3 DEF Delete, Removed, account, TypeOK
<1> QED
  BY <1>1, <1>2, <1>3
  DEF Reconcile, Failure, User, account, bounds, local, kube,
      Start, DefaultName, RefuseIncomplete, Proceed, Connect, Observe,
      SyncExternalName, AddFinalizer, AnnounceCreate, UpToDate, Report,
      CreateKeyless, SaveName, SaveNameConflict, RecordOutcome, Conflict,
      Local, CreateFails, CreateLost, SaveNameFails, Fault, EditSpec, Apply,
      RequestDeletion, CacheSync

\* A reconcile that starts from the cache is in step with it.
LEMMA IncarnationStart ==
    ASSUME TypeOK, NEW c \in Resources, Incarnation(c), Start(c)
    PROVE  Incarnation(c)'
<1>1. /\ work'[c] = cache[c] /\ pc'[c] = "initialize"
      /\ UNCHANGED <<api, cache, claimed>>
  BY DEF Start, Local, TypeOK, kube, account
<1> QED
  BY <1>1 DEF Incarnation, Creating

\* The reconcile of a resource keeps it in step with its copies.
LEMMA IncarnationReconcile ==
    ASSUME TypeOK, NEW c \in Resources, Kept(c), Incarnation(c), Reconcile(c)
    PROVE  Incarnation(c)'
<1>1. CASE Start(c)
  BY <1>1, IncarnationStart
<1> USE TypedObjects DEF Incarnation, Creating
<1>2. CASE DefaultName(c) \/ AddFinalizer(c) \/ AnnounceCreate(c)
  <2>1. /\ work[c].phase = api[c].phase
        /\ UNCHANGED <<cache, claimed>>
        /\ pc'[c] = "create" => work[c].phase = "live"
        /\ pc[c] # "idle" /\ ~Creating(c) /\ (pc'[c] = "create" \/ ~Creating(c)')
    BY <1>2 DEF DefaultName, AddFinalizer, AnnounceCreate, Update, TypeOK, account,
                Kept, CopiesTrack
  <2>2. PICK o : /\ api' = [api EXCEPT ![c] = o] /\ work' = [work EXCEPT ![c] = o]
                 /\ o.phase = work[c].phase
    <3>1. ASSUME NEW w \in {[work[c] EXCEPT !.ext = NameOf[c]], [work[c] EXCEPT !.fin = TRUE],
                           [work[c] EXCEPT !.creation = "pending"]}
          PROVE  [w EXCEPT !.at = api[c].at].phase = work[c].phase
      BY <3>1 DEF Object
    <3> QED
      BY <1>2, <3>1 DEF DefaultName, AddFinalizer, AnnounceCreate, Update
  <2>3. api'[c].phase = work[c].phase /\ work'[c].phase = work[c].phase
    BY <2>2 DEF TypeOK
  <2> QED
    BY <2>1, <2>3
<1>3. CASE RefuseIncomplete(c) \/ Conflict(c)
  BY <1>3 DEF RefuseIncomplete, Conflict, Return, TypeOK, kube, account, Gone
<1>4. CASE Proceed(c) \/ Connect(c) \/ UpToDate(c)
  BY <1>4 DEF Proceed, Connect, UpToDate, Local, TypeOK, kube, account
<1>5. CASE Observe(c)
  BY <1>5 DEF Observe, Local, TypeOK, kube, account, Object
<1>6. CASE SyncExternalName(c)
  BY <1>6 DEF SyncExternalName, TypeOK, account, Kept, CopiesTrack, Object
<1>7. CASE Report(c) \/ RemoveFinalizer(c)
  BY <1>7 DEF Report, RemoveFinalizer, Return, TypeOK, account, Gone, Object
<1>8. CASE CreateStored(c) \/ CreateConflict(c)
  BY <1>8 DEF CreateStored, CreateConflict, TypeOK, kube, Object
<1>9. CASE CreateKeyless(c) \/ SaveName(c) \/ SaveNameConflict(c)
  BY <1>9 DEF CreateKeyless, SaveName, SaveNameConflict, TypeOK, kube, account, Object
<1>10. CASE RecordOutcome(c)
  BY <1>10 DEF RecordOutcome, Return, TypeOK, account, Gone, Object
<1>11. CASE Delete(c)
  BY <1>11 DEF Delete, AtDelete, Removed, TypeOK, kube, account
<1> QED
  BY <1>1, <1>2, <1>3, <1>4, <1>5, <1>6, <1>7, <1>8, <1>9, <1>10, <1>11 DEF Reconcile

\* So do its failures, its users and the cache.
LEMMA IncarnationEnvironment ==
    ASSUME TypeOK, NEW c \in Resources, Kept(c), Incarnation(c),
           Failure(c) \/ User(c) \/ CacheSync(c)
    PROVE  Incarnation(c)'
<1> USE TypedObjects DEF Incarnation, Creating
<1>1. CASE Failure(c)
  BY <1>1 DEF Failure, CreateLost, CreateFails, SaveNameFails, Fault, Return,
              TypeOK, kube, account, Gone, Object
<1>2. ASSUME NEW s \in Specs, EditSpec(c, s) PROVE Incarnation(c)'
  BY <1>2 DEF EditSpec, OutsideUpdate, TypeOK, account, Object
<1>3. ASSUME NEW s \in Specs, NEW k \in Imports, Apply(c, s, k) PROVE Incarnation(c)'
  BY <1>3 DEF Apply, OutsideUpdate, TypeOK, account, Gone, Kept, Remembered
<1>4. CASE RequestDeletion(c)
  BY <1>4 DEF RequestDeletion, OutsideUpdate, TypeOK, account, Gone, Object
<1>5. CASE CacheSync(c)
  BY <1>5 DEF CacheSync, TypeOK, local, account
<1> QED
  BY <1>1, <1>2, <1>3, <1>4, <1>5 DEF User

\* Every step does.
LEMMA IncarnationsNext ==
    TypeOK /\ Bookkeeping /\ Incarnations /\ [Next]_vars => Incarnations'
<1> SUFFICES ASSUME TypeOK, Bookkeeping, Incarnations, [Next]_vars, NEW d \in Resources
             PROVE  Incarnation(d)'
  BY DEF Incarnations
<1>1. Kept(d) /\ Incarnation(d)
  BY DEF Bookkeeping, Kept, Incarnations
<1>2. ASSUME NEW c \in Resources, Reconcile(c) \/ Failure(c) \/ User(c) \/ CacheSync(c)
      PROVE  Incarnation(d)'
  <2>1. CASE c = d
    BY <1>1, <1>2, <2>1, IncarnationReconcile, IncarnationEnvironment
  <2>2. CASE c # d
    BY <1>1, <1>2, <2>2, UntouchedOthers, OthersClaims, IncarnationFrame
  <2> QED
    BY <2>1, <2>2
<1>3. CASE Restart
  BY <1>1, <1>3, TypedObjects DEF Restart, account, TypeOK, Incarnation, Creating, Gone
<1>4. ASSUME NEW k \in Keys, NEW v \in Values \cup {NoValue}, OutOfBand(k, v)
      PROVE  Incarnation(d)'
  <2>1. Untouched(d)
    BY <1>4 DEF OutOfBand, Untouched, kube, local
  <2>2. claimed'[d] \subseteq claimed[d]
    BY <1>4 DEF OutOfBand, Removed
  <2> QED
    BY <1>1, <2>1, <2>2, IncarnationFrame
<1>5. CASE UNCHANGED vars
  BY <1>1, <1>5, IncarnationFrame DEF vars, kube, local, account, Untouched
<1> QED
  BY <1>2, <1>3, <1>4, <1>5 DEF Next

-----------------------------------------------------------------------------
(***************************************************************************)
(* The simulation                                                          *)
(***************************************************************************)
LEMMA PromiseInit == Init => Promise!Init
<1> SUFFICES ASSUME Init PROVE Promise!Init
  OBVIOUS
<1>1. /\ [c \in Resources |-> api[c].phase] = [c \in Resources |-> "absent"]
      /\ [c \in Resources |-> api[c].spec.orphan] = [c \in Resources |-> FALSE]
      /\ [c \in Resources |-> api[c].creation = "pending"] = [c \in Resources |-> FALSE]
  BY DEF Init, Gone, NoSpec
<1> QED
  BY <1>1 DEF Init, Promise!Init

\* The step of a reconcile that changes nothing the promise is about.
Unpromised == /\ UNCHANGED <<store, claimed, edits>>
              /\ \A c \in Resources : /\ api'[c].phase = api[c].phase
                                      /\ api'[c].spec.orphan = api[c].spec.orphan
                                      /\ api'[c].creation = api[c].creation

LEMMA UnpromisedStutters == Unpromised => UNCHANGED Promise!vars
  BY DEF Unpromised, Promise!vars

\* A write of one object that keeps what is promised.
LEMMA OneObject ==
    ASSUME TypeOK, NEW c \in Resources, NEW o,
           api' = [api EXCEPT ![c] = o],
           o.phase = api[c].phase, o.spec = api[c].spec, o.creation = api[c].creation,
           UNCHANGED <<store, claimed, edits>>
    PROVE  Unpromised
  BY DEF TypeOK, Unpromised

\* Reads, names, finalizers and reports are not promised.
LEMMA QuietSteps ==
    ASSUME TypeOK, NEW c \in Resources, Kept(c),
           \/ Start(c) \/ DefaultName(c) \/ RefuseIncomplete(c) \/ Proceed(c)
           \/ Connect(c) \/ Observe(c) \/ SyncExternalName(c) \/ AddFinalizer(c)
           \/ UpToDate(c) \/ Report(c) \/ CreateKeyless(c) \/ SaveName(c)
           \/ SaveNameConflict(c) \/ Conflict(c)
    PROVE  Unpromised
<1> USE TypedObjects
<1>1. CASE \/ Start(c) \/ RefuseIncomplete(c) \/ Proceed(c) \/ Connect(c) \/ Observe(c)
           \/ UpToDate(c) \/ CreateKeyless(c) \/ SaveNameConflict(c) \/ Conflict(c)
  BY <1>1 DEF Start, RefuseIncomplete, Proceed, Connect, Observe, UpToDate,
     CreateKeyless, SaveNameConflict, Conflict, Local, Return, Unpromised,
     kube, account, bounds
<1>2. CASE DefaultName(c) \/ AddFinalizer(c)
  <2>1. /\ work[c].phase = api[c].phase /\ work[c].spec = api[c].spec
        /\ work[c].creation = api[c].creation
    BY <1>2 DEF DefaultName, AddFinalizer, Update, Kept, CopiesTrack
  <2>2. ASSUME NEW o \in {[work[c] EXCEPT !.ext = NameOf[c]], [work[c] EXCEPT !.fin = TRUE]}
        PROVE  LET saved == [o EXCEPT !.at = api[c].at] IN
               /\ saved.phase = api[c].phase /\ saved.spec = api[c].spec
               /\ saved.creation = api[c].creation
    BY <2>1, <2>2 DEF Object
  <2>3. \E o \in {[work[c] EXCEPT !.ext = NameOf[c]], [work[c] EXCEPT !.fin = TRUE]} :
           api' = [api EXCEPT ![c] = [o EXCEPT !.at = api[c].at]]
    BY <1>2 DEF DefaultName, AddFinalizer, Update
  <2>4. UNCHANGED <<store, claimed, edits>>
    BY <1>2 DEF DefaultName, AddFinalizer, account, bounds
  <2> QED
    BY <2>2, <2>3, <2>4, OneObject
<1>3. CASE SyncExternalName(c)
  BY <1>3, OneObject DEF SyncExternalName, account, bounds, Kept, CopiesTrack, Object
<1>4. CASE Report(c) \/ SaveName(c)
  BY <1>4, OneObject DEF Report, SaveName, account, bounds, Object
<1> QED
  BY <1>1, <1>2, <1>3, <1>4

\* A function changed at one argument.
LEMMA Changed ==
    ASSUME NEW S, NEW x \in S, NEW f, NEW g, NEW y,
           f = [d \in S |-> f[d]], g = [d \in S |-> g[d]],
           g[x] = y, \A d \in S \ {x} : g[d] = f[d]
    PROVE  g = [f EXCEPT ![x] = y]
  OBVIOUS

\* A write of one object changes its phase alone,
LEMMA PhaseWrite ==
    ASSUME NEW c \in Resources, NEW p, api'[c].phase = p,
           \A d \in Resources \ {c} : api'[d] = api[d]
    PROVE  [d \in Resources |-> api'[d].phase]
             = [[d \in Resources |-> api[d].phase] EXCEPT ![c] = p]
<1> DEFINE f == [d \in Resources |-> api[d].phase]
           g == [d \in Resources |-> api'[d].phase]
<1>1. /\ f = [d \in Resources |-> f[d]] /\ g = [d \in Resources |-> g[d]]
      /\ g[c] = p /\ \A d \in Resources \ {c} : g[d] = f[d]
  OBVIOUS
<1> HIDE DEF f, g
<1>2. g = [f EXCEPT ![c] = p]
  BY <1>1, Changed
<1> QED
  BY <1>2 DEF f, g

\* its deletion policy alone,
LEMMA OrphanWrite ==
    ASSUME NEW c \in Resources, NEW b, api'[c].spec.orphan = b,
           \A d \in Resources \ {c} : api'[d] = api[d]
    PROVE  [d \in Resources |-> api'[d].spec.orphan]
             = [[d \in Resources |-> api[d].spec.orphan] EXCEPT ![c] = b]
<1> DEFINE f == [d \in Resources |-> api[d].spec.orphan]
           g == [d \in Resources |-> api'[d].spec.orphan]
<1>1. /\ f = [d \in Resources |-> f[d]] /\ g = [d \in Resources |-> g[d]]
      /\ g[c] = b /\ \A d \in Resources \ {c} : g[d] = f[d]
  OBVIOUS
<1> HIDE DEF f, g
<1>2. g = [f EXCEPT ![c] = b]
  BY <1>1, Changed
<1> QED
  BY <1>2 DEF f, g

\* What a write of one object changes of what is promised.
LEMMA OneWrite ==
    ASSUME TypeOK, NEW c \in Resources, NEW o, api' = [api EXCEPT ![c] = o]
    PROVE  /\ [d \in Resources |-> api'[d].phase]
                = [[d \in Resources |-> api[d].phase] EXCEPT ![c] = o.phase]
           /\ [d \in Resources |-> api'[d].spec.orphan]
                = [[d \in Resources |-> api[d].spec.orphan] EXCEPT ![c] = o.spec.orphan]
           /\ [d \in Resources |-> api'[d].creation = "pending"]
                = [[d \in Resources |-> api[d].creation = "pending"]
                     EXCEPT ![c] = (o.creation = "pending")]
<1>1. api'[c] = o /\ \A d \in Resources \ {c} : api'[d] = api[d]
  BY DEF TypeOK
<1>2. [d \in Resources |-> api'[d].phase]
        = [[d \in Resources |-> api[d].phase] EXCEPT ![c] = o.phase]
  BY <1>1, PhaseWrite
<1>3. [d \in Resources |-> api'[d].spec.orphan]
        = [[d \in Resources |-> api[d].spec.orphan] EXCEPT ![c] = o.spec.orphan]
  BY <1>1, OrphanWrite
<1>4. [d \in Resources |-> api'[d].creation = "pending"]
        = [[d \in Resources |-> api[d].creation = "pending"]
             EXCEPT ![c] = (o.creation = "pending")]
  BY <1>1
<1> QED
  BY <1>2, <1>3, <1>4

\* An object goes.
LEMMA GoneWrite ==
    ASSUME TypeOK, NEW c \in Resources, api' = [api EXCEPT ![c] = Gone],
           claimed' = [claimed EXCEPT ![c] = {}]
    PROVE  Promise!Vanish(c)
<1>1. /\ api'[c].phase = "absent" /\ api'[c].spec.orphan = FALSE /\ api'[c].creation = "none"
      /\ \A d \in Resources \ {c} : api'[d] = api[d]
  BY DEF Gone, NoSpec, TypeOK
<1>2. [d \in Resources |-> api'[d].phase]
        = [[d \in Resources |-> api[d].phase] EXCEPT ![c] = "absent"]
  BY <1>1, PhaseWrite
<1>3. [d \in Resources |-> api'[d].spec.orphan]
        = [[d \in Resources |-> api[d].spec.orphan] EXCEPT ![c] = FALSE]
  BY <1>1, OrphanWrite
<1>4. [d \in Resources |-> api'[d].creation = "pending"]
        = [[d \in Resources |-> api[d].creation = "pending"] EXCEPT ![c] = FALSE]
  BY <1>1 DEF TypeOK
<1> QED
  BY <1>2, <1>3, <1>4 DEF Promise!Vanish

\* The announcement is one.
LEMMA AnnounceStep ==
    ASSUME TypeOK, NEW c \in Resources, Kept(c), AnnounceCreate(c)
    PROVE  Promise!Announce(c)
<1> DEFINE o == [[work[c] EXCEPT !.creation = "pending"] EXCEPT !.at = api[c].at]
<1>1. api' = [api EXCEPT ![c] = o] /\ UNCHANGED <<store, claimed, edits>>
  BY DEF AnnounceCreate, Update, account, bounds
<1>2. o.phase = work[c].phase /\ o.spec = work[c].spec /\ o.creation = "pending"
  BY TypedObjects DEF Object
<1>3. /\ work[c].phase = api[c].phase /\ work[c].spec = api[c].spec
      /\ api[c].creation # "pending" /\ work[c].phase = "live" /\ claimed[c] = {}
  BY DEF AnnounceCreate, Update, Kept, CopiesTrack, MatchNamed, ClaimsKnown
<1>4. api'[c] = o /\ \A d \in Resources \ {c} : api'[d] = api[d]
  BY <1>1 DEF TypeOK
<1> HIDE DEF o
<1>5. /\ [d \in Resources |-> api'[d].phase] = [d \in Resources |-> api[d].phase]
      /\ [d \in Resources |-> api'[d].spec.orphan] = [d \in Resources |-> api[d].spec.orphan]
  BY <1>2, <1>3, <1>4
<1> QED
  BY <1>1, <1>2, <1>3, <1>5, OneWrite DEF Promise!Announce

\* POST, answered or not, is a creation the resource announced.
LEMMA CreateStep ==
    ASSUME TypeOK, NEW c \in Resources, Kept(c),
           CreateStored(c) \/ CreateConflict(c) \/ CreateLost(c)
    PROVE  Promise!Take(c) \/ Promise!Lose(c)
<1> DEFINE k == work[c].spec.key
<1>1. /\ k \in Keys /\ DesiredValue(work[c].spec) \in Values
  BY TypedObjects, DesiredIsValue DEF CreateStored, CreateConflict, CreateLost
<1>2. api[c].creation = "pending" /\ claimed[c] = {} /\ UNCHANGED <<api, edits>>
  BY DEF CreateStored, CreateConflict, CreateLost, Kept, Announced, Creating,
         ClaimsKnown, kube, bounds
<1>3. CASE CreateStored(c)
  <2>1. Promise!Make(k)
    BY <1>1, <1>3 DEF CreateStored, Promise!Make
  <2>2. store[k] = NoValue /\ claimed' = [claimed EXCEPT ![c] = {k}]
    BY <1>2, <1>3 DEF CreateStored
  <2> QED
    BY <1>1, <1>2, <2>1, <2>2 DEF Promise!Take
<1>4. CASE CreateConflict(c)
  <2>1. /\ store[k] # NoValue /\ UNCHANGED store
        /\ claimed' = [claimed EXCEPT ![c] = {k}]
    BY <1>2, <1>4 DEF CreateConflict
  <2> QED
    BY <1>1, <1>2, <2>1 DEF Promise!Take
<1>5. CASE CreateLost(c)
  <2>1. Promise!Make(k)
    BY <1>1, <1>5 DEF CreateLost, Promise!Make
  <2>2. UNCHANGED claimed
    BY <1>5 DEF CreateLost
  <2> QED
    BY <1>1, <1>2, <2>1, <2>2 DEF Promise!Lose
<1> QED
  BY <1>3, <1>4, <1>5

\* The outcome concludes a creation, or is that it is still pending.
LEMMA OutcomeStep ==
    ASSUME TypeOK, NEW c \in Resources, Kept(c), RecordOutcome(c)
    PROVE  Promise!Conclude(c) \/ Unpromised
<1> DEFINE o == [api[c] EXCEPT !.ext = work[c].ext, !.creation = work[c].creation]
<1>1. api' = [api EXCEPT ![c] = o] /\ UNCHANGED <<store, claimed, edits>>
  BY DEF RecordOutcome, account, bounds
<1>2. o.phase = api[c].phase /\ o.spec = api[c].spec /\ o.creation = work[c].creation
  BY TypedObjects DEF Object
<1>3. api[c].creation = "pending"
  BY DEF RecordOutcome, Kept, Announced, Creating
<1>4. api'[c] = o /\ \A d \in Resources \ {c} : api'[d] = api[d]
  BY <1>1 DEF TypeOK
<1> HIDE DEF o
<1>5. CASE work[c].creation = "pending"
  BY <1>1, <1>2, <1>3, <1>5, OneObject
<1>6. CASE work[c].creation # "pending"
  <2>1. /\ [d \in Resources |-> api'[d].phase] = [d \in Resources |-> api[d].phase]
        /\ [d \in Resources |-> api'[d].spec.orphan] = [d \in Resources |-> api[d].spec.orphan]
    BY <1>2, <1>4
  <2> QED
    BY <1>1, <1>2, <1>3, <1>6, <2>1, OneWrite DEF Promise!Conclude
<1> QED
  BY <1>5, <1>6

\* A DELETE does not take what a live resource holds: the copy it works on
\* would be of an earlier resource, and what this one holds was taken later.
LEMMA DeleteStep ==
    ASSUME TypeOK, NEW c \in Resources, Kept(c), Incarnation(c), Delete(c)
    PROVE  Promise!Remove(c) \/ Unpromised
<1>1. UNCHANGED api /\ UNCHANGED edits
  BY DEF Delete, kube, bounds
<1>2. CASE UNCHANGED account
  BY <1>1, <1>2 DEF Unpromised, account
<1>3. CASE work[c].ext # NoKey /\ Removed(work[c].ext)
  <2>1. work[c].ext \in Keys
    BY <1>3, TypedObjects
  <2>2. api[c].phase = "live" => claimed[c] = {}
    BY DEF Delete, AtDelete, Incarnation
  <2>3. Promise!Drop(work[c].ext)
    BY <1>3 DEF Removed, Promise!Drop
  <2>4. Promise!Remove(c)!1
    BY <2>1, <2>2, <2>3
  <2> QED
    BY <1>1, <2>4 DEF Promise!Remove
<1> QED
  BY <1>2, <1>3 DEF Delete

\* A resource goes when it holds nothing, or leaves what it holds.
LEMMA FinishStep ==
    ASSUME TypeOK, NEW c \in Resources, Kept(c), RemoveFinalizer(c)
    PROVE  Promise!Finish(c)
<1>1. api' = [api EXCEPT ![c] = Gone] /\ UNCHANGED <<store, edits>>
  BY DEF RemoveFinalizer, bounds
<1>2. work[c].phase = api[c].phase /\ work[c].spec = api[c].spec
  BY DEF RemoveFinalizer, Kept, CopiesTrack
<1>3. api[c].phase = "deleting"
  BY <1>2 DEF RemoveFinalizer, Orphaned
<1>4. Orphaned(work[c]) \/ (claimed[c] = {} /\ api[c].creation # "pending")
  BY DEF RemoveFinalizer, Kept, CopiesTrack, MatchNamed, ClaimsKnown
<1>5. Orphaned(work[c]) => api[c].spec.orphan
  BY <1>2 DEF Orphaned
<1>6. claimed' = [claimed EXCEPT ![c] = {}]
  BY <1>4 DEF RemoveFinalizer, TypeOK
<1>7. Promise!Vanish(c)
  BY <1>1, <1>6, GoneWrite
<1> QED
  BY <1>1, <1>3, <1>4, <1>5, <1>7 DEF Promise!Finish

\* Every step of a reconcile keeps the promise.
LEMMA ReconcileStep ==
    ASSUME TypeOK, NEW c \in Resources, Kept(c), Incarnation(c), Reconcile(c)
    PROVE  Promise!Controller(c) \/ Unpromised
<1>1. CASE \/ Start(c) \/ DefaultName(c) \/ RefuseIncomplete(c) \/ Proceed(c)
           \/ Connect(c) \/ Observe(c) \/ SyncExternalName(c) \/ AddFinalizer(c)
           \/ UpToDate(c) \/ Report(c) \/ CreateKeyless(c) \/ SaveName(c)
           \/ SaveNameConflict(c) \/ Conflict(c)
  BY <1>1, QuietSteps
<1>2. CASE AnnounceCreate(c)
  BY <1>2, AnnounceStep DEF Promise!Controller
<1>3. CASE CreateStored(c) \/ CreateConflict(c)
  BY <1>3, CreateStep DEF Promise!Controller
<1>4. CASE RecordOutcome(c)
  BY <1>4, OutcomeStep DEF Promise!Controller
<1>5. CASE Delete(c)
  BY <1>5, DeleteStep DEF Promise!Controller
<1>6. CASE RemoveFinalizer(c)
  BY <1>6, FinishStep DEF Promise!Controller
<1> QED
  BY <1>1, <1>2, <1>3, <1>4, <1>5, <1>6 DEF Reconcile

\* So do failures.
LEMMA FailureStep ==
    ASSUME TypeOK, NEW c \in Resources, Kept(c), Failure(c)
    PROVE  Promise!Controller(c) \/ Unpromised
<1>1. CASE CreateLost(c)
  BY <1>1, CreateStep DEF Promise!Controller
<1>2. CASE CreateFails(c) \/ SaveNameFails(c) \/ Fault(c)
  BY <1>2 DEF CreateFails, SaveNameFails, Fault, Unpromised, kube, account
<1> QED
  BY <1>1, <1>2 DEF Failure

\* What users do is what the promise lets them.
LEMMA UserStep ==
    ASSUME TypeOK, NEW c \in Resources, Kept(c), User(c)
    PROVE  Promise!User(c)
<1>1. ASSUME NEW s \in Specs, EditSpec(c, s) PROVE Promise!EditSpec(c)
  <2> DEFINE o == [api[c] EXCEPT !.spec = s]
  <2>1. /\ api' = [api EXCEPT ![c] = o] /\ UNCHANGED <<store, claimed>>
        /\ Promise!Edit /\ api[c].phase # "absent"
    BY <1>1 DEF EditSpec, OutsideUpdate, account, Promise!Edit
  <2>2. o.phase = api[c].phase /\ o.spec = s /\ o.creation = api[c].creation
    BY TypedObjects DEF Object
  <2>3. s.orphan \in BOOLEAN
    BY CostCenterAssumption DEF Spec_t
  <2>4. api'[c] = o /\ \A d \in Resources \ {c} : api'[d] = api[d]
    BY <2>1 DEF TypeOK
  <2> HIDE DEF o
  <2>5. /\ [d \in Resources |-> api'[d].phase] = [d \in Resources |-> api[d].phase]
        /\ [d \in Resources |-> api'[d].creation = "pending"]
             = [d \in Resources |-> api[d].creation = "pending"]
    BY <2>2, <2>4
  <2> QED
    BY <2>1, <2>2, <2>3, <2>5, OneWrite DEF Promise!EditSpec
<1>2. ASSUME NEW s \in Specs, NEW k \in Imports, Apply(c, s, k) PROVE Promise!Apply(c)
  <2> DEFINE o == [Gone EXCEPT !.phase = "live", !.spec = s, !.ext = k]
  <2>1. /\ api' = [api EXCEPT ![c] = o] /\ UNCHANGED <<store, claimed>>
        /\ Promise!Edit /\ api[c].phase = "absent"
    BY <1>2 DEF Apply, OutsideUpdate, account, Promise!Edit
  <2>2. o.phase = "live" /\ o.spec = s /\ o.creation = "none"
    BY DEF Gone
  <2>3. s.orphan \in BOOLEAN /\ api[c].creation # "pending"
    BY <2>1, CostCenterAssumption DEF Spec_t, Kept, Announced
  <2>4. api'[c] = o /\ \A d \in Resources \ {c} : api'[d] = api[d]
    BY <2>1 DEF TypeOK
  <2> HIDE DEF o
  <2>5. [d \in Resources |-> api'[d].creation = "pending"]
          = [d \in Resources |-> api[d].creation = "pending"]
    BY <2>2, <2>3, <2>4
  <2>6. /\ [d \in Resources |-> api'[d].phase]
             = [[d \in Resources |-> api[d].phase] EXCEPT ![c] = "live"]
        /\ [d \in Resources |-> api'[d].spec.orphan]
             = [[d \in Resources |-> api[d].spec.orphan] EXCEPT ![c] = s.orphan]
    BY <2>2, <2>4, PhaseWrite, OrphanWrite
  <2>7. [d \in Resources |-> api[d].phase][c] = "absent"
    BY <2>1
  <2> QED
    BY <2>1, <2>3, <2>5, <2>6, <2>7 DEF Promise!Apply
<1>3. CASE RequestDeletion(c)
  <2>1. UNCHANGED <<store, claimed, edits>> /\ api[c].phase = "live"
    BY <1>3 DEF RequestDeletion, account, bounds
  <2>2. CASE api[c].fin
    <3> DEFINE o == [api[c] EXCEPT !.phase = "deleting"]
    <3>1. api' = [api EXCEPT ![c] = o]
      BY <1>3, <2>2 DEF RequestDeletion, OutsideUpdate
    <3>2. o.phase = "deleting" /\ o.spec = api[c].spec /\ o.creation = api[c].creation
      BY TypedObjects DEF Object
    <3>3. api'[c] = o /\ \A d \in Resources \ {c} : api'[d] = api[d]
      BY <3>1 DEF TypeOK
    <3> HIDE DEF o
    <3>4. /\ [d \in Resources |-> api'[d].spec.orphan] = [d \in Resources |-> api[d].spec.orphan]
          /\ [d \in Resources |-> api'[d].creation = "pending"]
               = [d \in Resources |-> api[d].creation = "pending"]
      BY <3>2, <3>3
    <3>5. [d \in Resources |-> api'[d].phase]
            = [[d \in Resources |-> api[d].phase] EXCEPT ![c] = "deleting"]
      BY <3>2, <3>3, PhaseWrite
    <3>6. [d \in Resources |-> api[d].phase][c] = "live"
      BY <2>1
    <3> QED
      BY <2>1, <3>4, <3>5, <3>6 DEF Promise!RequestDeletion, Promise!User
  <2>3. CASE ~api[c].fin
    <3>1. api' = [api EXCEPT ![c] = Gone]
      BY <1>3, <2>3 DEF RequestDeletion, OutsideUpdate
    <3>2. claimed[c] = {} /\ api[c].creation # "pending"
      BY <2>3 DEF Kept, Remembered, Announced
    <3>3. claimed' = [claimed EXCEPT ![c] = {}]
      <4>1. claimed' = claimed
        BY <2>1
      <4> QED
        BY <3>2, <4>1 DEF TypeOK
    <3>4. Promise!Vanish(c)
      BY <3>1, <3>3, GoneWrite
    <3>5. [d \in Resources |-> api[d].phase][c] = "live"
      BY <2>1
    <3> QED
      BY <2>1, <3>2, <3>4, <3>5 DEF Promise!RequestDeletion, Promise!User
  <2> QED
    BY <2>2, <2>3
<1> QED
  BY <1>1, <1>2, <1>3 DEF User, Promise!User

\* Every step keeps the promise.
LEMMA PromiseNext ==
    TypeOK /\ Bookkeeping /\ Incarnations /\ [Next]_vars => [Promise!Next]_(Promise!vars)
<1> SUFFICES ASSUME TypeOK, Bookkeeping, Incarnations, [Next]_vars
             PROVE  Promise!Next \/ Unpromised
  BY UnpromisedStutters
<1>1. ASSUME NEW c \in Resources, Reconcile(c) \/ Failure(c) \/ User(c) \/ CacheSync(c)
      PROVE  Promise!Next \/ Unpromised
  <2>1. Kept(c) /\ Incarnation(c)
    BY DEF Bookkeeping, Kept, Incarnations
  <2>2. CASE CacheSync(c)
    BY <2>2 DEF CacheSync, Unpromised, account, bounds
  <2> QED
    BY <1>1, <2>1, <2>2, ReconcileStep, FailureStep, UserStep DEF Promise!Next
<1>2. CASE Restart
  BY <1>2 DEF Restart, Unpromised, account
<1>3. ASSUME NEW k \in Keys, NEW v \in Values \cup {NoValue}, OutOfBand(k, v)
      PROVE  Promise!Next
  <2>1. UNCHANGED api /\ Promise!Edit
    BY <1>3 DEF OutOfBand, kube, Promise!Edit
  <2>2. \/ Promise!Drop(k)
        \/ (\E w \in Values : store' = [store EXCEPT ![k] = w]) /\ UNCHANGED claimed
    BY <1>3 DEF OutOfBand, Removed, Promise!Drop
  <2>3. Promise!OutOfBand(k)
    BY <2>1, <2>2 DEF Promise!OutOfBand
  <2> QED
    BY <2>3 DEF Promise!Next
<1>4. CASE UNCHANGED vars
  BY <1>4 DEF vars, kube, account, bounds, Unpromised
<1> QED
  BY <1>1, <1>2, <1>3, <1>4 DEF Next

\* At the start there is no resource to be out of step.
LEMMA IncarnationsInit == Init => Incarnations
  BY DEF Init, Gone, Incarnations, Incarnation, Creating

\* No reconcile works on a copy of a resource that another has replaced
\* since, in a way that matters.
THEOREM IncarnationsHold == Spec => []Incarnations
<1>1. Init => Incarnations
  BY IncarnationsInit
<1>2. TypeOK /\ Bookkeeping /\ Incarnations /\ [Next]_vars => Incarnations'
  BY IncarnationsNext
<1> QED
  BY <1>1, <1>2, TypeCorrect, BookkeepingHolds, PTL DEF Spec

\* The controller implements CostCenterPromise, for any resources, keys,
\* values, specs and bounds.
THEOREM PromiseHolds == Spec => PromiseKept
<1>1. Init => Promise!Init
  BY PromiseInit
<1>2. TypeOK /\ Bookkeeping /\ Incarnations /\ [Next]_vars => [Promise!Next]_(Promise!vars)
  BY PromiseNext
<1> QED
  BY <1>1, <1>2, TypeCorrect, BookkeepingHolds, IncarnationsHold, PTL
  DEF Spec, PromiseKept, Promise!Spec

=============================================================================
