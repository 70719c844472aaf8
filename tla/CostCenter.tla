----------------------------- MODULE CostCenter -----------------------------
(***************************************************************************)
(* The hand-written CostCenter controller                                  *)
(* (internal/controller/{cluster,namespaced}/iam/costcenter/controller.go) *)
(* between the two services it talks to:                                   *)
(*                                                                         *)
(*   - the Kubernetes API server, which holds the CostCenter resources and *)
(*     rejects an update made from an outdated copy, and the informer      *)
(*     cache through which the manager's client reads them;                *)
(*   - the Dynatrace account, which holds the cost centers, a key and a    *)
(*     value each.                                                         *)
(*                                                                         *)
(* The handlers of the file (Connect, Observe, Create, Delete) are called  *)
(* by crossplane-runtime's managed reconciler, built in Setup.  That       *)
(* reconciler is not part of the repository: its steps are modelled as the *)
(* sequence in which it calls the handlers and persists the resource, and  *)
(* are marked "external".  A handler that calls a remote service is split  *)
(* where it waits, because everything else may move there.                 *)
(***************************************************************************)
EXTENDS Naturals, FiniteSets

CONSTANTS
    Resources,     \* CostCenter resources, by metadata.name
    Keys,          \* cost center keys (external names)
    Values,        \* cost center values
    EmptyValue,    \* the empty string, a value
    NoKey,         \* in a spec: a key that is nil; else: an empty external name
    NoValue,       \* a value that is nil; in the account: no cost center
    NameOf,        \* metadata.name of each resource, read as a key
    Specs,         \* the specs users apply
    Imports,       \* the external names they apply them with
    NamesDefaulted,\* does the reconciler default the external name?
    MaxFaults,     \* bound on failed calls and restarts
    MaxEdits       \* bound on changes made by users and by other clients

Spec_t == [key: Keys \cup {NoKey}, val: Values \cup {NoValue},
           initKey: Keys \cup {NoKey}, initVal: Values \cup {NoValue},
           orphan: BOOLEAN]

\* The validation rules of the CustomResourceDefinition: key and value are
\* each required, in spec.forProvider or in spec.initProvider.
Admitted(s) ==
    /\ s.key # NoKey \/ s.initKey # NoKey
    /\ s.val # NoValue \/ s.initVal # NoValue

ASSUME CostCenterAssumption ==
    /\ NoKey \notin Keys
    /\ NoValue \notin Values
    /\ EmptyValue \in Values
    /\ NameOf \in [Resources -> Keys]
    /\ Specs \subseteq {s \in Spec_t : Admitted(s)}
    /\ Imports \subseteq Keys \cup {NoKey}
    /\ NamesDefaulted \in BOOLEAN
    /\ MaxFaults \in Nat
    /\ MaxEdits \in Nat

VARIABLES
    api,        \* the CostCenter objects the API server stores
    cache,      \* the informer cache's copy of each object
    cacheFresh, \* is that copy the latest version?
    pc,         \* the step the reconcile of each resource is at
    work,       \* the reconcile's in-memory copy of the object
    workFresh,  \* is it the latest version, so that an update is accepted?
    found,      \* the cost center Observe matched
    store,      \* the cost centers of the Dynatrace account
    faults,     \* failed calls and restarts so far
    edits,      \* changes by users and other clients so far
    (***********************************************************************)
    (* History variables, read by no action                                *)
    (***********************************************************************)
    claimed,    \* keys the account confirmed to a resource's Create
    made        \* keys a resource's Create brought into the account

kube == <<api, cache, cacheFresh>>
local == <<pc, work, workFresh, found>>
account == <<store, claimed, made>>
bounds == <<faults, edits>>
vars == <<kube, local, account, bounds>>

Item == [key: Keys, val: Values]
NoItem == [key |-> NoKey, val |-> NoValue]
NoSpec == [key |-> NoKey, val |-> NoValue, initKey |-> NoKey,
           initVal |-> NoValue, orphan |-> FALSE]

Object == [phase: {"absent", "live", "deleting"},
           fin: BOOLEAN,
           ext: Keys \cup {NoKey},
           creation: {"none", "pending", "succeeded", "failed"},
           spec: Specs \cup {NoSpec},
           at: Item \cup {NoItem}]

Gone == [phase |-> "absent", fin |-> FALSE, ext |-> NoKey,
         creation |-> "none", spec |-> NoSpec, at |-> NoItem]

Steps == {"idle", "initialize", "connect", "observe", "syncName", "decide",
          "create", "saveName", "record", "report"}

Init ==
    /\ api = [c \in Resources |-> Gone]
    /\ cache = [c \in Resources |-> Gone]
    /\ cacheFresh = [c \in Resources |-> TRUE]
    /\ pc = [c \in Resources |-> "idle"]
    /\ work = [c \in Resources |-> Gone]
    /\ workFresh = [c \in Resources |-> FALSE]
    /\ found = [c \in Resources |-> NoItem]
    /\ store \in [Keys -> Values \cup {NoValue}]
    /\ faults = 0
    /\ edits = 0
    /\ claimed = [c \in Resources |-> {}]
    /\ made = [c \in Resources |-> {}]

-----------------------------------------------------------------------------
(***************************************************************************)
(* Operators the handlers share                                            *)
(***************************************************************************)

\* getTargetKey: the external name, or spec.forProvider.key without one.
TargetKey(o) == IF o.ext # NoKey THEN o.ext ELSE o.spec.key

\* List: the cost centers of the account, on a single page.
List == {[key |-> k, val |-> store[k]] : k \in {l \in Keys : store[l] # NoValue}}

\* findItem: the cost center with key k, if the account has one.
FindItem(k) ==
    IF \E item \in List : item.key = k
    THEN CHOOSE item \in List : item.key = k
    ELSE NoItem

\* The value Create posts: "" when spec.forProvider.value is nil.
DesiredValue(s) == IF s.val = NoValue THEN EmptyValue ELSE s.val

\* A step of c that touches neither service.
Local(c, step) ==
    /\ pc' = [pc EXCEPT ![c] = step]
    /\ UNCHANGED <<kube, account, bounds>>

\* The reconcile of c ends and drops its copy.
Return(c) ==
    /\ pc' = [pc EXCEPT ![c] = "idle"]
    /\ work' = [work EXCEPT ![c] = Gone]
    /\ workFresh' = [workFresh EXCEPT ![c] = FALSE]
    /\ found' = [found EXCEPT ![c] = NoItem]

\* The API server stores o, written from an up-to-date copy, and returns it:
\* the response replaces the copy, status (which an update of the resource
\* itself does not write) included.
Update(c, o, step) ==
    LET saved == [o EXCEPT !.at = api[c].at] IN
    /\ workFresh[c]
    /\ api' = [api EXCEPT ![c] = saved]
    /\ work' = [work EXCEPT ![c] = saved]
    /\ cacheFresh' = [cacheFresh EXCEPT ![c] = FALSE]
    /\ pc' = [pc EXCEPT ![c] = step]
    /\ UNCHANGED <<cache, workFresh>>

\* An update of object c by anyone but the reconcile of c.
OutsideUpdate(c, o) ==
    /\ api' = [api EXCEPT ![c] = o]
    /\ cacheFresh' = [cacheFresh EXCEPT ![c] = FALSE]
    /\ workFresh' = [workFresh EXCEPT ![c] = FALSE]
    /\ UNCHANGED <<cache, pc, work, found>>

-----------------------------------------------------------------------------
(***************************************************************************)
(* The managed reconciler (external), up to the first handler              *)
(***************************************************************************)

\* The reconcile reads the object through the informer cache.
Start(c) ==
    /\ pc[c] = "idle"
    /\ cache[c].phase # "absent"
    /\ work' = [work EXCEPT ![c] = cache[c]]
    /\ workFresh' = [workFresh EXCEPT ![c] = cacheFresh[c]]
    /\ Local(c, "initialize")
    /\ UNCHANGED found

Orphaned(o) == o.phase = "deleting" /\ o.spec.orphan

\* Setup passes no initializers, so the reconciler keeps its default one: an
\* object without an external name gets its metadata.name, persisted at once.
DefaultName(c) ==
    /\ pc[c] = "initialize"
    /\ ~Orphaned(work[c])
    /\ NamesDefaulted
    /\ work[c].ext = NoKey
    /\ Update(c, [work[c] EXCEPT !.ext = NameOf[c]], "initialize")
    /\ UNCHANGED <<found, account, bounds>>

Initialized(o) == ~NamesDefaulted \/ o.ext # NoKey

\* A creation that was announced and never concluded: the reconciler refuses
\* to go on, whatever the resource's name.
RefuseIncomplete(c) ==
    /\ pc[c] = "initialize"
    /\ ~Orphaned(work[c])
    /\ Initialized(work[c])
    /\ work[c].creation = "pending"
    /\ Return(c)
    /\ UNCHANGED <<kube, account, bounds>>

\* Mutant of Proceed: the announcement is not looked at.
ProceedAnyway(c) ==
    /\ pc[c] = "initialize"
    /\ ~Orphaned(work[c])
    /\ Initialized(work[c])
    /\ Local(c, "connect")
    /\ UNCHANGED <<work, workFresh, found>>

Proceed(c) ==
    /\ pc[c] = "initialize"
    /\ ~Orphaned(work[c])
    /\ Initialized(work[c])
    /\ work[c].creation # "pending"
    /\ Local(c, "connect")
    /\ UNCHANGED <<work, workFresh, found>>

-----------------------------------------------------------------------------
(***************************************************************************)
(* Connect and Observe                                                     *)
(***************************************************************************)

\* Connect: the provider config, its credentials and the API client; any of
\* the three may be missing, which is a Fault.
Connect(c) ==
    /\ pc[c] = "connect"
    /\ Local(c, "observe")
    /\ UNCHANGED <<work, workFresh, found>>

\* Mutant of Observe: the external name is not synchronised.
ObserveUnnamed(c) ==
    LET item == FindItem(TargetKey(work[c])) IN
    /\ pc[c] = "observe"
    /\ found' = [found EXCEPT ![c] = item]
    /\ IF item = NoItem
       THEN UNCHANGED work
       ELSE work' = [work EXCEPT ![c].at = item]
    /\ Local(c, "decide")
    /\ UNCHANGED workFresh

\* Observe, up to syncExternalName: List the account and match the target
\* key.  An object matched by spec.forProvider.key is named after it next.
Observe(c) ==
    LET item == FindItem(TargetKey(work[c])) IN
    /\ pc[c] = "observe"
    /\ found' = [found EXCEPT ![c] = item]
    /\ IF item = NoItem
       THEN Local(c, "decide") /\ UNCHANGED work
       ELSE IF work[c].ext # item.key
       THEN /\ work' = [work EXCEPT ![c].ext = item.key]
            /\ Local(c, "syncName")
       ELSE /\ work' = [work EXCEPT ![c].at = item]
            /\ Local(c, "decide")
    /\ UNCHANGED workFresh

\* syncExternalName's update, then populateStatus and the verdict "exists,
\* up to date".
SyncExternalName(c) ==
    /\ pc[c] = "syncName"
    /\ workFresh[c]
    /\ api' = [api EXCEPT ![c] = [work[c] EXCEPT !.at = api[c].at]]
    /\ work' = [work EXCEPT ![c].at = found[c]]
    /\ cacheFresh' = [cacheFresh EXCEPT ![c] = FALSE]
    /\ pc' = [pc EXCEPT ![c] = "decide"]
    /\ UNCHANGED <<cache, workFresh, found, account, bounds>>

-----------------------------------------------------------------------------
(***************************************************************************)
(* What the reconciler (external) does with the observation                *)
(***************************************************************************)

\* The finalizer is persisted before anything is created.  The response
\* overwrites the status Observe populated.
AddFinalizer(c) ==
    /\ pc[c] = "decide"
    /\ work[c].phase = "live"
    /\ ~work[c].fin
    /\ Update(c, [work[c] EXCEPT !.fin = TRUE], "decide")
    /\ UNCHANGED <<found, account, bounds>>

\* The creation is announced on the object before Create is called.
AnnounceCreate(c) ==
    /\ pc[c] = "decide"
    /\ work[c].phase = "live"
    /\ work[c].fin
    /\ found[c] = NoItem
    /\ Update(c, [work[c] EXCEPT !.creation = "pending"], "create")
    /\ UNCHANGED <<found, account, bounds>>

\* The cost center exists and Observe calls it up to date: only the status
\* is left to write.  Observe never answers otherwise, so Update of
\* controller.go is never called.
UpToDate(c) ==
    /\ pc[c] = "decide"
    /\ work[c].phase = "live"
    /\ work[c].fin
    /\ found[c] # NoItem
    /\ Local(c, "report")
    /\ UNCHANGED <<work, workFresh, found>>

\* The status update at the end of a reconcile.
Report(c) ==
    /\ pc[c] = "report"
    /\ workFresh[c]
    /\ api' = [api EXCEPT ![c].at = work[c].at]
    /\ cacheFresh' = [cacheFresh EXCEPT ![c] = FALSE]
    /\ Return(c)
    /\ UNCHANGED <<cache, account, bounds>>

\* The account no longer has the cost center, or the deletion policy is
\* Orphan: the finalizer goes, and the object with it.
RemoveFinalizer(c) ==
    /\ \/ pc[c] = "initialize" /\ Orphaned(work[c])
       \/ pc[c] = "decide" /\ work[c].phase = "deleting" /\ found[c] = NoItem
    /\ workFresh[c]
    /\ api' = [api EXCEPT ![c] = Gone]
    /\ cacheFresh' = [cacheFresh EXCEPT ![c] = FALSE]
    /\ Return(c)
    \* with Orphan, what the resource made is the user's again
    /\ IF Orphaned(work[c])
       THEN /\ claimed' = [claimed EXCEPT ![c] = {}]
            /\ made' = [made EXCEPT ![c] = {}]
       ELSE UNCHANGED <<claimed, made>>
    /\ UNCHANGED <<cache, store, bounds>>

-----------------------------------------------------------------------------
(***************************************************************************)
(* Create                                                                  *)
(***************************************************************************)

\* Mutant of CreateStored: the name is not set on the copy.
CreateStoredUnnamed(c) ==
    LET k == work[c].spec.key IN
    /\ pc[c] = "create"
    /\ k # NoKey
    /\ store[k] = NoValue
    /\ store' = [store EXCEPT ![k] = DesiredValue(work[c].spec)]
    /\ claimed' = [claimed EXCEPT ![c] = @ \cup {k}]
    /\ made' = [made EXCEPT ![c] = @ \cup {k}]
    /\ pc' = [pc EXCEPT ![c] = "saveName"]
    /\ UNCHANGED <<kube, work, workFresh, found, bounds>>

\* POST is accepted: the cost center exists from here on.  The handler sets
\* the external name, in memory first.
CreateStored(c) ==
    LET k == work[c].spec.key IN
    /\ pc[c] = "create"
    /\ k # NoKey
    /\ store[k] = NoValue
    /\ store' = [store EXCEPT ![k] = DesiredValue(work[c].spec)]
    /\ claimed' = [claimed EXCEPT ![c] = @ \cup {k}]
    /\ made' = [made EXCEPT ![c] = @ \cup {k}]
    /\ work' = [work EXCEPT ![c].ext = k]
    /\ pc' = [pc EXCEPT ![c] = "saveName"]
    /\ UNCHANGED <<kube, workFresh, found, bounds>>

\* Mutant of CreateConflict: the refusal is an error like any other.
CreateConflictFails(c) ==
    /\ pc[c] = "create"
    /\ work[c].spec.key # NoKey
    /\ store[work[c].spec.key] # NoValue
    /\ work' = [work EXCEPT ![c].creation = "failed"]
    /\ pc' = [pc EXCEPT ![c] = "record"]
    /\ UNCHANGED <<kube, workFresh, found, account, bounds>>

\* POST is refused because the key "has already been stored": the handler
\* takes the cost center over.
CreateConflict(c) ==
    LET k == work[c].spec.key IN
    /\ pc[c] = "create"
    /\ k # NoKey
    /\ store[k] # NoValue
    /\ claimed' = [claimed EXCEPT ![c] = @ \cup {k}]
    /\ work' = [work EXCEPT ![c].ext = k]
    /\ pc' = [pc EXCEPT ![c] = "saveName"]
    /\ UNCHANGED <<kube, workFresh, found, store, made, bounds>>

\* POST was carried out, but its answer is lost: an error for the handler.
CreateLost(c) ==
    LET k == work[c].spec.key IN
    /\ pc[c] = "create"
    /\ faults < MaxFaults
    /\ k # NoKey
    /\ store[k] = NoValue
    /\ store' = [store EXCEPT ![k] = DesiredValue(work[c].spec)]
    /\ made' = [made EXCEPT ![c] = @ \cup {k}]
    /\ work' = [work EXCEPT ![c].creation = "failed"]
    /\ pc' = [pc EXCEPT ![c] = "record"]
    /\ faults' = faults + 1
    /\ UNCHANGED <<kube, workFresh, found, claimed, edits>>

\* POST fails without effect.
CreateFails(c) ==
    /\ pc[c] = "create"
    /\ faults < MaxFaults
    /\ work[c].spec.key # NoKey
    /\ work' = [work EXCEPT ![c].creation = "failed"]
    /\ pc' = [pc EXCEPT ![c] = "record"]
    /\ faults' = faults + 1
    /\ UNCHANGED <<kube, workFresh, found, account, edits>>

\* Mutant of CreateKeyless: a nil key is not noticed.
CreateKeylessPosts(c) ==
    /\ pc[c] = "create"
    /\ work[c].spec.key = NoKey
    /\ claimed' = [claimed EXCEPT ![c] = @ \cup {NoKey}]
    /\ pc' = [pc EXCEPT ![c] = "saveName"]
    /\ UNCHANGED <<kube, work, workFresh, found, store, made, bounds>>

\* "spec.forProvider.key is required", the handler's own error.
CreateKeyless(c) ==
    /\ pc[c] = "create"
    /\ work[c].spec.key = NoKey
    /\ work' = [work EXCEPT ![c].creation = "failed"]
    /\ pc' = [pc EXCEPT ![c] = "record"]
    /\ UNCHANGED <<kube, workFresh, found, account, bounds>>

\* Create's update of the external-name annotation, and the outcome the
\* reconciler takes from Create's result.
SaveName(c) ==
    /\ pc[c] = "saveName"
    /\ workFresh[c]
    /\ api' = [api EXCEPT ![c].ext = work[c].ext]
    /\ work' = [work EXCEPT ![c].creation = "succeeded"]
    /\ cacheFresh' = [cacheFresh EXCEPT ![c] = FALSE]
    /\ pc' = [pc EXCEPT ![c] = "record"]
    /\ UNCHANGED <<cache, workFresh, found, account, bounds>>

\* The update is rejected, the object having changed since it was read.
SaveNameConflict(c) ==
    /\ pc[c] = "saveName"
    /\ ~workFresh[c]
    /\ work' = [work EXCEPT ![c].creation = "failed"]
    /\ pc' = [pc EXCEPT ![c] = "record"]
    /\ UNCHANGED <<kube, workFresh, found, account, bounds>>

\* The update fails for another reason.
SaveNameFails(c) ==
    /\ pc[c] = "saveName"
    /\ faults < MaxFaults
    /\ faults' = faults + 1
    /\ work' = [work EXCEPT ![c].creation = "failed"]
    /\ pc' = [pc EXCEPT ![c] = "record"]
    /\ UNCHANGED <<kube, workFresh, found, account, edits>>

\* The reconciler (external) persists the annotations, the external name
\* among them, on the latest version of the object, retrying conflicts.
RecordOutcome(c) ==
    /\ pc[c] = "record"
    /\ api' = [api EXCEPT ![c].ext = work[c].ext,
                          ![c].creation = work[c].creation]
    /\ cacheFresh' = [cacheFresh EXCEPT ![c] = FALSE]
    /\ Return(c)
    /\ UNCHANGED <<cache, account, bounds>>

-----------------------------------------------------------------------------
(***************************************************************************)
(* Delete                                                                  *)
(***************************************************************************)

\* A cost center leaves the account: nobody has it any more.
Removed(k) ==
    /\ store' = [store EXCEPT ![k] = NoValue]
    /\ claimed' = [r \in Resources |-> claimed[r] \ {k}]
    /\ made' = [r \in Resources |-> made[r] \ {k}]

AtDelete(c) ==
    /\ pc[c] = "decide"
    /\ work[c].phase = "deleting"
    /\ found[c] # NoItem

\* Mutant of Delete: it addresses the cost center the spec names.
DeleteByKey(c) ==
    /\ AtDelete(c)
    /\ IF work[c].spec.key = NoKey
       THEN UNCHANGED account
       ELSE Removed(work[c].spec.key)
    /\ pc' = [pc EXCEPT ![c] = "report"]
    /\ UNCHANGED <<kube, work, workFresh, found, bounds>>

\* Delete: DELETE .../costcenters/{external name}; a key that is not there
\* any more is no error.
Delete(c) ==
    /\ AtDelete(c)
    /\ IF work[c].ext = NoKey THEN UNCHANGED account ELSE Removed(work[c].ext)
    /\ pc' = [pc EXCEPT ![c] = "report"]
    /\ UNCHANGED <<kube, work, workFresh, found, bounds>>

-----------------------------------------------------------------------------
(***************************************************************************)
(* Failures                                                                *)
(***************************************************************************)

\* The next thing the reconcile does is to write the object (Create's own
\* write is SaveName).
Writes(c) ==
    \/ pc[c] \in {"syncName", "report"}
    \/ pc[c] = "initialize" /\ (~Initialized(work[c]) \/ Orphaned(work[c]))
    \/ pc[c] = "decide" /\ IF work[c].phase = "live"
                           THEN ~work[c].fin \/ found[c] = NoItem
                           ELSE found[c] = NoItem

\* An update from an outdated copy is rejected: the handler returns the
\* error and the reconcile ends, to be retried.
Conflict(c) ==
    /\ ~workFresh[c]
    /\ Writes(c)
    /\ Return(c)
    /\ UNCHANGED <<kube, account, bounds>>

\* A call fails without effect: the provider config or the credentials
\* cannot be read, the account does not answer, an update is not stored.
Fault(c) ==
    /\ pc[c] \in Steps \ {"idle", "create", "saveName"}
    /\ faults < MaxFaults
    /\ faults' = faults + 1
    /\ Return(c)
    /\ UNCHANGED <<kube, account, edits>>

\* The provider restarts: every reconcile is lost, the cache is filled anew.
Restart ==
    /\ faults < MaxFaults
    /\ faults' = faults + 1
    /\ pc' = [c \in Resources |-> "idle"]
    /\ work' = [c \in Resources |-> Gone]
    /\ workFresh' = [c \in Resources |-> FALSE]
    /\ found' = [c \in Resources |-> NoItem]
    /\ cache' = api
    /\ cacheFresh' = [c \in Resources |-> TRUE]
    /\ UNCHANGED <<api, account, edits>>

-----------------------------------------------------------------------------
(***************************************************************************)
(* The users of the API server, its watch, and other clients of the account*)
(***************************************************************************)

\* A user applies a new resource, perhaps with an external name.
Apply(c, s, k) ==
    /\ edits < MaxEdits
    /\ edits' = edits + 1
    /\ api[c].phase = "absent"
    /\ OutsideUpdate(c, [Gone EXCEPT !.phase = "live", !.spec = s, !.ext = k])
    /\ UNCHANGED <<account, faults>>

EditSpec(c, s) ==
    /\ edits < MaxEdits
    /\ edits' = edits + 1
    /\ api[c].phase # "absent"
    /\ api[c].spec # s
    /\ OutsideUpdate(c, [api[c] EXCEPT !.spec = s])
    /\ UNCHANGED <<account, faults>>

\* Deleting an object that has a finalizer only marks it.
RequestDeletion(c) ==
    /\ api[c].phase = "live"
    /\ OutsideUpdate(c, IF api[c].fin
                        THEN [api[c] EXCEPT !.phase = "deleting"]
                        ELSE Gone)
    /\ UNCHANGED <<account, bounds>>

\* The watch brings the cache up to date.
CacheSync(c) ==
    /\ ~cacheFresh[c]
    /\ cache' = [cache EXCEPT ![c] = api[c]]
    /\ cacheFresh' = [cacheFresh EXCEPT ![c] = TRUE]
    /\ UNCHANGED <<api, local, account, bounds>>

\* Another client creates, changes or removes a cost center.
OutOfBand(k, v) ==
    /\ edits < MaxEdits
    /\ edits' = edits + 1
    /\ store[k] # v
    /\ IF v = NoValue
       THEN Removed(k)
       ELSE store' = [store EXCEPT ![k] = v] /\ UNCHANGED <<claimed, made>>
    /\ UNCHANGED <<kube, local, faults>>

-----------------------------------------------------------------------------
Reconcile(c) ==
    \/ Start(c) \/ DefaultName(c) \/ RefuseIncomplete(c) \/ Proceed(c)
    \/ Connect(c) \/ Observe(c) \/ SyncExternalName(c)
    \/ AddFinalizer(c) \/ AnnounceCreate(c) \/ UpToDate(c) \/ Report(c)
    \/ RemoveFinalizer(c)
    \/ CreateStored(c) \/ CreateConflict(c) \/ CreateKeyless(c)
    \/ SaveName(c) \/ SaveNameConflict(c) \/ RecordOutcome(c)
    \/ Delete(c)
    \/ Conflict(c)

Failure(c) ==
    CreateLost(c) \/ CreateFails(c) \/ SaveNameFails(c) \/ Fault(c)

User(c) ==
    \/ \E s \in Specs : EditSpec(c, s)
    \/ \E s \in Specs, k \in Imports : Apply(c, s, k)
    \/ RequestDeletion(c)

Next ==
    \/ \E c \in Resources :
          Reconcile(c) \/ Failure(c) \/ User(c) \/ CacheSync(c)
    \/ Restart
    \/ \E k \in Keys, v \in Values \cup {NoValue} : OutOfBand(k, v)

Spec == Init /\ [][Next]_vars

\* The work queue retries and polls every resource, and the watch delivers
\* every version.  Users, failures and other clients owe nothing.
Fairness ==
    \A c \in Resources : WF_vars(Reconcile(c)) /\ WF_vars(CacheSync(c))

FairSpec == Spec /\ Fairness

-----------------------------------------------------------------------------
(***************************************************************************)
(* Properties                                                              *)
(***************************************************************************)

\* Every variable has its type.
TypeOK ==
    /\ api \in [Resources -> Object]
    /\ cache \in [Resources -> Object]
    /\ cacheFresh \in [Resources -> BOOLEAN]
    /\ pc \in [Resources -> Steps]
    /\ work \in [Resources -> Object]
    /\ workFresh \in [Resources -> BOOLEAN]
    /\ found \in [Resources -> Item \cup {NoItem}]
    /\ store \in [Keys -> Values \cup {NoValue}]
    /\ faults \in 0..MaxFaults
    /\ edits \in 0..MaxEdits
    /\ claimed \in [Resources -> SUBSET Keys]
    /\ made \in [Resources -> SUBSET Keys]

\* A DELETE request names the cost center Observe matched.  The handler puts
\* the annotation into the path unchecked, and an empty one would address the
\* collection .../costcenters/ itself.
DeleteIsAddressed ==
    \A c \in Resources :
        AtDelete(c) => work[c].ext = found[c].key /\ work[c].ext # NoKey

\* Creating is the step at which a crash cannot be told from a slow answer.
Creating(c) == pc[c] \in {"create", "saveName", "record"}

\* A cost center the account confirmed to Create is never lost track of: as
\* long as it exists, so does the object, protected by its finalizer, and
\* names it, unless the creation still counts as pending.  The update of the
\* name may be rejected, fail, or be cut off by a restart, and the object may
\* be edited or deleted meanwhile.
Remembered(c) ==
    \A k \in claimed[c] :
        /\ api[c].phase # "absent"
        /\ api[c].fin
        /\ api[c].ext = k \/ api[c].creation = "pending"

ClaimedNeverForgotten == \A c \in Resources : Remembered(c)

\* A creation was announced and the reconcile that did it is no more.
Abandoned(c) == api[c].creation = "pending" /\ ~Creating(c)

\* Nobody resumes an abandoned creation, with another POST or otherwise, not
\* even from a cached copy older than the announcement: only dropping the
\* object under the deletion policy Orphan ends it.
AbandonedStays ==
    [][\A c \in Resources :
          Abandoned(c) => \/ Abandoned(c)'
                          \/ api[c].spec.orphan /\ api'[c].phase = "absent"]_vars

\* The object reports the cost center its name stands for as it is.
Reported(c) ==
    /\ api[c].ext # NoKey
    /\ api[c].at = FindItem(api[c].ext)
    /\ api[c].at # NoItem

(***************************************************************************)
(* Why claimed cost centers are not forgotten, step by step                *)
(***************************************************************************)

\* A copy that still counts as the latest version differs from the object
\* only in what the reconcile is about to write.
CopiesTrack(c) ==
    /\ cacheFresh[c] => cache[c] = api[c]
    /\ pc[c] # "idle" => work[c].phase # "absent"
    /\ workFresh[c] =>
          /\ work[c].phase = api[c].phase
          /\ work[c].fin = api[c].fin
          /\ work[c].spec = api[c].spec
          /\ pc[c] # "record" => work[c].creation = api[c].creation
          /\ pc[c] = "syncName" => api[c].ext = NoKey
          /\ pc[c] \notin {"syncName", "saveName", "record"} =>
                work[c].ext = api[c].ext

\* Past the check of the announcement no creation is pending, and the match
\* of Observe is the cost center the copy is named after.
MatchNamed(c) ==
    /\ pc[c] \in {"connect", "observe", "syncName", "decide"} =>
          work[c].creation # "pending"
    /\ pc[c] \in {"syncName", "decide"} /\ found[c] # NoItem =>
          work[c].ext = found[c].key /\ work[c].ext # NoKey

\* A creation under way is announced, and an announced one is on an object
\* that cannot vanish.
Announced(c) ==
    /\ Creating(c) => api[c].creation = "pending"
    /\ api[c].creation = "pending" => api[c].fin /\ api[c].phase # "absent"

\* What is claimed is in the account; nothing is when Create is called, or
\* when an up-to-date copy found no match; after POST it is what the copy is
\* named after.
ClaimsKnown(c) ==
    /\ \A k \in claimed[c] : store[k] # NoValue
    /\ pc[c] = "create" => claimed[c] = {}
    /\ pc[c] = "decide" /\ found[c] = NoItem /\ workFresh[c] => claimed[c] = {}
    /\ pc[c] \in {"saveName", "record"} => claimed[c] \subseteq {work[c].ext}

\* The inductive invariant behind ClaimedNeverForgotten and
\* DeleteIsAddressed: at no step of no reconcile is the object, its copies,
\* the account and the claims in disagreement.
Bookkeeping ==
    \A c \in Resources : /\ CopiesTrack(c)
                         /\ MatchNamed(c)
                         /\ Announced(c)
                         /\ ClaimsKnown(c)
                         /\ Remembered(c)

\* Once failures and edits are over, a live object gets a cost center and
\* reports its key and its present value, unless its creation was abandoned.
\* This survives the finalizer's update that wipes the status Observe has
\* just populated, a lost answer to POST (the retry is refused and takes the
\* cost center over) and a removal by another client.
Converges ==
    \A c \in Resources :
        <>[](api[c].phase = "live" => Abandoned(c) \/ Reported(c))

\* Once failures and edits are over, an object being deleted disappears,
\* unless its creation was abandoned.
DeletionCompletes ==
    \A c \in Resources : <>[](api[c].phase = "deleting" => Abandoned(c))

(***************************************************************************)
(* The promise the controller keeps                                        *)
(***************************************************************************)
Promise == INSTANCE CostCenterPromise WITH
    phase <- [c \in Resources |-> api[c].phase],
    orphan <- [c \in Resources |-> api[c].spec.orphan],
    announced <- [c \in Resources |-> api[c].creation = "pending"],
    held <- claimed,
    account <- store

\* The controller implements CostCenterPromise, although it works on copies
\* that may be old, its calls fail and their answers are lost, it restarts
\* between any two steps, and users and other clients come between.
PromiseKept == Promise!Spec

(***************************************************************************)
(* What the repository says and the code does not do                       *)
(***************************************************************************)

\* "CostCenterSpec defines the desired state of CostCenter": the cost center
\* of a live object takes the value its spec gives.
ValueConverges ==
    \A c \in Resources :
        <>[](api[c].phase = "live" /\ ~Abandoned(c) /\ api[c].ext # NoKey
             => store[api[c].ext] = DesiredValue(api[c].spec))

\* The deletion policy is "either Delete or Orphan the external resource":
\* with Delete nothing an object's Create made outlives the object.
NoOrphan == \A c \in Resources : api[c].phase = "absent" => made[c] = {}

=============================================================================
