------------------------ MODULE ProviderConfigsProofs ------------------------
(***************************************************************************)
(* What ProviderConfigs guarantees for any resources, configs and bounds:  *)
(* its types, and that a config in use stays, as long as every resource    *)
(* records its usage (the CostCenter controllers do not).                  *)
(***************************************************************************)
EXTENDS ProviderConfigs, TLAPS

\* What an update of one field of a resource or config keeps.
LEMMA ResourceUpdate ==
    ASSUME NEW f \in [Managed -> Resource], NEW m \in Managed
    PROVE  /\ [f EXCEPT ![m].phase = "deleting"] \in [Managed -> Resource]
           /\ \A n \in Managed :
                 [f EXCEPT ![m].phase = "deleting"][n].phase \in {f[n].phase, "deleting"}
<1>1. [f[m] EXCEPT !.phase = "deleting"] \in Resource
  BY DEF Resource, Phases
<1>2. \A n \in Managed :
         [f EXCEPT ![m].phase = "deleting"][n].phase \in {f[n].phase, "deleting"}
  BY DEF Resource
<1> QED
  BY <1>1, <1>2

\* What is recorded of a live resource leaves its phase alone.
LEMMA RecordUpdate ==
    ASSUME NEW f \in [Managed -> Resource], NEW m \in Managed, NEW named \in BOOLEAN
    PROVE  /\ [f EXCEPT ![m].fin = TRUE, ![m].named = named] \in [Managed -> Resource]
           /\ \A n \in Managed :
                 [f EXCEPT ![m].fin = TRUE, ![m].named = named][n].phase = f[n].phase
<1> DEFINE g == [f[m] EXCEPT !.fin = TRUE, !.named = named]
<1>1. g \in Resource /\ g.phase = f[m].phase
  BY DEF Resource
<1>2. [f EXCEPT ![m].fin = TRUE, ![m].named = named] = [f EXCEPT ![m] = g]
  OBVIOUS
<1> HIDE DEF g
<1> QED
  BY <1>1, <1>2

LEMMA NoResourceType == NoResource \in Resource /\ NoResource.phase = "absent"
  BY DEF NoResource, Resource, Phases

LEMMA ConfigUpdate ==
    ASSUME NEW f \in [Configs -> ConfigObject], NEW k \in Configs
    PROVE  /\ \A p \in Phases : [f EXCEPT ![k].phase = p] \in [Configs -> ConfigObject]
           /\ [f EXCEPT ![k].fin = TRUE] \in [Configs -> ConfigObject]
<1>1. \A p \in Phases : [f[k] EXCEPT !.phase = p] \in ConfigObject
  BY DEF ConfigObject
<1>2. [f[k] EXCEPT !.fin = TRUE] \in ConfigObject
  BY DEF ConfigObject
<1> QED
  BY <1>1, <1>2

\* Dropping a resource from the users keeps their type.
LEMMA HeldUpdate ==
    ASSUME NEW h \in [Configs -> SUBSET Managed], NEW m \in Managed
    PROVE  /\ [k \in Configs |-> h[k] \ {m}] \in [Configs -> SUBSET Managed]
           /\ \A c : [k \in Configs |-> IF k = c THEN h[k] ELSE h[k] \ {m}]
                        \in [Configs -> SUBSET Managed]
<1>1. \A k \in Configs : h[k] \ {m} \in SUBSET Managed
  OBVIOUS
<1> QED
  BY <1>1

\* A resource that goes, and one that binds, leave every variable its type.
LEMMA VanishType ==
    ASSUME TypeOK, NEW m \in Managed, Vanish(m)
    PROVE  /\ managed' \in [Managed -> Resource]
           /\ bound' \in [Managed -> Configs \cup {NoConfig}]
           /\ held' \in [Configs -> SUBSET Managed]
  BY NoResourceType, HeldUpdate DEF TypeOK, Vanish

LEMMA BindType ==
    ASSUME TypeOK, NEW m \in Managed, Bind(m)
    PROVE  /\ bound' \in [Managed -> Configs \cup {NoConfig}]
           /\ held' \in [Configs -> SUBSET Managed]
<1>1. CASE managed[m].phase = "absent"
  BY <1>1 DEF TypeOK, Bind
<1>2. CASE managed[m].phase # "absent"
  BY <1>2, HeldUpdate DEF TypeOK, Bind
<1> QED
  BY <1>1, <1>2

LEMMA ExtractType ==
    ASSUME TypeOK, NEW m \in Managed, Extract(m)
    PROVE  /\ step' \in [Managed -> {"idle", "resolved", "connected"}]
           /\ got' \in [Managed -> Configs \cup {NoConfig}]
  BY DEF TypeOK, Extract

\* Every reachable state has its types.
THEOREM TypeCorrect == Spec => []TypeOK
<1>1. Init => TypeOK
  <2> SUFFICES ASSUME Init PROVE TypeOK
    OBVIOUS
  <2>1. config \in [Configs -> ConfigObject]
    <3>1. \A p \in {"absent", "live"} : [phase |-> p, fin |-> FALSE] \in ConfigObject
      BY DEF ConfigObject, Phases
    <3> QED
      BY <3>1 DEF Init
  <2>2. faults \in 0..MaxFaults /\ edits \in 0..MaxEdits
    BY ProviderConfigsAssumption DEF Init
  <2>3. managed \in [Managed -> Resource]
    BY NoResourceType DEF Init
  <2> QED
    BY <2>1, <2>2, <2>3 DEF Init, TypeOK
<1>2. TypeOK /\ [Next]_vars => TypeOK'
  <2> SUFFICES ASSUME TypeOK, [Next]_vars PROVE TypeOK'
    OBVIOUS
  <2> USE DEF configs, resources
  <2>1. ASSUME NEW m \in Managed, Resolve(m) PROVE TypeOK'
    BY <2>1 DEF Resolve, Exists, TypeOK
  <2>2. ASSUME NEW m \in Managed, Track(m) PROVE TypeOK'
    <3>1. usage' \in [Managed -> Configs \cup {NoConfig}]
      BY <2>2 DEF Track, TypeOK
    <3>2. Bind(m) /\ Extract(m) /\ UNCHANGED <<config, credentials, unused, managed, faults, edits>>
      BY <2>2 DEF Track
    <3> QED
      BY <3>1, <3>2, BindType, ExtractType DEF TypeOK
  <2>3. ASSUME NEW m \in Managed, Manage(m) PROVE TypeOK'
    <3>1. CASE managed[m].phase = "live"
      <4>1. PICK named \in {managed[m].named, Flavour[m] = "imported"} :
               managed' = [managed EXCEPT ![m].fin = TRUE, ![m].named = named]
        BY <2>3, <3>1 DEF Manage
      <4>2. named \in BOOLEAN
        BY DEF TypeOK, Resource
      <4>3. managed' \in [Managed -> Resource]
        BY <4>1, <4>2, RecordUpdate DEF TypeOK
      <4>4. /\ step' = [step EXCEPT ![m] = "idle"]
            /\ got' = [got EXCEPT ![m] = NoConfig]
            /\ UNCHANGED <<config, credentials, unused, usage, faults, edits, bound, held>>
        BY <2>3, <3>1 DEF Manage
      <4> QED
        BY <4>3, <4>4 DEF TypeOK
    <3>2. CASE managed[m].phase # "live"
      BY <2>3, <3>2, VanishType DEF Manage, TypeOK
    <3> QED
      BY <3>1, <3>2
  <2>4. ASSUME NEW m \in Managed, Fault(m) PROVE TypeOK'
    BY <2>4, ProviderConfigsAssumption DEF Fault, TypeOK
  <2>5. ASSUME NEW m \in Managed, CollectUsage(m) PROVE TypeOK'
    BY <2>5 DEF CollectUsage, TypeOK
  <2>6. ASSUME NEW k \in Configs, ConfigController(k) PROVE TypeOK'
    <3>1. CASE Protect(k)
      BY <3>1, ConfigUpdate DEF Protect, TypeOK
    <3>2. CASE FindUnused(k)
      BY <3>2 DEF FindUnused, TypeOK
    <3>3. CASE Release(k)
      <4>1. [phase |-> "absent", fin |-> FALSE] \in ConfigObject
        BY DEF ConfigObject, Phases
      <4> QED
        BY <3>3, <4>1 DEF Release, TypeOK
    <3> QED
      BY <2>6, <3>1, <3>2, <3>3 DEF ConfigController
  <2>7. ASSUME Edit PROVE edits' \in 0..MaxEdits /\ faults' = faults
    BY <2>7, ProviderConfigsAssumption DEF Edit, TypeOK
  <2>8. ASSUME NEW k \in Configs, NEW given \in Credentials[k],
               CreateConfig(k, given) \/ EditCredentials(k, given)
        PROVE  TypeOK'
    <3>1. given \in SUBSET Readers
      BY ProviderConfigsAssumption
    <3>2. credentials' = [credentials EXCEPT ![k] = given] /\ edits' \in 0..MaxEdits /\ faults' = faults
      BY <2>8, <2>7 DEF CreateConfig, EditCredentials
    <3>3. config' \in [Configs -> ConfigObject]
      <4>1. [config EXCEPT ![k].phase = "live"] \in [Configs -> ConfigObject]
        BY ConfigUpdate DEF TypeOK, Phases
      <4>2. config' = [config EXCEPT ![k].phase = "live"] \/ config' = config
        BY <2>8 DEF CreateConfig, EditCredentials
      <4> QED
        BY <4>1, <4>2 DEF TypeOK
    <3>4. UNCHANGED <<unused, resources, bound, held>>
      BY <2>8 DEF CreateConfig, EditCredentials
    <3> QED
      BY <3>1, <3>2, <3>3, <3>4 DEF TypeOK
  <2>9. ASSUME NEW k \in Configs, DeleteConfig(k) PROVE TypeOK'
    <3>1. CASE config[k].fin
      <4>1. {m \in Managed : bound[m] = k} \in SUBSET Managed
        OBVIOUS
      <4>2. [config EXCEPT ![k].phase = "deleting"] \in [Configs -> ConfigObject]
        BY ConfigUpdate DEF TypeOK, Phases
      <4> QED
        BY <2>9, <2>7, <3>1, <4>1, <4>2 DEF DeleteConfig, TypeOK
    <3>2. CASE ~config[k].fin
      <4>1. [config EXCEPT ![k].phase = "absent"] \in [Configs -> ConfigObject]
        BY ConfigUpdate DEF TypeOK, Phases
      <4> QED
        BY <2>9, <2>7, <3>2, <4>1 DEF DeleteConfig, TypeOK
    <3> QED
      BY <3>1, <3>2
  <2>10. ASSUME NEW m \in Managed, NEW ref \in Refs, CreateManaged(m, ref) PROVE TypeOK'
    <3>1. [NoResource EXCEPT !.phase = "live", !.ref = ref] \in Resource
      BY DEF NoResource, Resource, Phases
    <3> QED
      BY <2>10, <2>7, <3>1 DEF CreateManaged, TypeOK
  <2>11. ASSUME NEW m \in Managed, NEW ref \in Refs, EditRef(m, ref) PROVE TypeOK'
    BY <2>11, <2>7 DEF EditRef, TypeOK, Resource
  <2>12. ASSUME NEW m \in Managed, DeleteManaged(m) PROVE TypeOK'
    <3>1. CASE managed[m].fin
      <4>1. /\ managed' = [managed EXCEPT ![m].phase = "deleting"]
            /\ UNCHANGED <<config, credentials, unused, usage, step, got, bound, held>>
        BY <2>12, <3>1 DEF DeleteManaged
      <4>2. managed' \in [Managed -> Resource]
        BY <4>1, ResourceUpdate DEF TypeOK
      <4>3. edits' \in 0..MaxEdits /\ faults' = faults
        BY <2>12, <2>7 DEF DeleteManaged
      <4> QED
        BY <4>1, <4>2, <4>3 DEF TypeOK
    <3>2. CASE ~managed[m].fin
      BY <2>12, <2>7, <3>2, VanishType DEF DeleteManaged, TypeOK
    <3> QED
      BY <3>1, <3>2
  <2>13. CASE UNCHANGED vars
    BY <2>13 DEF vars, TypeOK
  <2> QED
    BY <2>1, <2>2, <2>3, <2>4, <2>5, <2>6, <2>8, <2>9, <2>10, <2>11, <2>12, <2>13
       DEF Next, Reconcile, User
<1> QED
  BY <1>1, <1>2, PTL DEF Spec

-----------------------------------------------------------------------------
\* A resource that goes is no user of any config: what the others use is
\* accounted for as before.
LEMMA VanishAccounted ==
    ASSUME TypeOK, Accounted, NEW m \in Managed, Vanish(m), usage' = usage, UNCHANGED configs
    PROVE  Accounted'
<1> USE NoResourceType DEF configs, TypeOK, Accounted, Vanish
<1>1. \A n \in Managed : bound'[n] # NoConfig => usage'[n] = bound'[n] /\ managed'[n].phase # "absent"
  OBVIOUS
<1>2. \A k \in Configs, n \in Managed : n \in held'[k] => bound'[n] = k
  OBVIOUS
<1>3. \A k \in Configs : unused'[k] => config'[k].phase = "deleting" /\ held'[k] = {}
  OBVIOUS
<1> QED
  BY <1>1, <1>2, <1>3

\* Users are accounted for where every resource records its usage.
THEOREM UsersAreAccounted ==
    ASSUME \A m \in Managed : Flavour[m] # "costcenter"
    PROVE  Spec => []Accounted
<1>1. Init => Accounted
  BY DEF Init, Accounted
<1>2. TypeOK /\ Accounted /\ [Next]_vars => Accounted'
  <2> SUFFICES ASSUME TypeOK, Accounted, [Next]_vars PROVE Accounted'
    OBVIOUS
  <2> USE DEF configs, resources, Accounted
  <2>1. ASSUME NEW m \in Managed, Resolve(m) PROVE Accounted'
    BY <2>1 DEF Resolve
  <2>2. ASSUME NEW m \in Managed, Track(m) PROVE Accounted'
    <3>1. usage' = [usage EXCEPT ![m] = got[m]]
      BY <2>2 DEF Track
    <3>2. CASE managed[m].phase = "absent"
      BY <2>2, <3>1, <3>2 DEF Track, Bind, TypeOK
    <3>3. CASE managed[m].phase # "absent"
      <4>1. /\ bound' = [bound EXCEPT ![m] = got[m]]
            /\ held' = [k \in Configs |-> IF k = got[m] THEN held[k] ELSE held[k] \ {m}]
            /\ UNCHANGED <<configs, managed>>
        BY <2>2, <3>3 DEF Track, Bind
      <4>2. \A n \in Managed : bound'[n] # NoConfig =>
               usage'[n] = bound'[n] /\ managed'[n].phase # "absent"
        BY <3>1, <3>3, <4>1 DEF TypeOK
      <4>3. \A k \in Configs, n \in Managed : n \in held'[k] => bound'[n] = k
        BY <4>1 DEF TypeOK
      <4>4. \A k \in Configs : unused'[k] => config'[k].phase = "deleting" /\ held'[k] = {}
        BY <4>1 DEF TypeOK
      <4> QED
        BY <4>2, <4>3, <4>4
    <3> QED
      BY <3>2, <3>3
  <2>3. ASSUME NEW m \in Managed, Manage(m) PROVE Accounted'
    <3>1. CASE managed[m].phase = "live"
      <4>1. PICK named \in {managed[m].named, Flavour[m] = "imported"} :
               managed' = [managed EXCEPT ![m].fin = TRUE, ![m].named = named]
        BY <2>3, <3>1 DEF Manage
      <4>2. named \in BOOLEAN
        BY DEF TypeOK, Resource
      <4>3. \A n \in Managed : managed'[n].phase = managed[n].phase
        BY <4>1, <4>2, RecordUpdate DEF TypeOK
      <4>4. UNCHANGED <<config, unused, usage, bound, held>>
        BY <2>3, <3>1 DEF Manage
      <4> QED
        BY <4>3, <4>4
    <3>2. CASE managed[m].phase # "live"
      BY <2>3, <3>2, VanishAccounted DEF Manage
    <3> QED
      BY <3>1, <3>2
  <2>4. ASSUME NEW m \in Managed, Fault(m) PROVE Accounted'
    BY <2>4 DEF Fault
  <2>5. ASSUME NEW m \in Managed, CollectUsage(m) PROVE Accounted'
    BY <2>5 DEF CollectUsage, TypeOK
  <2>6. ASSUME NEW k \in Configs, Protect(k) PROVE Accounted'
    BY <2>6 DEF Protect, TypeOK
  <2>7. ASSUME NEW k \in Configs, FindUnused(k) PROVE Accounted'
    <3>1. k # NoConfig
      BY ProviderConfigsAssumption
    <3>2. held[k] = {}
      BY <2>7, <3>1 DEF FindUnused, TypeOK
    <3> QED
      BY <2>7, <3>2 DEF FindUnused, TypeOK
  <2>8. ASSUME NEW k \in Configs, Release(k) PROVE Accounted'
    BY <2>8 DEF Release, TypeOK
  <2>9. ASSUME NEW k \in Configs, NEW given \in Credentials[k],
               CreateConfig(k, given) \/ EditCredentials(k, given)
        PROVE  Accounted'
    BY <2>9 DEF CreateConfig, EditCredentials, TypeOK
  <2>10. ASSUME NEW k \in Configs, DeleteConfig(k) PROVE Accounted'
    <3>1. ~unused[k]
      BY <2>10 DEF DeleteConfig
    <3>2. CASE config[k].fin
      BY <2>10, <3>1, <3>2 DEF DeleteConfig, TypeOK
    <3>3. CASE ~config[k].fin
      BY <2>10, <3>1, <3>3 DEF DeleteConfig, TypeOK
    <3> QED
      BY <3>2, <3>3
  <2>11. ASSUME NEW m \in Managed, NEW ref \in Refs, CreateManaged(m, ref) PROVE Accounted'
    BY <2>11 DEF CreateManaged, TypeOK
  <2>12. ASSUME NEW m \in Managed, NEW ref \in Refs, EditRef(m, ref) PROVE Accounted'
    BY <2>12 DEF EditRef, TypeOK
  <2>13. ASSUME NEW m \in Managed, DeleteManaged(m) PROVE Accounted'
    <3>1. CASE managed[m].fin
      <4>1. /\ managed' = [managed EXCEPT ![m].phase = "deleting"]
            /\ UNCHANGED <<config, unused, usage, bound, held>>
        BY <2>13, <3>1 DEF DeleteManaged
      <4>2. \A n \in Managed : managed[n].phase # "absent" => managed'[n].phase # "absent"
        BY <4>1, ResourceUpdate DEF TypeOK
      <4> QED
        BY <4>1, <4>2
    <3>2. CASE ~managed[m].fin
      BY <2>13, <3>2, VanishAccounted DEF DeleteManaged
    <3> QED
      BY <3>1, <3>2
  <2>14. CASE UNCHANGED vars
    BY <2>14 DEF vars
  <2> QED
    BY <2>1, <2>2, <2>3, <2>4, <2>5, <2>6, <2>7, <2>8, <2>9, <2>10, <2>11, <2>12, <2>13, <2>14
       DEF Next, Reconcile, ConfigController, User
<1> QED
  BY <1>1, <1>2, TypeCorrect, PTL DEF Spec

\* A config that is being deleted is only released when no resource that used
\* it is left.
THEOREM UsedConfigsStay ==
    ASSUME \A m \in Managed : Flavour[m] # "costcenter"
    PROVE  Spec => InUseStays
<1> DEFINE Kept == \A k \in Configs :
                      config[k].phase = "deleting" /\ config'[k].phase = "absent"
                         => \A m \in held[k] : bound[m] # k
<1>1. TypeOK /\ Accounted /\ [Next]_vars => [Kept]_vars
  <2> SUFFICES ASSUME TypeOK, Accounted, Next,
                      NEW k \in Configs,
                      config[k].phase = "deleting", config'[k].phase = "absent"
               PROVE  held[k] = {}
    BY DEF Kept
  <2> USE DEF configs, resources
  <2>1. CASE \E m \in Managed : Reconcile(m) \/ Fault(m) \/ CollectUsage(m)
    BY <2>1 DEF Reconcile, Resolve, Track, Manage, Fault, CollectUsage
  <2>2. ASSUME NEW j \in Configs, Release(j) PROVE held[k] = {}
    BY <2>2 DEF Release, TypeOK, Accounted
  <2>3. ASSUME NEW j \in Configs, Protect(j) \/ FindUnused(j) PROVE held[k] = {}
    BY <2>3 DEF Protect, FindUnused, TypeOK
  <2>4. CASE User
    BY <2>4 DEF User, CreateConfig, EditCredentials, DeleteConfig, CreateManaged, EditRef, DeleteManaged, TypeOK
  <2> QED
    BY <2>1, <2>2, <2>3, <2>4 DEF Next, ConfigController
<1> QED
  BY <1>1, TypeCorrect, UsersAreAccounted, PTL DEF Spec, InUseStays

=============================================================================
