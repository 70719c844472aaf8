--------------------------- MODULE ProviderConfigs ---------------------------
(***************************************************************************)
(* How managed resources find the provider config that holds their         *)
(* credentials, and how the config stays while it is used:                 *)
(*                                                                         *)
(*   - internal/clients/dynatrace.go, for the Terraform-based resources:   *)
(*     resolve the reference, record the usage, build the client;          *)
(*   - config/initializer.go, which resolves it on its own for the groups  *)
(*     and policy boundaries it imports;                                   *)
(*   - Connect of the two CostCenter controllers, which do likewise;       *)
(*   - internal/controller/{cluster,namespaced}/providerconfig, which set  *)
(*     up crossplane-runtime's controller (external) that keeps a config   *)
(*     with a finalizer until no usage of it is left.                      *)
(***************************************************************************)
EXTENDS Naturals, FiniteSets

CONSTANTS
    Managed,     \* managed resources
    Flavour,     \* how each finds its config (see below)
    Namespace,   \* the namespace of each; NoNamespace when cluster-scoped
    Configs,     \* provider configs that may exist
    Refs,        \* references users may give: a kind and a name
    Credentials, \* what credentials each config may be given (see below)
    NoNamespace,
    NoConfig,
    MaxFaults,   \* bound on failed calls
    MaxEdits     \* bound on what users do

\* "terraformed": through clients.TerraformSetupBuilder only;
\* "imported": the import initializer looks the config up first;
\* "costcenter": the hand-written Connect.
Flavours == {"terraformed", "imported", "costcenter"}

\* Cluster-scoped resources belong to the API group whose only config kind is
\* a cluster-scoped ProviderConfig; namespaced ones to the group that has a
\* namespaced ProviderConfig and a ClusterProviderConfig.
Group(m) == IF Namespace[m] = NoNamespace THEN "cluster" ELSE "namespaced"

\* Credentials are told apart by who accepts them. The set-up of a client takes
\* whatever CommonCredentialExtractor makes a JSON object of; the import
\* initializer only those of source "Secret" that hold the account and
\* client ids.
Readers == {"setup", "initializer"}

Config(group, kind, ns, name) ==
    [group |-> group, kind |-> kind, ns |-> ns, name |-> name]

ASSUME ProviderConfigsAssumption ==
    /\ Flavour \in [Managed -> Flavours]
    /\ Managed = DOMAIN Namespace
    /\ NoConfig \notin Configs
    /\ Credentials \in [Configs -> SUBSET SUBSET Readers]
    /\ MaxFaults \in Nat
    /\ MaxEdits \in Nat

VARIABLES
    config,  \* each config: its phase and whether it has the finalizer
    credentials, \* who accepts the credentials each config stands for
    unused,  \* has the config controller just listed no usage of it?
    managed, \* each resource: its phase and reference, whether it has the
             \* finalizer, and whether its external name is recorded
    usage,   \* the config the ProviderConfigUsage of each resource names
    step,    \* the step the reconcile of each resource is at
    got,     \* the config that reconcile has read
    faults,  \* failed calls so far
    edits,   \* what users did so far
    \* history variables, read by no action:
    bound,   \* the config each resource last turned to for its client
    held     \* resources using a config since its deletion was requested

configs == <<config, credentials, unused>>
resources == <<managed, usage, step, got>>
vars == <<configs, resources, faults, edits, bound, held>>

Phases == {"absent", "live", "deleting"}
NoRef == [kind |-> "none", name |-> "none"]
ConfigObject == [phase : Phases, fin : BOOLEAN]
Resource == [phase : Phases, fin : BOOLEAN, named : BOOLEAN, ref : Refs \cup {NoRef}]
NoResource == [phase |-> "absent", fin |-> FALSE, named |-> FALSE, ref |-> NoRef]

Init ==
    /\ config \in [Configs -> {[phase |-> p, fin |-> FALSE] : p \in {"absent", "live"}}]
    /\ credentials \in [Configs -> SUBSET Readers]
    /\ \A k \in Configs : credentials[k] \in Credentials[k]
    /\ unused = [k \in Configs |-> FALSE]
    /\ managed = [m \in Managed |-> NoResource]
    /\ usage = [m \in Managed |-> NoConfig]
    /\ step = [m \in Managed |-> "idle"]
    /\ got = [m \in Managed |-> NoConfig]
    /\ faults = 0
    /\ edits = 0
    /\ bound = [m \in Managed |-> NoConfig]
    /\ held = [k \in Configs |-> {}]

-----------------------------------------------------------------------------
(***************************************************************************)
(* Resolution                                                              *)
(***************************************************************************)

\* resolveLegacy: a cluster-scoped resource names a ProviderConfig.
ResolveLegacy(ref) == Config("cluster", "ProviderConfig", NoNamespace, ref.name)

\* resolveModern: a namespaced resource names either kind; a ProviderConfig is
\* looked up in its own namespace.
ResolveModern(ref, ns) ==
    Config("namespaced", ref.kind,
           IF ref.kind = "ProviderConfig" THEN ns ELSE NoNamespace, ref.name)

\* resolveProviderConfig: what the reference of a resource stands for.
Referenced(m) ==
    IF Group(m) = "cluster" THEN ResolveLegacy(managed[m].ref)
    ELSE ResolveModern(managed[m].ref, Namespace[m])

\* Connect of the CostCenter controllers reads a ProviderConfig, whatever
\* kind a namespaced resource names.
ConnectReads(m) ==
    IF Group(m) = "cluster" THEN ResolveLegacy(managed[m].ref)
    ELSE Config("namespaced", "ProviderConfig", Namespace[m], managed[m].ref.name)

\* Mutant of InitializerReads: the API group of the other scope.
InitializerReadsOther(m) ==
    Config("namespaced", "ProviderConfig", NoNamespace, managed[m].ref.name)

\* getCredentials of the import initializer reads a ProviderConfig by name, in
\* no namespace.
InitializerReads(m) ==
    Config(Group(m), "ProviderConfig", NoNamespace, managed[m].ref.name)

Exists(k) == k \in Configs /\ config[k].phase # "absent"

Accepts(reader, k) == reader \in credentials[k]

\* The initializer has nothing to look for once there is an external name;
\* until then it needs a config, and credentials it accepts.
Initialized(m) ==
    Flavour[m] = "imported" /\ ~managed[m].named =>
        Exists(InitializerReads(m)) /\ Accepts("initializer", InitializerReads(m))

\* Mutant of Reads: the kind in the reference does not count.
ReadsProviderConfig(m) == ConnectReads(m)

\* The config a reconcile looks up.
Reads(m) == IF Flavour[m] = "costcenter" THEN ConnectReads(m) ELSE Referenced(m)

-----------------------------------------------------------------------------
(***************************************************************************)
(* The reconcile of a managed resource                                     *)
(***************************************************************************)

\* A resource goes, and uses no config any more.
Vanish(m) ==
    /\ managed' = [managed EXCEPT ![m] = NoResource]
    /\ bound' = [bound EXCEPT ![m] = NoConfig]
    /\ held' = [k \in Configs |-> held[k] \ {m}]

\* Mutant of Resolve: a config that is being deleted is refused.
ResolveLive(m) ==
    /\ step[m] = "idle"
    /\ managed[m].phase # "absent"
    /\ Initialized(m)
    /\ Exists(Reads(m)) /\ config[Reads(m)].phase = "live"
    /\ got' = [got EXCEPT ![m] = Reads(m)]
    /\ step' = [step EXCEPT ![m] = "resolved"]
    /\ UNCHANGED <<configs, managed, usage, faults, edits, bound, held>>

\* The config is read; one that is being deleted serves as well.
Resolve(m) ==
    /\ step[m] = "idle"
    /\ managed[m].phase # "absent"
    /\ Initialized(m)
    /\ Exists(Reads(m))
    /\ got' = [got EXCEPT ![m] = Reads(m)]
    /\ step' = [step EXCEPT ![m] = "resolved"]
    /\ UNCHANGED <<configs, managed, usage, faults, edits, bound, held>>

\* From now on a resource that is still there uses what was read, and no
\* other config.
Bind(m) ==
    IF managed[m].phase = "absent" THEN UNCHANGED <<bound, held>>
    ELSE /\ bound' = [bound EXCEPT ![m] = got[m]]
         /\ held' = [k \in Configs |-> IF k = got[m] THEN held[k] ELSE held[k] \ {m}]

\* The credentials are extracted and the client is built, or the reconcile
\* ends.
Extract(m) ==
    IF Accepts("setup", got[m])
    THEN /\ step' = [step EXCEPT ![m] = "connected"]
         /\ UNCHANGED got
    ELSE /\ step' = [step EXCEPT ![m] = "idle"]
         /\ got' = [got EXCEPT ![m] = NoConfig]

\* Mutant of Track: no usage is recorded.
TrackNothing(m) ==
    /\ step[m] = "resolved"
    /\ Bind(m)
    /\ Extract(m)
    /\ UNCHANGED <<configs, managed, usage, faults, edits>>

\* Mutant of Track: a usage recorded before is not brought up to date.
TrackOnce(m) ==
    /\ step[m] = "resolved"
    /\ usage' = IF usage[m] = NoConfig THEN [usage EXCEPT ![m] = got[m]] ELSE usage
    /\ Bind(m)
    /\ Extract(m)
    /\ UNCHANGED <<configs, managed, faults, edits>>

\* Mutant of Track: the usage names what the reference says by now.
TrackNamed(m) ==
    /\ step[m] = "resolved"
    /\ usage' = [usage EXCEPT ![m] = Referenced(m)]
    /\ Bind(m)
    /\ Extract(m)
    /\ UNCHANGED <<configs, managed, faults, edits>>

\* The usage is recorded, or brought up to date, before the credentials are
\* extracted; Connect of a CostCenter records none.
Track(m) ==
    /\ step[m] = "resolved"
    /\ usage' = IF Flavour[m] = "costcenter" THEN usage
                ELSE [usage EXCEPT ![m] = got[m]]
    /\ Bind(m)
    /\ Extract(m)
    /\ UNCHANGED <<configs, managed, faults, edits>>

\* The rest of the reconcile (external): a live resource has its finalizer
\* from here on, and its external name too if the lookup found one or a
\* creation gave one (see Import); one being deleted is let go, and one
\* deleted meanwhile cannot be updated.
Manage(m) ==
    /\ step[m] = "connected"
    /\ IF managed[m].phase = "live"
       THEN /\ \E named \in {managed[m].named, Flavour[m] = "imported"} :
                  managed' = [managed EXCEPT ![m].fin = TRUE, ![m].named = named]
            /\ UNCHANGED <<bound, held>>
       ELSE Vanish(m)
    /\ step' = [step EXCEPT ![m] = "idle"]
    /\ got' = [got EXCEPT ![m] = NoConfig]
    /\ UNCHANGED <<configs, usage, faults, edits>>

\* A call fails, or the provider restarts, and the reconcile ends.
Fault(m) ==
    /\ step[m] # "idle"
    /\ faults < MaxFaults
    /\ faults' = faults + 1
    /\ step' = [step EXCEPT ![m] = "idle"]
    /\ got' = [got EXCEPT ![m] = NoConfig]
    /\ UNCHANGED <<configs, managed, usage, edits, bound, held>>

\* Kubernetes (external) collects the usage of a resource that is gone: the
\* resource owns it.
CollectUsage(m) ==
    /\ managed[m].phase = "absent"
    /\ usage[m] # NoConfig
    /\ usage' = [usage EXCEPT ![m] = NoConfig]
    /\ UNCHANGED <<configs, managed, step, got, faults, edits, bound, held>>

-----------------------------------------------------------------------------
(***************************************************************************)
(* The provider config controller (external)                               *)
(***************************************************************************)

\* A config gets the finalizer.
Protect(k) ==
    /\ config[k].phase = "live"
    /\ ~config[k].fin
    /\ config' = [config EXCEPT ![k].fin = TRUE]
    /\ UNCHANGED <<credentials, unused, resources, faults, edits, bound, held>>

\* The usages of a config being deleted are listed, as the API server has them;
\* while there are any, the controller leaves the finalizer and looks again
\* when one goes.
FindUnused(k) ==
    /\ config[k].phase = "deleting"
    /\ ~unused[k]
    /\ \A m \in Managed : usage[m] # k
    /\ unused' = [unused EXCEPT ![k] = TRUE]
    /\ UNCHANGED <<config, credentials, resources, faults, edits, bound, held>>

\* Without usages it removes the finalizer, and the config is gone.
Release(k) ==
    /\ unused[k]
    /\ config' = [config EXCEPT ![k] = [phase |-> "absent", fin |-> FALSE]]
    /\ unused' = [unused EXCEPT ![k] = FALSE]
    /\ held' = [held EXCEPT ![k] = {}]
    /\ UNCHANGED <<credentials, resources, faults, edits, bound>>

-----------------------------------------------------------------------------
(***************************************************************************)
(* Users                                                                   *)
(***************************************************************************)

Edit ==
    /\ edits < MaxEdits
    /\ edits' = edits + 1
    /\ UNCHANGED faults

CreateConfig(k, given) ==
    /\ Edit
    /\ config[k].phase = "absent"
    /\ config' = [config EXCEPT ![k].phase = "live"]
    /\ credentials' = [credentials EXCEPT ![k] = given]
    /\ UNCHANGED <<unused, resources, bound, held>>

\* The source a config names is changed, or the secret it refers to.
EditCredentials(k, given) ==
    /\ Edit
    /\ config[k].phase # "absent"
    /\ credentials[k] # given
    /\ credentials' = [credentials EXCEPT ![k] = given]
    /\ UNCHANGED <<config, unused, resources, bound, held>>

\* A config without the finalizer goes at once.
DeleteConfig(k) ==
    /\ Edit
    /\ config[k].phase = "live"
    /\ IF config[k].fin
       THEN /\ config' = [config EXCEPT ![k].phase = "deleting"]
            /\ held' = [held EXCEPT ![k] = {m \in Managed : bound[m] = k}]
       ELSE /\ config' = [config EXCEPT ![k].phase = "absent"]
            /\ UNCHANGED held
    /\ UNCHANGED <<credentials, unused, resources, bound>>

\* A name is taken again once nothing is left of its last bearer.
CreateManaged(m, ref) ==
    /\ Edit
    /\ managed[m].phase = "absent"
    /\ usage[m] = NoConfig
    /\ step[m] = "idle"
    /\ managed' = [managed EXCEPT ![m] = [NoResource EXCEPT !.phase = "live", !.ref = ref]]
    /\ UNCHANGED <<configs, usage, step, got, bound, held>>

EditRef(m, ref) ==
    /\ Edit
    /\ managed[m].phase # "absent"
    /\ managed[m].ref # ref
    /\ managed' = [managed EXCEPT ![m].ref = ref]
    /\ UNCHANGED <<configs, usage, step, got, bound, held>>

\* A resource without the finalizer goes at once, a reconcile of it goes on.
DeleteManaged(m) ==
    /\ Edit
    /\ managed[m].phase = "live"
    /\ IF managed[m].fin
       THEN /\ managed' = [managed EXCEPT ![m].phase = "deleting"]
            /\ UNCHANGED <<bound, held>>
       ELSE Vanish(m)
    /\ UNCHANGED <<configs, usage, step, got>>

-----------------------------------------------------------------------------
Reconcile(m) == Resolve(m) \/ Track(m) \/ Manage(m)

ConfigController(k) == Protect(k) \/ FindUnused(k) \/ Release(k)

User ==
    \/ \E k \in Configs :
          \/ \E given \in Credentials[k] : CreateConfig(k, given) \/ EditCredentials(k, given)
          \/ DeleteConfig(k)
    \/ \E m \in Managed :
          \/ \E ref \in Refs : CreateManaged(m, ref) \/ EditRef(m, ref)
          \/ DeleteManaged(m)

Next ==
    \/ \E m \in Managed : Reconcile(m) \/ Fault(m) \/ CollectUsage(m)
    \/ \E k \in Configs : ConfigController(k)
    \/ User

Spec == Init /\ [][Next]_vars

\* Work queues retry and poll; the garbage collector is a controller too.
Fairness ==
    /\ \A m \in Managed : WF_vars(Reconcile(m)) /\ WF_vars(CollectUsage(m))
    /\ \A k \in Configs : WF_vars(ConfigController(k))

FairSpec == Spec /\ Fairness

-----------------------------------------------------------------------------
(***************************************************************************)
(* Properties                                                              *)
(***************************************************************************)

\* Every variable has its type.
TypeOK ==
    /\ config \in [Configs -> ConfigObject]
    /\ credentials \in [Configs -> SUBSET Readers]
    /\ unused \in [Configs -> BOOLEAN]
    /\ managed \in [Managed -> Resource]
    /\ usage \in [Managed -> Configs \cup {NoConfig}]
    /\ step \in [Managed -> {"idle", "resolved", "connected"}]
    /\ got \in [Managed -> Configs \cup {NoConfig}]
    /\ faults \in 0..MaxFaults
    /\ edits \in 0..MaxEdits
    /\ bound \in [Managed -> Configs \cup {NoConfig}]
    /\ held \in [Configs -> SUBSET Managed]

\* A config that is being deleted stays as long as a resource that used it
\* when its deletion was requested has used nothing else since: the users are
\* counted before, while and after resources come, go, fail and change their
\* references.
InUseStays ==
    [][\A k \in Configs :
          config[k].phase = "deleting" /\ config'[k].phase = "absent"
             => \A m \in held[k] : bound[m] # k]_vars

\* What keeps a used config: a resource uses only what its usage names, the
\* users counted at the request for a deletion are still users, and a config
\* the controller found unused is being deleted and has none of them left.
Accounted ==
    /\ \A m \in Managed : bound[m] # NoConfig =>
          usage[m] = bound[m] /\ managed[m].phase # "absent"
    /\ \A k \in Configs, m \in Managed : m \in held[k] => bound[m] = k
    /\ \A k \in Configs : unused[k] => config[k].phase = "deleting" /\ held[k] = {}

\* The config a resource names can be read by all who have to read it: it is
\* there, and the initializer, as long as it has a name to look for, accepts
\* its credentials. The set-up accepts more than the initializer does.
Resolvable(m) ==
    /\ Exists(Referenced(m))
    /\ Flavour[m] = "imported" /\ ~managed[m].named =>
          Accepts("initializer", Referenced(m))

Servable(m) == Resolvable(m) /\ Accepts("setup", Referenced(m))

Connected(m) == step[m] = "connected" /\ got[m] = Referenced(m)

\* A live resource whose config can be read by all who have to is connected
\* with that config again and again.
EveryReferenceServes ==
    \A m \in Managed : []<>(managed[m].phase = "live" /\ Servable(m) => Connected(m))

\* What is left of it where the set-up alone has to accept the credentials,
\* and where it may fail for some: it holds for one resource.
SomeReferenceServes ==
    \E m \in Managed :
        []<>(managed[m].phase = "live" /\ Exists(Referenced(m)) /\ Accepts("setup", Referenced(m))
                => Connected(m))

\* In the end a config being deleted is gone, or has a user that is not and
\* that could not be moved to another: its reference still stands for this
\* config, or for none that can be resolved. Pointing all resources elsewhere
\* is enough to get rid of a config.
ConfigDeletionCompletes ==
    \A k \in Configs :
        <>[](config[k].phase = "deleting" =>
                \E m \in Managed :
                    /\ usage[m] = k
                    /\ managed[m].phase # "absent"
                    /\ Referenced(m) = k \/ ~Resolvable(m))

\* In the end a resource being deleted is gone, unless its reference stands
\* for no config that can serve it any more.
ManagedDeletionCompletes ==
    \A m \in Managed :
        <>[](managed[m].phase = "deleting" => ~Servable(m))

=============================================================================
