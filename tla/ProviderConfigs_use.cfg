\* An imported cluster-scoped and a namespaced resource, every kind of config;
\* the cluster-scoped one with any credentials.
SPECIFICATION FairSpec
CONSTANTS
    clusterwide = clusterwide
    inNamespace = inNamespace
    costcenter = costcenter
    ns = ns
    Managed = {clusterwide, inNamespace}
    Flavour <- ClusterImported
    Namespace <- Scopes
    Configs <- SomeOfEach
    Refs <- BothKinds
    Credentials <- AnyForCluster
    NoNamespace = NoNamespace
    NoConfig = NoConfig
    MaxFaults = 1
    MaxEdits = 4
\* without objects there is nothing to reconcile
CHECK_DEADLOCK FALSE
INVARIANTS
    TypeOK
    Accounted
PROPERTIES
    InUseStays
    EveryReferenceServes
    ConfigDeletionCompletes
    ManagedDeletionCompletes
