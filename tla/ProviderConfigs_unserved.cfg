\* A CostCenter and an imported resource in a namespace, that name a
\* ClusterProviderConfig, and an imported cluster-scoped resource whose config
\* has its credentials in the environment: is any of them served?
SPECIFICATION FairSpec
CONSTANTS
    clusterwide = clusterwide
    inNamespace = inNamespace
    costcenter = costcenter
    ns = ns
    Managed = {clusterwide, inNamespace, costcenter}
    Flavour <- ImportedOrCostCenter
    Namespace <- Scopes
    Configs <- OneOfEachScope
    Refs <- SharedRefs
    Credentials <- ElsewhereForCluster
    NoNamespace = NoNamespace
    NoConfig = NoConfig
    MaxFaults = 0
    MaxEdits = 4
\* without objects there is nothing to reconcile
CHECK_DEADLOCK FALSE
PROPERTY
    SomeReferenceServes
