\* Is a config kept while a CostCenter uses it?
SPECIFICATION Spec
CONSTANTS
    clusterwide = clusterwide
    inNamespace = inNamespace
    costcenter = costcenter
    ns = ns
    Managed = {clusterwide}
    Flavour <- AllCostCenters
    Namespace <- Scopes
    Configs <- ClusterConfigs
    Refs <- ClusterRefs
    Credentials <- AllComplete
    NoNamespace = NoNamespace
    NoConfig = NoConfig
    MaxFaults = 0
    MaxEdits = 4
\* without objects there is nothing to reconcile
CHECK_DEADLOCK FALSE
PROPERTY
    InUseStays
