------------------------- MODULE MC_ProviderConfigs -------------------------
(***************************************************************************)
(* Instances of ProviderConfigs for TLC: a cluster-scoped resource with an *)
(* imported one and a CostCenter in one namespace, or some of them; the    *)
(* three kinds of config, all of the name "default", and a cluster-scoped  *)
(* config of another name.                                                 *)
(***************************************************************************)
EXTENDS ProviderConfigs

CONSTANTS clusterwide, inNamespace, costcenter, ns

InCluster == Config("cluster", "ProviderConfig", NoNamespace, "default")
Other == Config("cluster", "ProviderConfig", NoNamespace, "other")
InNamespace == Config("namespaced", "ProviderConfig", ns, "default")
Shared == Config("namespaced", "ClusterProviderConfig", NoNamespace, "default")

Ref(kind, name) == [kind |-> kind, name |-> name]

Scopes == [m \in Managed |-> IF m = clusterwide THEN NoNamespace ELSE ns]
ClusterImported == [m \in Managed |-> IF m = clusterwide THEN "imported" ELSE "terraformed"]
ImportedOrCostCenter == [m \in Managed |-> IF m = costcenter THEN "costcenter" ELSE "imported"]
AllCostCenters == [m \in Managed |-> "costcenter"]

ClusterConfigs == {InCluster, Other}
OneOfEachScope == {InCluster, Shared}
SomeOfEach == {InCluster, InNamespace, Shared}

ClusterRefs == {Ref("ProviderConfig", "default"), Ref("ProviderConfig", "other")}
BothKinds == {Ref("ProviderConfig", "default"), Ref("ClusterProviderConfig", "default")}
SharedRefs == {Ref("ClusterProviderConfig", "default")}

\* Credentials that both accept, that the initializer refuses (a file, the
\* environment, or a secret without ids), and that nobody can extract.
Complete == Readers
Elsewhere == {"setup"}
Unusable == {}

AllComplete == [k \in Configs |-> {Complete}]
AnyForCluster == [k \in Configs |-> IF k = InCluster THEN {Complete, Elsewhere, Unusable} ELSE {Complete}]
ElsewhereForCluster == [k \in Configs |-> {IF k = InCluster THEN Elsewhere ELSE Complete}]
=============================================================================
