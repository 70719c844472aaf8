------------------------------ MODULE Registry ------------------------------
(***************************************************************************)
(* The controllers of the provider: what each package below                *)
(* internal/controller hands to the CRD gate (SetupGated) and to the       *)
(* manager (Setup). A set-up is a record:                                  *)
(*   gates:       the kinds it waits for behind the gate;                  *)
(*   controllers: the controllers it builds, in order, each with the name  *)
(*                it registers and the kinds it watches;                   *)
(* and where it is generated                                               *)
(*   resource:    the Terraform resource it drives;                        *)
(*   initialized: does it run the resource's initializers?                 *)
(* Both are written by hand or by a template, apart from each other.       *)
(***************************************************************************)
EXTENDS Sequences

\* The scope stands for the API group's suffix, which tells apart the
\* kinds of cluster scope from the namespaced ones.
Kind(scope, group, kind) == [scope |-> scope, group |-> group, kind |-> kind]

\* The template's: one controller, named after the kind with its group, that
\* drives a Terraform resource, with its initializers or without.
Generated(k, resource, initialized) ==
    [gates |-> {k},
     controllers |-> <<[name |-> <<"managed", k>>, watches |-> {k}]>>,
     resource |-> resource, initialized |-> initialized]

ClusterGroup == Generated(Kind("cluster", "iam", "Group"), "dynatrace_iam_group", TRUE)
ClusterPermission == Generated(Kind("cluster", "iam", "Permission"), "dynatrace_iam_permission", FALSE)
ClusterPolicy == Generated(Kind("cluster", "iam", "Policy"), "dynatrace_iam_policy", FALSE)
ClusterPolicyBindings == Generated(Kind("cluster", "iam", "PolicyBindings"), "dynatrace_iam_policy_bindings", FALSE)
ClusterPolicyBindingsV2 == Generated(Kind("cluster", "iam", "PolicyBindingsV2"), "dynatrace_iam_policy_bindings_v2", FALSE)
ClusterPolicyBoundary == Generated(Kind("cluster", "iam", "PolicyBoundary"), "dynatrace_iam_policy_boundary", TRUE)
ClusterServiceUser == Generated(Kind("cluster", "iam", "ServiceUser"), "dynatrace_iam_service_user", FALSE)
ClusterUser == Generated(Kind("cluster", "iam", "User"), "dynatrace_iam_user", FALSE)
ClusterPermissionMgmz == Generated(Kind("cluster", "mgmz", "Permission"), "dynatrace_mgmz_permission", FALSE)
ClusterBindings == Generated(Kind("cluster", "policy", "Bindings"), "dynatrace_policy_bindings", FALSE)
ClusterPolicyPolicy == Generated(Kind("cluster", "policy", "Policy"), "dynatrace_policy", FALSE)
ClusterGroupUser == Generated(Kind("cluster", "user", "Group"), "dynatrace_user_group", FALSE)
ClusterUserUser == Generated(Kind("cluster", "user", "User"), "dynatrace_user", FALSE)

ClusterCostCenter ==
    LET k == Kind("cluster", "iam", "CostCenter") IN
    [gates |-> {k},
     controllers |-> <<[name |-> <<"managed", k>>, watches |-> {k}]>>]

ClusterConfig == Kind("cluster", "", "ProviderConfig")
ClusterUsage == Kind("cluster", "", "ProviderConfigUsage")

ClusterProviderConfig ==
    [gates |-> {ClusterConfig, ClusterUsage},
     controllers |-> <<[name |-> <<"providerconfig", ClusterConfig>>,
                        watches |-> {ClusterConfig, ClusterUsage}]>>]

NamespacedGroup == Generated(Kind("namespaced", "iam", "Group"), "dynatrace_iam_group", TRUE)
NamespacedPermission == Generated(Kind("namespaced", "iam", "Permission"), "dynatrace_iam_permission", FALSE)
NamespacedPolicy == Generated(Kind("namespaced", "iam", "Policy"), "dynatrace_iam_policy", FALSE)
NamespacedPolicyBindings == Generated(Kind("namespaced", "iam", "PolicyBindings"), "dynatrace_iam_policy_bindings", FALSE)
NamespacedPolicyBindingsV2 == Generated(Kind("namespaced", "iam", "PolicyBindingsV2"), "dynatrace_iam_policy_bindings_v2", FALSE)
NamespacedPolicyBoundary == Generated(Kind("namespaced", "iam", "PolicyBoundary"), "dynatrace_iam_policy_boundary", TRUE)
NamespacedServiceUser == Generated(Kind("namespaced", "iam", "ServiceUser"), "dynatrace_iam_service_user", FALSE)
NamespacedUser == Generated(Kind("namespaced", "iam", "User"), "dynatrace_iam_user", FALSE)
NamespacedPermissionMgmz == Generated(Kind("namespaced", "mgmz", "Permission"), "dynatrace_mgmz_permission", FALSE)
NamespacedBindings == Generated(Kind("namespaced", "policy", "Bindings"), "dynatrace_policy_bindings", FALSE)
NamespacedPolicyPolicy == Generated(Kind("namespaced", "policy", "Policy"), "dynatrace_policy", FALSE)
NamespacedGroupUser == Generated(Kind("namespaced", "user", "Group"), "dynatrace_user_group", FALSE)
NamespacedUserUser == Generated(Kind("namespaced", "user", "User"), "dynatrace_user", FALSE)

NamespacedCostCenter ==
    LET k == Kind("namespaced", "iam", "CostCenter") IN
    [gates |-> {k},
     controllers |-> <<[name |-> <<"managed", k>>, watches |-> {k}]>>]

SharedConfig == Kind("namespaced", "", "ClusterProviderConfig")
NamespacedConfig == Kind("namespaced", "", "ProviderConfig")
NamespacedUsage == Kind("namespaced", "", "ProviderConfigUsage")

\* setupCluster and setupNamespaced.
SharedConfigController ==
    [name |-> <<"providerconfig", SharedConfig>>, watches |-> {SharedConfig, NamespacedUsage}]
NamespacedConfigController ==
    [name |-> <<"providerconfig", NamespacedConfig>>,
     watches |-> {NamespacedConfig, NamespacedUsage}]

NamespacedProviderConfig ==
    [gates |-> {SharedConfig, NamespacedConfig, NamespacedUsage},
     controllers |-> <<SharedConfigController, NamespacedConfigController>>]

-----------------------------------------------------------------------------
ClusterSetups ==
    <<ClusterGroup, ClusterPermission, ClusterPolicy, ClusterPolicyBindings,
      ClusterPolicyBindingsV2, ClusterPolicyBoundary, ClusterServiceUser,
      ClusterUser, ClusterPermissionMgmz, ClusterBindings, ClusterPolicyPolicy,
      ClusterProviderConfig, ClusterGroupUser, ClusterUserUser>>

NamespacedSetups ==
    <<NamespacedGroup, NamespacedPermission, NamespacedPolicy,
      NamespacedPolicyBindings, NamespacedPolicyBindingsV2,
      NamespacedPolicyBoundary, NamespacedServiceUser, NamespacedUser,
      NamespacedPermissionMgmz, NamespacedBindings, NamespacedPolicyPolicy,
      NamespacedProviderConfig, NamespacedGroupUser, NamespacedUserUser>>

\* In the order in which main sets them up.
AllSetups ==
    ClusterSetups \o NamespacedSetups \o <<ClusterCostCenter, NamespacedCostCenter>>

=============================================================================
