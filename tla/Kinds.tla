-------------------------------- MODULE Kinds --------------------------------
(***************************************************************************)
(* The Terraform-based kinds of the provider: their API types              *)
(* (apis/*/*/v1alpha1/zz_*_types.go), the Terraform resources they stand   *)
(* for (zz_*_terraformed.go), and the configuration that both are          *)
(* generated from (config).                                                *)
(***************************************************************************)
EXTENDS Registry, FiniteSets, TLC

-----------------------------------------------------------------------------
(***************************************************************************)
(* zz_*_types.go: the fields of spec.forProvider by their Terraform names  *)
(* and sorts, what status.atProvider has besides them, those the           *)
(* validation rules require of spec.forProvider or spec.initProvider, and  *)
(* those that a reference may stand for, with its kind. spec.initProvider  *)
(* has the same fields as spec.forProvider in every kind.                  *)
(***************************************************************************)
NoReferences == <<>>

Type(kind, fields, observed, required, references) ==
    [kind |-> kind, fields |-> fields, observed |-> observed, required |-> required,
     references |-> references]

\* The namespaced types are generated from the same schemas.
InNamespace(type) == [type EXCEPT !.kind.scope = "namespaced"]

ClusterGroupType ==
    Type(Kind("cluster", "iam", "Group"),
        [description |-> "text", federated_attribute_values |-> "list",
         name |-> "text", permissions |-> "blocks"],
        {"id"}, {"name"}, NoReferences)
ClusterPermissionType ==
    Type(Kind("cluster", "iam", "Permission"),
        [account |-> "text", environment |-> "text", group |-> "text",
         management_zone |-> "text", name |-> "text"],
        {"id"}, {"group", "name"}, NoReferences)
ClusterPolicyType ==
    Type(Kind("cluster", "iam", "Policy"),
        [account |-> "text", description |-> "text",
         environment |-> "text", name |-> "text",
         statement_query |-> "text", tags |-> "list"],
        {"id", "uuid"}, {"name", "statement_query"}, NoReferences)
ClusterPolicyBindingsType ==
    Type(Kind("cluster", "iam", "PolicyBindings"),
        [account |-> "text", environment |-> "text", group |-> "text",
         policies |-> "list"],
        {"id"}, {"group", "policies"}, NoReferences)
ClusterPolicyBindingsV2Type ==
    Type(Kind("cluster", "iam", "PolicyBindingsV2"),
        [account |-> "text", environment |-> "text", group |-> "text",
         policy |-> "blocks"],
        {"id"}, {},
        [group |-> "Group", policy_boundaries |-> "PolicyBoundary", policy_id |-> "Policy"])
ClusterPolicyBoundaryType ==
    Type(Kind("cluster", "iam", "PolicyBoundary"),
        [name |-> "text", query |-> "text"],
        {"id"}, {"name", "query"}, NoReferences)
ClusterServiceUserType ==
    Type(Kind("cluster", "iam", "ServiceUser"),
        [description |-> "text", groups |-> "list", name |-> "text"],
        {"id", "email"}, {"name"}, NoReferences)
ClusterUserType ==
    Type(Kind("cluster", "iam", "User"),
        [email |-> "text", groups |-> "list"],
        {"id", "uid"}, {"email"}, NoReferences)
ClusterPermissionMgmzType ==
    Type(Kind("cluster", "mgmz", "Permission"),
        [environment |-> "text", group |-> "text",
         management_zone |-> "text", permissions |-> "list"],
        {"id"}, {"environment", "group", "management_zone", "permissions"}, NoReferences)
ClusterBindingsType ==
    Type(Kind("cluster", "policy", "Bindings"),
        [cluster |-> "text", environment |-> "text", group |-> "text",
         policies |-> "list"],
        {"id"}, {"group", "policies"}, NoReferences)
ClusterPolicyPolicyType ==
    Type(Kind("cluster", "policy", "Policy"),
        [cluster |-> "text", description |-> "text",
         environment |-> "text", name |-> "text",
         statement_query |-> "text", tags |-> "list"],
        {"id"}, {"name", "statement_query"}, NoReferences)
ClusterGroupUserType ==
    Type(Kind("cluster", "user", "Group"),
        [access_account |-> "flag", cluster_admin |-> "flag",
         ldap_groups |-> "list", manage_account |-> "flag",
         name |-> "text", permissions |-> "blocks", sso_groups |-> "list"],
        {"id"}, {"name"}, NoReferences)
ClusterUserUserType ==
    Type(Kind("cluster", "user", "User"),
        [email |-> "text", first_name |-> "text", groups |-> "list",
         last_name |-> "text", user_name |-> "text"],
        {"id"}, {"email", "first_name", "last_name", "user_name"}, NoReferences)
NamespacedGroupType == InNamespace(ClusterGroupType)
NamespacedPermissionType == InNamespace(ClusterPermissionType)
NamespacedPolicyType == InNamespace(ClusterPolicyType)
NamespacedPolicyBindingsType == InNamespace(ClusterPolicyBindingsType)
NamespacedPolicyBindingsV2Type == InNamespace(ClusterPolicyBindingsV2Type)
NamespacedPolicyBoundaryType == InNamespace(ClusterPolicyBoundaryType)
NamespacedServiceUserType == InNamespace(ClusterServiceUserType)
NamespacedUserType == InNamespace(ClusterUserType)
NamespacedPermissionMgmzType == InNamespace(ClusterPermissionMgmzType)
NamespacedBindingsType == InNamespace(ClusterBindingsType)
NamespacedPolicyPolicyType == InNamespace(ClusterPolicyPolicyType)
NamespacedGroupUserType == InNamespace(ClusterGroupUserType)
NamespacedUserUserType == InNamespace(ClusterUserUserType)

-----------------------------------------------------------------------------
(***************************************************************************)
(* zz_*_terraformed.go: what the methods of a kind answer: the Terraform   *)
(* resource it stands for, the parameters of GetParameters and             *)
(* SetParameters, what SetObservation takes, what GetID reads of it, no    *)
(* connection details, version 0 of the schema. GetMergedParameters and    *)
(* LateInitialize are the same in every kind: see Parameters.              *)
(***************************************************************************)
Terraformed(type, resource) ==
    [type |-> type, resource |-> resource,
     parameters |-> DOMAIN type.fields,
     observation |-> DOMAIN type.fields \cup type.observed,
     id |-> "id", connectionDetails |-> {}, schemaVersion |-> 0]

ClusterGroupTerraformed == Terraformed(ClusterGroupType, "dynatrace_iam_group")
ClusterPermissionTerraformed == Terraformed(ClusterPermissionType, "dynatrace_iam_permission")
ClusterPolicyTerraformed == Terraformed(ClusterPolicyType, "dynatrace_iam_policy")
ClusterPolicyBindingsTerraformed == Terraformed(ClusterPolicyBindingsType, "dynatrace_iam_policy_bindings")
ClusterPolicyBindingsV2Terraformed == Terraformed(ClusterPolicyBindingsV2Type, "dynatrace_iam_policy_bindings_v2")
ClusterPolicyBoundaryTerraformed == Terraformed(ClusterPolicyBoundaryType, "dynatrace_iam_policy_boundary")
ClusterServiceUserTerraformed == Terraformed(ClusterServiceUserType, "dynatrace_iam_service_user")
ClusterUserTerraformed == Terraformed(ClusterUserType, "dynatrace_iam_user")
ClusterPermissionMgmzTerraformed == Terraformed(ClusterPermissionMgmzType, "dynatrace_mgmz_permission")
ClusterBindingsTerraformed == Terraformed(ClusterBindingsType, "dynatrace_policy_bindings")
ClusterPolicyPolicyTerraformed == Terraformed(ClusterPolicyPolicyType, "dynatrace_policy")
ClusterGroupUserTerraformed == Terraformed(ClusterGroupUserType, "dynatrace_user_group")
ClusterUserUserTerraformed == Terraformed(ClusterUserUserType, "dynatrace_user")
NamespacedGroupTerraformed == Terraformed(NamespacedGroupType, "dynatrace_iam_group")
NamespacedPermissionTerraformed == Terraformed(NamespacedPermissionType, "dynatrace_iam_permission")
NamespacedPolicyTerraformed == Terraformed(NamespacedPolicyType, "dynatrace_iam_policy")
NamespacedPolicyBindingsTerraformed == Terraformed(NamespacedPolicyBindingsType, "dynatrace_iam_policy_bindings")
NamespacedPolicyBindingsV2Terraformed == Terraformed(NamespacedPolicyBindingsV2Type, "dynatrace_iam_policy_bindings_v2")
NamespacedPolicyBoundaryTerraformed == Terraformed(NamespacedPolicyBoundaryType, "dynatrace_iam_policy_boundary")
NamespacedServiceUserTerraformed == Terraformed(NamespacedServiceUserType, "dynatrace_iam_service_user")
NamespacedUserTerraformed == Terraformed(NamespacedUserType, "dynatrace_iam_user")
NamespacedPermissionMgmzTerraformed == Terraformed(NamespacedPermissionMgmzType, "dynatrace_mgmz_permission")
NamespacedBindingsTerraformed == Terraformed(NamespacedBindingsType, "dynatrace_policy_bindings")
NamespacedPolicyPolicyTerraformed == Terraformed(NamespacedPolicyPolicyType, "dynatrace_policy")
NamespacedGroupUserTerraformed == Terraformed(NamespacedGroupUserType, "dynatrace_user_group")
NamespacedUserUserTerraformed == Terraformed(NamespacedUserUserType, "dynatrace_user")

AllTerraformed ==
    {ClusterGroupTerraformed, ClusterPermissionTerraformed,
     ClusterPolicyTerraformed, ClusterPolicyBindingsTerraformed,
     ClusterPolicyBindingsV2Terraformed, ClusterPolicyBoundaryTerraformed,
     ClusterServiceUserTerraformed, ClusterUserTerraformed,
     ClusterPermissionMgmzTerraformed, ClusterBindingsTerraformed,
     ClusterPolicyPolicyTerraformed, ClusterGroupUserTerraformed,
     ClusterUserUserTerraformed, NamespacedGroupTerraformed,
     NamespacedPermissionTerraformed, NamespacedPolicyTerraformed,
     NamespacedPolicyBindingsTerraformed,
     NamespacedPolicyBindingsV2Terraformed,
     NamespacedPolicyBoundaryTerraformed, NamespacedServiceUserTerraformed,
     NamespacedUserTerraformed, NamespacedPermissionMgmzTerraformed,
     NamespacedBindingsTerraformed, NamespacedPolicyPolicyTerraformed,
     NamespacedGroupUserTerraformed, NamespacedUserUserTerraformed}

-----------------------------------------------------------------------------
(***************************************************************************)
(* config: the tables the code is generated from                           *)
(***************************************************************************)

\* ExternalNameConfigs: the resources included, all of which have the names
\* the account assigns.
ExternalNameConfigs ==
    {"dynatrace_iam_group", "dynatrace_iam_permission", "dynatrace_iam_policy",
     "dynatrace_iam_policy_bindings", "dynatrace_iam_policy_bindings_v2",
     "dynatrace_iam_policy_boundary", "dynatrace_iam_service_user",
     "dynatrace_iam_user", "dynatrace_mgmz_permission", "dynatrace_policy",
     "dynatrace_policy_bindings", "dynatrace_user", "dynatrace_user_group"}

\* What the Configure function of a package does: the API group of its
\* resources.
ShortGroup(resources, group) == [r \in resources |-> group]

ConfigureIAM ==
    ShortGroup({"dynatrace_iam_group", "dynatrace_iam_permission",
                "dynatrace_iam_policy", "dynatrace_iam_policy_bindings",
                "dynatrace_iam_policy_bindings_v2", "dynatrace_iam_policy_boundary",
                "dynatrace_iam_service_user", "dynatrace_iam_user"}, "iam")
ConfigureMgmz == ShortGroup({"dynatrace_mgmz_permission"}, "mgmz")
ConfigurePolicy == ShortGroup({"dynatrace_policy", "dynatrace_policy_bindings"}, "policy")
ConfigureUser == ShortGroup({"dynatrace_user", "dynatrace_user_group"}, "user")

\* References of dynatrace_iam_policy_bindings_v2.
PolicyBindingsReferences ==
    [group |-> "Group", policy_id |-> "Policy", policy_boundaries |-> "PolicyBoundary"]

\* DefaultResourceConfigurations: the resources with an initializer.
Initialized == {"dynatrace_iam_group", "dynatrace_iam_policy_boundary"}

\* What GetProvider and GetProviderNamespaced make of a resource.
GetProvider(resource) ==
    [group |-> (ConfigureIAM @@ ConfigureMgmz @@ ConfigurePolicy @@ ConfigureUser)[resource],
     initialized |-> resource \in Initialized,
     references |-> IF resource = "dynatrace_iam_policy_bindings_v2"
                    THEN PolicyBindingsReferences ELSE NoReferences]

-----------------------------------------------------------------------------
(***************************************************************************)
(* The generated code and the configuration agree: every resource of the   *)
(* configuration has a kind in either scope and no other, with the group,  *)
(* the references and the initializer it is configured with, and a         *)
(* controller that drives it under the name its type gives. Its identifier *)
(* is one that only the account sets.                                      *)
(***************************************************************************)
GeneratedFromConfig ==
    /\ \A scope \in {"cluster", "namespaced"} :
          {t.resource : t \in {s \in AllTerraformed : s.type.kind.scope = scope}}
              = ExternalNameConfigs
    /\ \A t \in AllTerraformed :
          LET configured == GetProvider(t.resource) IN
          /\ t.type.kind.group = configured.group
          /\ t.type.references = configured.references
          /\ t.type.required \subseteq t.parameters
          /\ t.id \in t.observation \ t.parameters
          /\ \E i \in DOMAIN AllSetups :
                AllSetups[i] = Generated(t.type.kind, t.resource, configured.initialized)
    /\ \A s, t \in AllTerraformed : s.type.kind = t.type.kind => s = t

=============================================================================
