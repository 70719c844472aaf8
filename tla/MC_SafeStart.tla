---------------------------- MODULE MC_SafeStart ----------------------------
(***************************************************************************)
(* An instance of SafeStart for TLC: three set-ups, one of them behind     *)
(* three kinds, with all five of their kinds. What the theorems of         *)
(* SafeStartProofs take of the set-ups is evaluated for all of them.       *)
(***************************************************************************)
EXTENDS SafeStart, Registry, SequencesExt

KindsOf(setups) ==
    UNION {setups[r].gates \cup UNION {c.watches : c \in ToSet(setups[r].controllers)} :
              r \in DOMAIN setups}

FewSetups == <<ClusterGroup, NamespacedProviderConfig, ClusterCostCenter>>
FewKinds == KindsOf(FewSetups)
AnyFew == SUBSET FewKinds

GetOrAll == {{"get"}, VerbSet}

Provider == INSTANCE SafeStart WITH Setups <- AllSetups, Kinds <- KindsOf(AllSetups)

\* No two of the provider's controllers share a name, and every gate names
\* what its controllers watch: with these the theorems NamesStayFree and
\* LostKindsStop hold of the whole provider.
ASSUME ProviderSetups == Provider!DistinctNames /\ Provider!GatesCover
=============================================================================
