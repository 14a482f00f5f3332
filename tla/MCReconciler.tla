---------------------------- MODULE MCReconciler ----------------------------
(***************************************************************************)
(* Small instances of Reconciler.                                          *)
(***************************************************************************)
EXTENDS Reconciler, TLC

Url == <<"jdbc", ":", "postgresql", ":", "/", "/", "db", ":", "5432", "/", "dolphin">>

Cluster == [database |-> Url, credentialsSecret |-> "db", s3 |-> Nil,
            authentication |-> Nil, vectorAggregator |-> ""]

Group == [replicas |-> 1, config |-> Nil, overrides |-> Nil]

NoRole == [config |-> Nil, overrides |-> Nil, roleGroups |-> EmptyMap]

OneGroup == [NoRole EXCEPT !.roleGroups = [g \in {<<"a">>} |-> Group]]

\* A spec in which the given roles have one group each.
WithRoles(rs) ==
    [productVersion |-> "", stopped |-> FALSE, clusterConfig |-> Cluster,
     roles |-> [r \in Roles |-> IF r \in rs THEN OneGroup ELSE NoRole]]

\* The StatefulSet and the Deployment of one role group each.
Small == WithRoles({"master", "alert"})

\* Without role groups there are still the four objects of the cluster.
MasterOnly == WithRoles({"master"})
AlertOnly  == WithRoles({"alert"})

\* An edit that changes the workloads and nothing else.
Stop(s) == [s EXCEPT !.stopped = TRUE]

\* An edit that changes every pod, and the job, which cannot be changed.
Upgrade(s) == [s EXCEPT !.productVersion = "next"]

\* Specs that cannot be reconciled: RegisterResources panics at once, or at the
\* group; the Deployment cannot be built.
GroupConfigured(config) ==
    [AlertOnly EXCEPT !.roles["alert"].roleGroups[<<"a">>].config = Admitted(config)]

NoClusterConfig == [AlertOnly EXCEPT !.clusterConfig = Nil]
NoVectorChoice  == GroupConfigured([logging |-> [vector |-> "nil", containers |-> EmptyMap]])
BadAffinity     == GroupConfigured([affinity |-> "malformed"])

\* Two master groups, each with a variable of its own.
TwoMasters ==
    [Small EXCEPT !.roles["master"].roleGroups = [g \in {<<"a">>, <<"b">>} |->
        [Group EXCEPT !.overrides = [config |-> EmptyMap, env |-> [x \in {"GROUP"} |-> g]]]]]

Secret(user) == [x \in {"username", "password"} |-> user]

NoDeps == [secrets |-> EmptyMap, classes |-> EmptyMap, connections |-> EmptyMap,
           aggregators |-> {}]

Deps == [NoDeps EXCEPT !.secrets = [n \in {"db"} |-> Secret("u")]]

EditSpecs    == {MasterOnly, Upgrade(Small)}
FaultSpecs   == {MasterOnly, Stop(MasterOnly)}
BrokenSpecs  == {AlertOnly, NoClusterConfig, NoVectorChoice, BadAffinity}
DeleteSpecs  == {WithRoles({}), NoVectorChoice}
MasterSpecs  == {TwoMasters}
SecretOrNot  == {NoDeps, Deps}
SecretGiven  == {Deps}
TwoKinds     == {"StatefulSet", "Deployment"}
=============================================================================
