----------------------------- MODULE MCStartup ------------------------------
(***************************************************************************)
(* Small instances of Startup.                                             *)
(***************************************************************************)
EXTENDS Startup

Url(type, port) ==
    <<"jdbc", ":", type, ":", "/", "/", "db", ":", port, "/", "dolphin">>

Cluster(url) ==
    [database |-> url, credentialsSecret |-> "db", s3 |-> Nil,
     authentication |-> Nil, vectorAggregator |-> ""]

Group == [replicas |-> 1, config |-> Nil, overrides |-> Nil]

\* A spec in which the given roles have one group each.
WithRoles(url, rs) ==
    [productVersion |-> "", stopped |-> FALSE, clusterConfig |-> Cluster(url),
     roles |-> [r \in Roles |->
        [config |-> Admitted(Nil), overrides |-> Nil,
         roleGroups |-> IF r \in rs THEN [g \in {<<"a">>} |-> Group] ELSE EmptyMap]]]

MCWorld ==
    [secrets     |-> [n \in {"db"} |-> [x \in {"username", "password"} |-> n]],
     classes     |-> EmptyMap,
     connections |-> EmptyMap,
     aggregators |-> {}]

MCInputs ==
    {WithRoles(Url("postgresql", "5432"), {"master"}),
     WithRoles(Url("mysql", "5432"), {"master", "worker", "api"}),
     WithRoles(Url("mysql", "3306"), {"master", "alert"})}

MySqlInputs == {WithRoles(Url("mysql", "3306"), {"master"})}
=============================================================================
