------------------------------ MODULE MCBuild -------------------------------
(***************************************************************************)
(* CRs that differ in one respect from a plain one with a group per role:  *)
(* in the settings of one role, or in the cluster's settings.              *)
(***************************************************************************)
EXTENDS Build

Url == <<"jdbc", ":", "postgresql", ":", "/", "/", "db", ":", "5432", "/", "dolphin">>

Cluster == [database |-> Url, credentialsSecret |-> "db", s3 |-> Nil,
            authentication |-> Nil, vectorAggregator |-> "aggregator"]

Group == [replicas |-> 2, config |-> Nil, overrides |-> Nil]

Fields(fs, v) == [f \in fs |-> v]

GroupWith(config) == [Group EXCEPT !.config = Admitted(config)]

Role(config, groups) == [config |-> Admitted(config), overrides |-> Nil, roleGroups |-> groups]

One(group) == [g \in {<<"a">>} |-> group]

Levels(n) ==
    [console |-> Nil, file |-> n, loggers |-> [l \in {"ROOT", "org.apache"} |-> n]]

\* Logging settings with levels for two containers, of which a pod has one.
Logging(v) ==
    [logging |-> [vector |-> v,
                  containers |-> [c \in {"alerter-server", "api-server"} |-> Levels(c)]]]

Override(f, v) ==
    [config |-> [g \in {CommonProperties} |-> [x \in {"data.basedir.path"} |-> v]],
     env    |-> [x \in {f} |-> v]]

\* The ways to set up a role.
RoleVariants ==
    {Role(Nil, One(Group)),
     Role(Nil, EmptyMap),
     Role(Nil, [g \in {<<"a">>, <<"b">>} |-> Group]),
     Role(Nil, [g \in {<<"a">>, <<"a", "metrics">>} |-> Group]),
     Role(Fields({"cpu", "memory"}, "role"), One(GroupWith(Fields({"cpu", "storage"}, "group")))),
     Role(Fields({"cpu", "grace", "storage"}, "role"), One(Group)),
     Role(Nil, One(GroupWith([affinity |-> "malformed"]))),
     Role(Logging("on"), One(GroupWith(Fields({"memory"}, "group")))),
     Role(Nil, One(GroupWith(Logging("off")))),
     Role(Nil, One(GroupWith(Logging("nil")))),
     [Role(Nil, One([Group EXCEPT !.overrides = Override("JAVA_OPTS", "group")]))
        EXCEPT !.overrides = Override("HOME", "role")]}

Entry(class, secret) == [class |-> class, secret |-> secret]

S3(reference, inline) ==
    [bucket |-> "b", connection |-> [reference |-> reference, inline |-> inline]]

Connection(port, credentials) == [credentials |-> credentials, host |-> "s3", port |-> port]

\* The ways to set up the cluster.
ClusterVariants ==
    {Nil,
     [Cluster EXCEPT !.database = <<"xxx">>],
     [Cluster EXCEPT !.database = <<"jdbc", ":", "h2", ":", "/", "/", "db", ":", "1", "/", "x">>],
     [Cluster EXCEPT !.database = <<"jdbc", ":", "mysql", ":", "/", "/", "db", "/", "x">>],
     [Cluster EXCEPT !.credentialsSecret = "other"],
     [Cluster EXCEPT !.vectorAggregator = ""]}
    \cup {[Cluster EXCEPT !.s3 = s] :
            s \in {[bucket |-> "b", connection |-> Nil], S3("", Nil),
                   S3("", Connection(0, "s3")), S3("", Connection(9000, "s3")),
                   S3("", Connection(0, "other")), S3("minio", Nil)}}
    \cup {[Cluster EXCEPT !.authentication = es] :
            es \in {<<>>, <<Entry("missing", Nil)>>, <<Entry("ldap", Nil)>>,
                    <<Entry("ldap", Nil), Entry("anonymous", Nil)>>,
                    <<Entry("anonymous", Nil), Entry("ldap", Nil)>>,
                    <<Entry("secure", Nil), Entry("ldap", Nil)>>,
                    <<Entry("keycloak", "c1"), Entry("ldap", Nil), Entry("oidc", "c2")>>,
                    <<Entry("keycloak", "c1"), Entry("keycloak2", "c2")>>,
                    <<Entry("keycloak", Nil)>>, <<Entry("unhinted", "c1")>>,
                    <<Entry("tls", Nil)>>}}

Base ==
    [productVersion |-> "", stopped |-> FALSE, clusterConfig |-> Cluster,
     roles |-> [r \in Roles |-> Role(Nil, One(Group))]]

MCInputs ==
    {[Base EXCEPT !.roles[r] = v] : r \in Roles, v \in RoleVariants}
    \cup {[Base EXCEPT !.clusterConfig = c] : c \in ClusterVariants}
    \cup {[Base EXCEPT !.stopped = TRUE, !.productVersion = "3.3.0"]}

Provider(type, host, hint, bind) ==
    [type |-> type, host |-> host, tls |-> host = "secure", hint |-> hint,
     fields |-> IF host = "secure" THEN [f \in {"uid", "mail"} |-> IF f = "uid" THEN "cn" ELSE ""]
                ELSE Nil,
     bind |-> bind]

Bind(secretClass, scope) == [secretClass |-> secretClass, scope |-> scope]

Classes ==
    [c \in {"ldap", "secure", "anonymous", "keycloak", "keycloak2", "oidc", "unhinted", "tls"} |->
        CASE c = "ldap"      -> Provider("ldap", c, "", Bind(c, Nil))
          [] c = "secure"    -> Provider("ldap", c, "",
                                         Bind(c, [of |-> {"pod", "node"}, services |-> <<"s">>]))
          [] c = "anonymous" -> Provider("ldap", c, "", Nil)
          [] c \in {"keycloak", "keycloak2"} -> Provider("oidc", c, "keycloak", Nil)
          [] c = "oidc"      -> Provider("oidc", c, "oidc", Nil)
          [] c = "unhinted"  -> Provider("oidc", c, "", Nil)
          [] c = "tls"       -> Provider("tls", c, "", Nil)]

Readable ==
    [secrets     |-> [n \in {"db", "s3"} |-> [x \in {"username", "password"} |-> n]],
     classes     |-> Classes,
     connections |-> [c \in {"minio"} |-> Connection(0, "s3")],
     aggregators |-> {"aggregator"}]

Unreadable ==
    [secrets |-> EmptyMap, classes |-> EmptyMap, connections |-> EmptyMap, aggregators |-> {}]

MCReads == {Readable, Unreadable}

-----------------------------------------------------------------------------
(* Single inputs for what the comments of the code promise. *)

OverrideInputs ==
    {[Base EXCEPT !.roles["master"].overrides = Override("TZ", "UTC")]}

LdapInputs == {[Base EXCEPT !.clusterConfig.authentication = <<Entry("ldap", Nil)>>]}
=============================================================================
