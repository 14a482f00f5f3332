------------------------------ MODULE Manifests -----------------------------
(***************************************************************************)
(* The objects the operator builds from a DolphinschedulerCluster and from *)
(* the objects it reads meanwhile (packages internal/common and            *)
(* internal/controller).                                                   *)
(*                                                                         *)
(* A CR spec is a record [productVersion, stopped, clusterConfig, roles].  *)
(* clusterConfig is Nil or [database, credentialsSecret, s3,               *)
(* authentication, vectorAggregator]; roles[r] is [config, overrides,      *)
(* roleGroups], with roleGroups a map from group names to [replicas,       *)
(* config, overrides].  A group name is a sequence of the parts between    *)
(* its dashes, and so is the name of an object after the cluster's name.   *)
(*                                                                         *)
(* reads is what the operator can read: [secrets, classes, connections,    *)
(* aggregators], three maps from names to contents and a set of names.     *)
(***************************************************************************)
EXTENDS RoleConfig, Database, Storage, Authentication

\* cluster.go registers the roles in this order.
RoleOrder == <<"master", "alert", "api", "worker">>

GroupsOf(spec, role) == DOMAIN spec.roles[role].roleGroups

\* The role groups of a spec, as pairs <<role, group>>.
RoleGroups(spec) == UNION {{r} \X GroupsOf(spec, r) : r \in Roles}

RoleIndex(role) == CHOOSE i \in 1..4 : RoleOrder[i] = role

\* Mutant: the roles are registered in the order of a Go map, too.
AnyGroup(groups) == groups

\* The roles are registered in order, the groups of one role in the order of
\* a Go map, which is any order.
FirstGroups(groups) ==
    {w \in groups : \A v \in groups : RoleIndex(w[1]) <= RoleIndex(v[1])}

Resource(kind, name, obj) == [key |-> [kind |-> kind, name |-> name], obj |-> obj]

FullName(role, group) == <<role>> \o group

RoleGroupEnvsConfigMapName == <<"envs">>

LogbackPropertiesFileName == "logback-spring.xml"

GetImage(spec) ==
    IF spec.productVersion # "" THEN spec.productVersion ELSE "default"

-----------------------------------------------------------------------------
(* Objects of the cluster: internal/controller/cluster *)

\* The three RBAC objects have one fixed name each and depend on nothing.
RbacReconcilers ==
    << Resource("ServiceAccount", <<"dolphinscheduler">>, [labels |-> <<"cluster">>]),
       Resource("Role", <<"dolphinscheduler">>, [labels |-> <<"cluster">>]),
       Resource("RoleBinding", <<"dolphinscheduler">>, [labels |-> <<"cluster">>]) >>

\* Mutant: the job runs the default version.
DefaultVersionJob(spec) ==
    IF spec.clusterConfig = Nil THEN Panic
    ELSE UnlessPanic(GetDatabaseHost(spec.clusterConfig.database), LAMBDA host :
            Ok(Resource("Job", <<>>,
                  [image   |-> "default",
                   waitFor |-> host,
                   envFrom |-> RoleGroupEnvsConfigMapName])))

NewJobInitScriptReconciler(spec) ==
    IF spec.clusterConfig = Nil THEN Panic
    ELSE UnlessPanic(GetDatabaseHost(spec.clusterConfig.database), LAMBDA host :
            Ok(Resource("Job", <<>>,
                  [image   |-> GetImage(spec),
                   waitFor |-> host,
                   envFrom |-> RoleGroupEnvsConfigMapName])))

\* The resources RegisterResources adds before it turns to the roles.
ClusterReconcilers(spec) ==
    UnlessPanic(NewJobInitScriptReconciler(spec), LAMBDA job : Ok(Append(RbacReconcilers, job)))

-----------------------------------------------------------------------------
(* Config maps: internal/common/configmap.go, vector.go, pkg/config *)

\* Mutant: the nil check is left out, and logging settings are assumed.
AssumesLogging(cfg) ==
    IF "logging" \notin DOMAIN cfg THEN Panic
    ELSE IF cfg.logging.vector = "nil" THEN Panic
    ELSE Ok(cfg.logging.vector = "on")

\* EnableVectorAgent is a pointer without a default: logging settings that do
\* not mention it make the function panic.
IsVectorEnable(cfg) ==
    IF "logging" \notin DOMAIN cfg THEN Ok(FALSE)
    ELSE IF cfg.logging.vector = "nil" THEN Panic
    ELSE Ok(cfg.logging.vector = "on")

CommonPropertiesGenerate(spec, overrides, reads) ==
    LET base == overrides.config[CommonProperties]
    IN  IF spec.clusterConfig.s3 = Nil THEN Ok(base)
        ELSE Then(GetS3Config(spec.clusterConfig.s3, reads.connections, reads.secrets), LAMBDA s3 :
                Ok(MapsCopy(base, [k \in {"resource.storage.type", "resource.aws"} |->
                                      IF k = "resource.storage.type" THEN "S3" ELSE s3])))

MainContainerName(role) ==
    CASE role = "master" -> "master-server"
      [] role = "worker" -> "worker-server"
      [] role = "alert"  -> "alerter-server"
      [] role = "api"    -> "api-server"

\* The levels and the file that productlogging.go puts into the template.
initializeProductLogging(container) ==
    [root |-> "INFO", console |-> "INFO", file |-> "INFO", loggers |-> EmptyMap,
     path |-> container]

\* A level that is not given stays as it was; the logger ROOT is the root.
applyLoggingConfig(p, spec) ==
    LET level(new, old) == IF new = Nil THEN old ELSE new
    IN  [p EXCEPT !.console = level(spec.console, @),
                  !.file    = level(spec.file, @),
                  !.root    = IF "ROOT" \in DOMAIN spec.loggers THEN spec.loggers["ROOT"] ELSE @,
                  !.loggers = [n \in DOMAIN spec.loggers \ {"ROOT"} |-> spec.loggers[n]]]

\* The settings of the role's own container, if the CR has some.
LogbackXmlGenerate(role, cfg) ==
    LET p == initializeProductLogging(MainContainerName(role))
    IN  IF "logging" \in DOMAIN cfg /\ MainContainerName(role) \in DOMAIN cfg.logging.containers
        THEN applyLoggingConfig(p, cfg.logging.containers[MainContainerName(role)])
        ELSE p

\* Mutant: one role that enables vector enables it for all.
SharedVectorFile(spec, cfg, reads) ==
    IF \E r \in Roles : /\ spec.roles[r].config # Nil
                        /\ IsVectorEnable(spec.roles[r].config) = Ok(TRUE)
    THEN [f \in {"vector.yaml"} |-> "vector"] ELSE EmptyMap

\* The vector.yaml entry, present when the aggregator's config map can be read.
VectorFile(spec, cfg, reads) ==
    IF /\ IsVectorEnable(cfg) = Ok(TRUE)
       /\ spec.clusterConfig.vectorAggregator \in reads.aggregators
    THEN [f \in {"vector.yaml"} |-> "vector"] ELSE EmptyMap

\* A file whose generator fails is left out of the config map.
CommonFile(spec, overrides, reads) ==
    OnError(Then(CommonPropertiesGenerate(spec, overrides, reads),
                 LAMBDA common : Ok([f \in {CommonProperties} |-> common])),
            EmptyMap)

NewConfigMapReconciler(spec, role, group, cfg, overrides, reads) ==
    UnlessPanic(CommonFile(spec, overrides, reads), LAMBDA file :
        UnlessPanic(IsVectorEnable(cfg), LAMBDA enabled :
            Ok(Resource("ConfigMap", FullName(role, group),
                 [labels |-> <<role, group>>,
                  data   |-> MapsCopy(MapsCopy(file, VectorFile(spec, cfg, reads)),
                                      [f \in {LogbackPropertiesFileName} |-> LogbackXmlGenerate(role, cfg)])]))))

DatabaseEnv(info) ==
    [v \in {"DATABASE", "SPRING_DATASOURCE_URL", "SPRING_DATASOURCE_USERNAME",
            "SPRING_DATASOURCE_PASSWORD", "SPRING_DATASOURCE_DRIVER-CLASS-NAME"} |->
        CASE v = "DATABASE"                   -> info.db.type
          [] v = "SPRING_DATASOURCE_URL"      ->
                <<info.db.type, info.db.host, info.db.port, info.db.name>>
          [] v = "SPRING_DATASOURCE_USERNAME" -> info.user
          [] v = "SPRING_DATASOURCE_PASSWORD" -> info.pass
          [] OTHER                            -> info.db.driver]

\* Without the database settings the variables that could be computed are kept.
NewEnvConfigMapReconciler(spec, role, group, overrides, reads) ==
    UnlessPanic(
        OnError(Then(ExtractDatabaseInfo(spec.clusterConfig.database, reads.secrets,
                                         spec.clusterConfig.credentialsSecret),
                     LAMBDA info : Ok(DatabaseEnv(info))),
                EmptyMap),
        LAMBDA env : Ok(Resource("ConfigMap", RoleGroupEnvsConfigMapName,
                           [labels |-> <<role, group>>,
                            data   |-> MapsCopy(overrides.env, env)])))

-----------------------------------------------------------------------------
(* Containers: internal/common/container.go and the roles' role.go *)

\* The name and the number of each port of a role.
Ports(role) ==
    CASE role = "master" -> [port |-> 5678,  second |-> 5679]
      [] role = "worker" -> [port |-> 1234,  second |-> 1235]
      [] role = "alert"  -> [port |-> 50052, second |-> 50053]
      [] role = "api"    -> [port |-> 12345, second |-> 25333]

GetMetricsPort(role) ==
    IF role = "api" THEN Ports(role).port ELSE Ports(role).second

\* Mutants: the shutdown file is not removed, TERM is trapped too late, and the
\* script does not wait for the server.
ScriptKeepsFile == <<"trap", "handlers", "start", "wait", "createShutdownFile">>

HandlersLate == <<"trap", "removeShutdownFile", "start", "handlers", "wait", "createShutdownFile">>

ScriptEndsFirst == <<"trap", "removeShutdownFile", "handlers", "start", "createShutdownFile">>

\* The six commands that start a role, in order.
RoleScript == <<"trap", "removeShutdownFile", "handlers", "start", "wait", "createShutdownFile">>

commonVolumeMounts ==
    << [name |-> "common-config", subPath |-> CommonProperties],
       [name |-> "logback", subPath |-> LogbackPropertiesFileName] >>

NewContainerBuilder ==
    [envs |-> <<>>, ports |-> <<>>, probe |-> Nil, args |-> <<>>, argsScript |-> <<>>,
     volumeMounts |-> commonVolumeMounts]

\* The ports of one call, as a block.
WithPorts(b, ports) == [b EXCEPT !.ports = Append(@, ports)]

\* Both probes ask the same port.
WithReadinessAndLivenessProbe(b, port) == [b EXCEPT !.probe = port]

\* The variables of one call, as a block, and the ZooKeeper address.
WithEnvs(b, block) ==
    [b EXCEPT !.envs = @ \o <<block, "REGISTRY_ZOOKEEPER_CONNECT_STRING">>]

\* Mutant: the script accumulates.
AppendCommandArgs(b) ==
    [b EXCEPT !.argsScript = @ \o RoleScript, !.args = @ \o RoleScript]

\* The script is replaced; the arguments kept for GetCommandArgs accumulate.
CommonCommandArgs(b) ==
    [b EXCEPT !.argsScript = RoleScript, !.args = @ \o RoleScript]

ResetCommandArgs(b, script) == [b EXCEPT !.argsScript = script]

WithVolumeMounts(b, vms) == [b EXCEPT !.volumeMounts = @ \o vms]

\* The calls that every role makes on its container builder.
RoleContainer(role) ==
    LET listening == WithPorts(CommonCommandArgs(NewContainerBuilder), Ports(role))
        probed    == WithReadinessAndLivenessProbe(WithEnvs(listening, role), GetMetricsPort(role))
    IN  WithVolumeMounts(CommonCommandArgs(probed), <<>>)

LdapVolumeName == "ldap-bind-credentials"

apiServerCommandArgs(b) == <<"exportLdapCredentials">> \o b.args

\* The API server's builder and extra volumes once authentication is added.
authentication(spec, b, reads) ==
    IF spec.clusterConfig.authentication = Nil THEN Ok([b |-> b, volumes |-> EmptyMap])
    ELSE Then(AuthenticationOf(spec.clusterConfig.authentication, reads.classes), LAMBDA auth :
            LET withEnv == WithEnvs(b, auth.config)
                mounted == WithVolumeMounts(withEnv, <<[name |-> LdapVolumeName, subPath |-> ""]>>)
            IN  IF auth.ldapVolume = Nil THEN Ok([b |-> withEnv, volumes |-> EmptyMap])
                ELSE Ok([b |-> ResetCommandArgs(mounted, apiServerCommandArgs(mounted)),
                         volumes |-> [v \in {LdapVolumeName} |-> auth.ldapVolume]]))

BuildContainer(spec, b, cfg) ==
    [image        |-> GetImage(spec),
     ports        |-> b.ports,
     probe        |-> b.probe,
     envs         |-> b.envs,
     envFrom      |-> RoleGroupEnvsConfigMapName,
     script       |-> b.argsScript,
     volumeMounts |-> b.volumeMounts,
     resources    |-> <<cfg["cpu"], cfg["memory"]>>]

-----------------------------------------------------------------------------
(* Workloads and services: internal/common/workload.go, resource.go, service.go *)

\* Mutant: the volume of the logging configuration is forgotten.
VolumesWithoutLogback(role, group) ==
    [v \in {"log", "common-config"} |->
        [configMap |-> FullName(role, group), items |-> {}]]

\* The volumes by name: the logs, the group's config map as a whole, and one
\* file of it.
commonVolumes(role, group) ==
    [v \in {"log", "common-config", "logback"} |->
        IF v = "log" THEN [emptyDir |-> TRUE]
        ELSE [configMap |-> FullName(role, group),
              items     |-> IF v = "logback" THEN {LogbackPropertiesFileName} ELSE {}]]

\* Mutant: a stopped cluster keeps its pods.
GivenReplicas(spec, role, group) == spec.roles[role].roleGroups[group].replicas

Replicas(spec, role, group) ==
    IF spec.stopped THEN 0 ELSE spec.roles[role].roleGroups[group].replicas

\* The affinity is JSON in the CR, and must be that of an affinity.
ExtractAffinity(cfg) ==
    IF cfg["affinity"] = "malformed" THEN Error ELSE Ok(cfg["affinity"])

VectorDecorator(containers, cfg) ==
    IF IsVectorEnable(cfg) = Ok(TRUE) THEN Append(containers, "vector") ELSE containers

\* One claim, of the merged size.
WithPvcTemplates(cfg) == <<cfg["storage"]>>

\* A StatefulSet or a Deployment.  Its Build may fail, when it is applied.
Workload(kind, spec, role, group, cfg, overrides, b, volumes, pvcs) ==
    Resource(kind, FullName(role, group),
        IF ExtractAffinity(cfg) = Error THEN Error
        ELSE [replicas       |-> Replicas(spec, role, group),
              containers     |-> VectorDecorator(<<BuildContainer(spec, b, cfg)>>, cfg),
              volumes        |-> MapsCopy(commonVolumes(role, group), volumes),
              affinity       |-> ExtractAffinity(cfg).val,
              grace          |-> cfg["grace"],
              env            |-> overrides.env,
              serviceAccount |-> <<"dolphinscheduler">>,
              pvcs           |-> pvcs])

NewServiceReconciler(role, group, headless) ==
    Resource("Service", FullName(role, group),
             [labels |-> <<role, group>>, headless |-> headless, ports |-> Ports(role)])

\* Mutant: the metrics service has the name of the service.
UnsuffixedName(role, group) == FullName(role, group)

CreateServiceMetricsName(role, group) == FullName(role, group) \o <<"metrics">>

NewRoleGroupMetricsService(role, group) ==
    Resource("Service", CreateServiceMetricsName(role, group),
             [labels |-> <<role, group, "prometheus">>, headless |-> TRUE,
              ports |-> [metrics |-> GetMetricsPort(role)]])

-----------------------------------------------------------------------------
(* The resources of one role group, in the order they are applied. *)

\* ResourceReconcilers of master/role.go: the only role with the shared
\* environment config map.
MasterResources(spec, group, cfg, overrides, reads) ==
    UnlessPanic(NewConfigMapReconciler(spec, "master", group, cfg, overrides, reads), LAMBDA cm :
        UnlessPanic(NewEnvConfigMapReconciler(spec, "master", group, overrides, reads), LAMBDA env :
            Ok(<<cm, env,
                 Workload("StatefulSet", spec, "master", group, cfg, overrides,
                          RoleContainer("master"), EmptyMap, <<>>),
                 NewServiceReconciler("master", group, TRUE)>>)))

\* Of worker/role.go.
WorkerResources(spec, group, cfg, overrides, reads) ==
    UnlessPanic(NewConfigMapReconciler(spec, "worker", group, cfg, overrides, reads), LAMBDA cm :
        Ok(<<cm,
             Workload("StatefulSet", spec, "worker", group, cfg, overrides,
                      RoleContainer("worker"), EmptyMap, WithPvcTemplates(cfg)),
             NewServiceReconciler("worker", group, TRUE)>>))

\* Of alerter/role.go.
AlertResources(spec, group, cfg, overrides, reads) ==
    UnlessPanic(NewConfigMapReconciler(spec, "alert", group, cfg, overrides, reads), LAMBDA cm :
        Ok(<<cm,
             Workload("Deployment", spec, "alert", group, cfg, overrides,
                      RoleContainer("alert"), EmptyMap, <<>>),
             NewServiceReconciler("alert", group, FALSE)>>))

\* Of api/role.go: an authentication error makes it return no resources.
ApiResources(spec, group, cfg, overrides, reads) ==
    UnlessPanic(NewConfigMapReconciler(spec, "api", group, cfg, overrides, reads), LAMBDA cm :
        OnError(Then(authentication(spec, RoleContainer("api"), reads), LAMBDA auth :
                    Ok(<<cm,
                         Workload("Deployment", spec, "api", group, cfg, overrides,
                                  auth.b, auth.volumes, <<>>),
                         NewServiceReconciler("api", group, FALSE)>>)),
                <<>>))

ResourceReconcilers(spec, role, group, cfg, overrides, reads) ==
    CASE role = "master" -> MasterResources(spec, group, cfg, overrides, reads)
      [] role = "worker" -> WorkerResources(spec, group, cfg, overrides, reads)
      [] role = "alert"  -> AlertResources(spec, group, cfg, overrides, reads)
      [] role = "api"    -> ApiResources(spec, group, cfg, overrides, reads)

\* One turn of the loop of RoleReconciler.RegisterResources: merge, build, and
\* add the metrics service.
GroupReconcilers(spec, role, group, reads) ==
    UnlessPanic(ResourceReconcilers(spec, role, group,
                                    GroupConfig(role, spec.roles[role], group),
                                    GroupOverrides(spec.roles[role], group), reads),
                LAMBDA rs : Ok(Append(rs, NewRoleGroupMetricsService(role, group))))
=============================================================================
