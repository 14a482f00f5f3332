------------------------------- MODULE Build --------------------------------
(***************************************************************************)
(* What one pass builds from a CR, apart from the cluster it is applied    *)
(* to: cluster.Reconciler.RegisterResources run to its end, for one        *)
(* admitted CR and one state of the objects it reads.                      *)
(***************************************************************************)
EXTENDS Manifests, Functions

CONSTANTS
    Inputs,     \* the CR specs
    Reads       \* the contents of the objects the operator reads

\* The entries of a CR under authentication, or Nil.
EntriesOf(s) == IF s.clusterConfig = Nil THEN Nil ELSE s.clusterConfig.authentication

\* A CR has all of its fields, and every role; the parts of a group's name and the
\* entries under authentication are in a sequence.
ASSUME InputsAssumption ==
    \A s \in Inputs :
        /\ DOMAIN s = {"productVersion", "stopped", "clusterConfig", "roles"}
        /\ DOMAIN s.roles = Roles
        /\ \A r \in Roles : \A g \in GroupsOf(s, r) : g \in Seq(TokensOf(g))
        /\ EntriesOf(s) # Nil => EntriesOf(s) \in Seq(TokensOf(EntriesOf(s)))

\* Nil is neither what is merged from settings that are there nor a provider.
ASSUME NilAssumption ==
    /\ \A s \in Inputs, r \in Roles : \A g \in GroupsOf(s, r) :
         MergeObject(s.roles[r].config, s.roles[r].roleGroups[g].config) = Nil =>
             s.roles[r].config = Nil /\ s.roles[r].roleGroups[g].config = Nil
    /\ \A s \in Inputs, d \in Reads : EntriesOf(s) # Nil =>
         \A e \in TokensOf(EntriesOf(s)) : e.class \in DOMAIN d.classes =>
             /\ LdapProvider(d.classes[e.class]) # Nil
             /\ \A h \in {"keycloak", "github"} : OidcProvider(d.classes[e.class], e, h) # Nil

VARIABLES
    input,      \* the CR input of the pass
    world,      \* what the operator can read meanwhile
    todo,       \* the role groups that are not registered yet
    list        \* what is registered: Ok of a sequence, or Panic

vars == <<input, world, todo, list>>

Init ==
    /\ input \in Inputs /\ world \in Reads
    /\ list = ClusterReconcilers(input)
    /\ todo = IF list = Panic THEN {} ELSE RoleGroups(input)

\* One turn of the loop over the role groups, in the order of the roles and,
\* within a role, in any order.
RegisterGroup ==
    /\ list # Panic
    /\ \E w \in FirstGroups(todo) :
         LET rs == GroupReconcilers(input, w[1], w[2], world)
         IN  \/ /\ rs = Panic
                /\ list' = Panic /\ todo' = {}
             \/ /\ rs # Panic
                /\ list' = Ok(list.val \o rs.val)
                /\ todo' = todo \ {w}
    /\ UNCHANGED <<input, world>>

Spec == Init /\ [][RegisterGroup]_vars

-----------------------------------------------------------------------------
(* Properties *)

Complete == list # Panic /\ todo = {}

Built(kind, name) ==
    {i \in DOMAIN list.val : list.val[i].key = [kind |-> kind, name |-> name]}

Workloads ==
    {i \in DOMAIN list.val : list.val[i].key.kind \in {"StatefulSet", "Deployment"}
                             /\ list.val[i].obj # Error}

\* The S3 settings are absent or can be resolved.
S3Readable(s) ==
    \/ s.clusterConfig.s3 = Nil
    \/ GetS3Config(s.clusterConfig.s3, world.connections, world.secrets).out = "ok"

\* A pod finds what it is told to mount: each mount of the server container
\* names a volume of the pod, a config map behind a volume is applied before
\* the workload, and it holds the file mounted from it and those the volume
\* selects, and vector's file when there is a vector container.  The exceptions
\* are S3 settings that cannot be resolved and a vector aggregator that is not
\* found: GenerateAllFile and ExtendConfigMapDataByVector then leave the file
\* out.
PodsFindTheirFiles ==
    list # Panic => \A i \in Workloads :
        LET w == list.val[i].obj
        IN  \A m \in Range(w.containers[1].volumeMounts) :
              /\ m.name \in DOMAIN w.volumes
              /\ "configMap" \in DOMAIN w.volumes[m.name] =>
                   LET maps == {j \in Built("ConfigMap", w.volumes[m.name].configMap) : j < i}
                   IN  /\ maps # {}
                       /\ \A j \in maps :
                            LET files == DOMAIN list.val[j].obj.data
                            IN  /\ w.volumes[m.name].items \subseteq files
                                /\ \/ m.subPath \in files
                                   \/ m.subPath = CommonProperties /\ ~S3Readable(input)
                                /\ Len(w.containers) = 2 =>
                                     ("vector.yaml" \in files
                                        <=> input.clusterConfig.vectorAggregator \in world.aggregators)

\* No two reconcilers of one pass manage the same object, so that no pass can
\* undo what it did: for a CR with at most one master group and without a group
\* named like the metrics service of another one.
Distinguishable(s) ==
    /\ \A g, h \in GroupsOf(s, "master") : g = h
    /\ \A r \in Roles : \A g, h \in GroupsOf(s, r) : h # g \o <<"metrics">>

OneReconcilerPerObject ==
    list # Panic /\ Distinguishable(input) =>
        \A i, j \in DOMAIN list.val : list.val[i].key = list.val[j].key => i = j

\* Without LDAP the script of a server starts it once, after the shutdown file
\* of vector is removed, and leaves that file behind when the server is down,
\* although the roles call CommonCommandArgs twice.
ScriptRunsOnce ==
    list # Panic => \A i \in Workloads :
        LET script == list.val[i].obj.containers[1].script
        IN  LdapVolumeName \notin DOMAIN list.val[i].obj.volumes =>
              /\ \E n \in DOMAIN script : {m \in DOMAIN script : script[m] = "start"} = {n}
              /\ script[1] = "trap" /\ script[Len(script)] = "createShutdownFile"

\* Stopping a cluster (clusterOperation.stopped) scales the workloads to zero
\* and changes nothing else, so that starting it again restores every pod as
\* it was.
Scaled(r, n) ==
    IF r.key.kind \in {"StatefulSet", "Deployment"} /\ r.obj # Error
    THEN [r EXCEPT !.obj.replicas = n] ELSE r

StopOnlyScales ==
    Complete /\ ~input.stopped => \A w \in RoleGroups(input) :
        LET on  == GroupReconcilers(input, w[1], w[2], world).val
            off == GroupReconcilers([input EXCEPT !.stopped = TRUE], w[1], w[2], world).val
        IN  /\ Len(on) = Len(off)
            /\ \A i \in DOMAIN on : Scaled(on[i], 0) = off[i]

\* Editing one role, whatever of it, leaves what is built for the other roles
\* as it was: only a role that is edited is rolled out again.
Unedited(s, t, role) == [s EXCEPT !.roles[role] = t.roles[role]] = t

EditIsLocal ==
    Complete => \A t \in Inputs, r \in Roles : Unedited(input, t, r) =>
        \A w \in RoleGroups(input) : w[1] # r =>
            GroupReconcilers(t, w[1], w[2], world) = GroupReconcilers(input, w[1], w[2], world)

\* A setting of a group holds against the same setting of its role, and that
\* against the default, also where only some of the settings are given.
Setting(role, group, field) ==
    LET g == input.roles[role].roleGroups[group].config
        r == input.roles[role].config
    IN  IF g # Nil /\ field \in DOMAIN g THEN g[field]
        ELSE IF r # Nil /\ field \in DOMAIN r THEN r[field]
        ELSE "default"

GroupOverRole ==
    list # Panic => \A i \in Workloads :
        LET role  == list.val[i].key.name[1]
            group == Tail(list.val[i].key.name)
        IN  /\ list.val[i].obj.containers[1].resources =
                 <<Setting(role, group, "cpu"), Setting(role, group, "memory")>>
            /\ list.val[i].obj.grace = Setting(role, group, "grace")
            /\ role = "worker" => list.val[i].obj.pvcs = <<Setting(role, group, "storage")>>

\* The classes of the CR's entries that can be read.
Resolved ==
    IF input.clusterConfig.authentication = Nil THEN {}
    ELSE {e \in Range(input.clusterConfig.authentication) : e.class \in DOMAIN world.classes}

\* What the API server is told about LDAP and where it finds its credentials
\* come from the same class, although two loops choose it (createAuthentication-
\* Config and Authentication); and what it is told about an OIDC provider comes
\* from one entry of the CR, although the maps of all entries are copied over
\* each other.
SettingsFromOneEntry ==
    list # Panic => \A i \in Workloads :
        LET w     == list.val[i].obj
            env   == w.containers[1].envs[3]
            hints == {v[1] : v \in {x \in DOMAIN env : Len(x) = 2}} \ {"ldap"}
        IN  Len(w.containers[1].envs) > 2 =>
              /\ LdapVolumeName \in DOMAIN w.volumes =>
                   \E e \in Resolved : LET c == world.classes[e.class] IN
                      /\ c.type = "ldap" /\ c.bind # Nil
                      /\ env[<<"ldap", "URLS">>] = <<"ldap", c.host>>
                      /\ w.volumes[LdapVolumeName].secretClass = c.bind.secretClass
              /\ \A h \in hints :
                   \E e \in Resolved : LET c == world.classes[e.class] IN
                      /\ c.type = "oidc" /\ getOidcProviderHint(c.hint) = Ok(h)
                      /\ h = "keycloak" =>
                           \A u \in OidcUris : env[<<h, u>>] = getIssuer(c) \o <<u>>
                      /\ \A s \in OidcCredentials : env[<<h, s>>] = <<"secret", e.secret, s>>

\* Every failure to build has one of the known causes.  A pass panics only for
\* a CR without clusterConfig, a connection string that cannot be split,
\* logging settings that do not say whether vector is enabled, or, with an API
\* server, a class that is neither LDAP nor OIDC with a known hint and a client
\* secret.  Otherwise every role group gets its config map, its workload and
\* its two services, but for an affinity that is not one, and for the API
\* server with an LDAP class without bind credentials.
VectorUnsaid(c) == c # Nil /\ "logging" \in DOMAIN c /\ c.logging.vector = "nil"

Usable(e) ==
    LET c == world.classes[e.class]
    IN  \/ c.type = "ldap"
        \/ c.type = "oidc" /\ c.hint \in {"keycloak", "github", "oidc"} /\ e.secret # Nil

PanicExplained ==
    \/ input.clusterConfig = Nil
    \/ Panic \in {GetDatabaseHost(input.clusterConfig.database),
                  parseConnectionString(input.clusterConfig.database)}
    \/ \E w \in RoleGroups(input) :
          \/ VectorUnsaid(input.roles[w[1]].config)
          \/ VectorUnsaid(input.roles[w[1]].roleGroups[w[2]].config)
    \/ GroupsOf(input, "api") # {} /\ \E e \in Resolved : ~Usable(e)

BuildsAllOrExplained ==
    /\ list = Panic => PanicExplained
    /\ Complete => \A w \in RoleGroups(input) :
         LET name == FullName(w[1], w[2])
         IN  \/ /\ Built("ConfigMap", name) # {} /\ Built("Service", name) # {}
                /\ Built("Service", CreateServiceMetricsName(w[1], w[2])) # {}
                /\ \/ \E i \in Workloads : list.val[i].key.name = name
                   \/ Setting(w[1], w[2], "affinity") = "malformed"
             \/ /\ w[1] = "api"
                /\ \E e \in Resolved : world.classes[e.class].bind = Nil
                                       /\ world.classes[e.class].type = "ldap"

-----------------------------------------------------------------------------
(* What comments of the code say and the code does not do *)

\* "cr define overrdie default" (MergeDefaultConfig): an environment variable
\* that the CR sets is not replaced by a default.
CrOverridesDefault ==
    list # Panic => \A i \in Workloads :
        LET role == input.roles[list.val[i].key.name[1]]
            o    == MergeOverrides(role.overrides,
                                   role.roleGroups[Tail(list.val[i].key.name)].overrides)
        IN  o # Nil => \A v \in DOMAIN o.env : list.val[i].obj.env[v] = o.env[v]

\* "insert ldap user credentials into command args": the rest of the script is
\* the one without LDAP.
LdapOnlyInserts ==
    list # Panic => \A i \in Workloads :
        LdapVolumeName \in DOMAIN list.val[i].obj.volumes =>
            list.val[i].obj.containers[1].script = <<"exportLdapCredentials">> \o RoleScript
=============================================================================
