---------------------------- MODULE GroupProofs -----------------------------
(***************************************************************************)
(* What GroupReconcilers and the builders it calls return for one role     *)
(* group, for every CR spec and everything the operator reads: the lemmas  *)
(* on which the theorems of BuildProofs rest.                              *)
(***************************************************************************)
EXTENDS ManifestsProofs, Functions, WellFoundedInduction

\* The resources of the role group w.
BlockOf(s, d, w) == GroupReconcilers(s, w[1], w[2], d).val

\* l holds the four resources of the cluster and, from the offset off[w] on,
\* those of each role group w that is done, and nothing else.
Laid(s, d, done, l, off) ==
    /\ \A w \in done : off[w] \in Nat
    /\ \A w \in done : \A k \in DOMAIN BlockOf(s, d, w) :
          off[w] + k \in DOMAIN l /\ l[off[w] + k] = BlockOf(s, d, w)[k]
    /\ \A i \in DOMAIN l :
          \/ i \in 1..4 /\ l[i] = ClusterReconcilers(s).val[i]
          \/ \E w \in done : \E k \in DOMAIN BlockOf(s, d, w) : i = off[w] + k

-----------------------------------------------------------------------------
(* Role groups and their places in the list *)

\* The parts of a role group.
LEMMA RoleGroupParts ==
    ASSUME NEW s, NEW w \in RoleGroups(s)
    PROVE  w = <<w[1], w[2]>> /\ w[1] \in Roles /\ w[2] \in GroupsOf(s, w[1])
  BY DEF RoleGroups

\* What one turn of the loop appends is laid behind the rest.
LEMMA LaidMore ==
    ASSUME NEW s, NEW d, NEW done, NEW S, NEW l \in Seq(S), NEW off,
           Laid(s, d, done, l, off),
           NEW w, w \notin done, NEW T, BlockOf(s, d, w) \in Seq(T)
    PROVE  \E o : Laid(s, d, done \cup {w}, l \o BlockOf(s, d, w), o)
<1> DEFINE b == BlockOf(s, d, w)
           m == l \o b
           o == [v \in done \cup {w} |-> IF v = w THEN Len(l) ELSE off[v]]
<1>1. /\ l \in Seq(S \cup T) /\ b \in Seq(S \cup T)
      /\ Len(l) \in Nat /\ Len(b) \in Nat /\ DOMAIN l = 1..Len(l) /\ DOMAIN b = 1..Len(b)
  <2>1. b \in Seq(T)
    OBVIOUS
  <2> HIDE DEF b
  <2> QED BY <2>1
<1>2. /\ m \in Seq(S \cup T) /\ Len(m) = Len(l) + Len(b)
      /\ \A i \in 1..(Len(l) + Len(b)) : m[i] = IF i <= Len(l) THEN l[i] ELSE b[i - Len(l)]
  <2> HIDE DEF b
  <2> QED BY <1>1, Concatenation, Zenon
<1>3. /\ \A v \in done : off[v] \in Nat
      /\ \A v \in done : \A k \in DOMAIN BlockOf(s, d, v) :
            off[v] + k \in DOMAIN l /\ l[off[v] + k] = BlockOf(s, d, v)[k]
      /\ \A i \in DOMAIN l :
            \/ i \in 1..4 /\ l[i] = ClusterReconcilers(s).val[i]
            \/ \E v \in done : \E k \in DOMAIN BlockOf(s, d, v) : i = off[v] + k
  BY Zenon DEF Laid
<1>4. o[w] = Len(l) /\ \A v \in done : o[v] = off[v]
  OBVIOUS
<1> HIDE DEF m, o
<1>5. DOMAIN m = 1..(Len(l) + Len(b)) /\ \A i \in 1..Len(l) : i \in DOMAIN m /\ m[i] = l[i]
  <2> HIDE DEF b
  <2> QED BY <1>1, <1>2
<1>6. \A v \in done \cup {w} : o[v] \in Nat
  BY <1>1, <1>3, <1>4, Zenon
<1>7. ASSUME NEW v \in done \cup {w}, NEW k \in DOMAIN BlockOf(s, d, v)
      PROVE  o[v] + k \in DOMAIN m /\ m[o[v] + k] = BlockOf(s, d, v)[k]
  <2>1. CASE v = w
    <3>1. k \in DOMAIN b
      BY <1>7, <2>1, Zenon
    <3>2. Len(l) + k \in DOMAIN m /\ m[Len(l) + k] = b[k]
      <4> HIDE DEF b
      <4> QED BY <1>1, <1>2, <1>5, <3>1
    <3> QED BY <1>4, <2>1, <3>2, Zenon
  <2>2. CASE v \in done
    <3>1. off[v] + k \in DOMAIN l /\ l[off[v] + k] = BlockOf(s, d, v)[k]
      BY <1>3, <1>7, <2>2, Zenon
    <3> QED BY <1>1, <1>4, <1>5, <2>2, <3>1, Zenon
  <2> QED BY <2>1, <2>2, Zenon
<1>8. ASSUME NEW i \in DOMAIN m
      PROVE  \/ i \in 1..4 /\ m[i] = ClusterReconcilers(s).val[i]
             \/ \E v \in done \cup {w} : \E k \in DOMAIN BlockOf(s, d, v) : i = o[v] + k
  <2>1. CASE i \in 1..Len(l)
    <3>1. i \in DOMAIN l /\ m[i] = l[i]
      BY <1>1, <1>5, <2>1, Zenon
    <3>2. CASE i \in 1..4 /\ l[i] = ClusterReconcilers(s).val[i]
      BY <3>1, <3>2, Zenon
    <3>3. CASE \E v \in done : \E k \in DOMAIN BlockOf(s, d, v) : i = off[v] + k
      BY <1>4, <3>3, Zenon
    <3> QED BY <1>3, <3>1, <3>2, <3>3, Zenon
  <2>2. CASE i \notin 1..Len(l)
    <3>1. i - Len(l) \in DOMAIN b /\ i = Len(l) + (i - Len(l))
      <4>1. PICK p, q : p = Len(l) /\ q = Len(b)
        BY Zenon
      <4>2. p \in Nat /\ q \in Nat /\ i \in 1..(p + q) /\ i \notin 1..p /\ DOMAIN b = 1..q
        BY <1>1, <1>5, <1>8, <2>2, <4>1, Zenon
      <4> HIDE DEF b
      <4>3. i - p \in 1..q /\ i = p + (i - p)
        BY <4>2
      <4> QED BY <4>1, <4>2, <4>3, Zenon
    <3> QED BY <1>4, <3>1, Zenon
  <2> QED BY <2>1, <2>2, Zenon
<1>9. Laid(s, d, done \cup {w}, m, o)
  <2> HIDE DEF b
  <2> QED BY <1>6, <1>7, <1>8, Zenon DEF Laid
<1>10. m = l \o BlockOf(s, d, w)
  BY Zenon DEF m
<1> HIDE DEF b
<1> QED BY <1>9, <1>10, Zenon

\* Before the first turn only the cluster's resources are there.
LEMMA LaidNone ==
    ASSUME NEW s, NEW d, ClusterReconcilers(s) # Panic
    PROVE  \E off : Laid(s, d, {}, ClusterReconcilers(s).val, off)
<1> DEFINE l == ClusterReconcilers(s).val
           a == RbacReconcilers[1]
           b == RbacReconcilers[2]
           c == RbacReconcilers[3]
           j == NewJobInitScriptReconciler(s).val
<1>1. l = <<a, b, c, j>>
  BY ClusterShape, Zenon
<1> HIDE DEF l, a, b, c, j
<1>2. DOMAIN l = 1..4
  BY <1>1
<1>3. Laid(s, d, {}, l, <<>>)
  BY <1>2, Zenon DEF Laid, l
<1> QED BY <1>3, Zenon DEF l

\* A turn of the loop takes one role group off the list of those to do.
LEMMA OneLess ==
    ASSUME NEW s, NEW td, td \subseteq RoleGroups(s), NEW w \in td
    PROVE  /\ RoleGroups(s) \ (td \ {w}) = (RoleGroups(s) \ td) \cup {w}
           /\ w \notin RoleGroups(s) \ td
  OBVIOUS

-----------------------------------------------------------------------------
(* The objects of a role group *)

ConfigMapOf(s, d, w) == GroupConfigMap(s, w[1], w[2], d).val

EnvMapOf(s, d, w) == GroupEnvMap(s, w[2], d).val

WorkloadOf(s, d, w) == GroupWorkload(s, w[1], w[2], d)

ServiceOf(w) == GroupService(w[1], w[2])

MetricsOf(w) == NewRoleGroupMetricsService(w[1], w[2])

NameOf(w) == FullName(w[1], w[2])

WorkloadKinds == {"StatefulSet", "Deployment"}

\* The parts of the name of a role group's objects, for a group name in a sequence.
LEMMA FullNameParts ==
    ASSUME NEW S, NEW g \in Seq(S), NEW r
    PROVE  FullName(r, g)[1] = r /\ Tail(FullName(r, g)) = g
<1> DEFINE T == S \cup {r}
<1>1. <<r>> \in Seq(T) /\ Len(<<r>>) = 1 /\ <<r>>[1] = r /\ g \in Seq(T) /\ Len(g) \in Nat
  OBVIOUS
<1>2. /\ <<r>> \o g \in Seq(T) /\ Len(<<r>> \o g) = 1 + Len(g)
      /\ \A i \in 1..(1 + Len(g)) : (<<r>> \o g)[i] = IF i <= 1 THEN <<r>>[i] ELSE g[i - 1]
  BY <1>1, Concatenation, Zenon
<1>3. PICK f : f = <<r>> \o g
  BY Zenon
<1>4. /\ f \in Seq(T) /\ Len(f) = Len(g) + 1 /\ f[1] = r
      /\ \A i \in 1..Len(g) : f[i + 1] = g[i]
  BY <1>1, <1>2, <1>3
<1>5. Tail(f) \in Seq(T) /\ Len(Tail(f)) = Len(g) /\ \A i \in 1..Len(g) : Tail(f)[i] = f[i + 1]
  BY <1>1, <1>4, TailOf
<1>6. Tail(f) = g
  BY <1>1, <1>4, <1>5, SameSequence, ZenonT(30)
<1> QED BY <1>3, <1>4, <1>6, Zenon DEF FullName

\* What RegisterResources adds for a role group, in order (the role.go of each
\* role and RoleReconciler).
LEMMA BlockShape ==
    ASSUME NEW s, NEW d, NEW w, w[1] \in Roles, GroupReconcilers(s, w[1], w[2], d) # Panic
    PROVE  /\ \/ /\ w[1] = "master" /\ GroupEnvMap(s, w[2], d) # Panic
                 /\ BlockOf(s, d, w) = <<ConfigMapOf(s, d, w), EnvMapOf(s, d, w),
                                         WorkloadOf(s, d, w), ServiceOf(w), MetricsOf(w)>>
              \/ /\ w[1] # "master" /\ (w[1] = "api" => ApiServer(s, d).out = "ok")
                 /\ BlockOf(s, d, w) = <<ConfigMapOf(s, d, w), WorkloadOf(s, d, w),
                                         ServiceOf(w), MetricsOf(w)>>
              \/ /\ w[1] = "api" /\ ApiServer(s, d) = Error
                 /\ BlockOf(s, d, w) = <<MetricsOf(w)>>
           /\ GroupConfigMap(s, w[1], w[2], d) # Panic
<1>1. CASE w[1] = "master"
  BY <1>1, MasterShape DEF BlockOf, ConfigMapOf, EnvMapOf, WorkloadOf, ServiceOf, MetricsOf
<1>2. CASE w[1] \in {"worker", "alert"}
  BY <1>2, PlainShape DEF BlockOf, ConfigMapOf, WorkloadOf, ServiceOf, MetricsOf
<1>3. CASE w[1] = "api"
  BY <1>3, ApiShape DEF BlockOf, ConfigMapOf, WorkloadOf, ServiceOf, MetricsOf
<1> QED BY <1>1, <1>2, <1>3, Zenon DEF Roles

\* The keys of the objects of a role group.
LEMMA BlockKeys ==
    ASSUME NEW s, NEW d, NEW w, GroupConfigMap(s, w[1], w[2], d) # Panic
    PROVE  /\ ConfigMapOf(s, d, w).key = Key("ConfigMap", NameOf(w))
           /\ GroupEnvMap(s, w[2], d) # Panic => EnvMapOf(s, d, w).key = Key("ConfigMap", <<"envs">>)
           /\ WorkloadOf(s, d, w).key = Key(WorkloadKind(w[1]), NameOf(w))
           /\ ServiceOf(w).key = Key("Service", NameOf(w))
           /\ MetricsOf(w).key = Key("Service", CreateServiceMetricsName(w[1], w[2]))
           /\ WorkloadKind(w[1]) \in WorkloadKinds
<1>1. ConfigMapOf(s, d, w).key = Key("ConfigMap", NameOf(w))
  BY ConfigMapKey DEF ConfigMapOf, NameOf
<1>2. GroupEnvMap(s, w[2], d) # Panic => EnvMapOf(s, d, w).key = Key("ConfigMap", <<"envs">>)
  BY EnvMapKey, Zenon DEF EnvMapOf, RoleGroupEnvsConfigMapName
<1>3. WorkloadOf(s, d, w).key = Key(WorkloadKind(w[1]), NameOf(w))
  BY WorkloadKey DEF WorkloadOf, NameOf
<1>4. /\ ServiceOf(w).key = Key("Service", NameOf(w))
      /\ MetricsOf(w).key = Key("Service", CreateServiceMetricsName(w[1], w[2]))
  BY ServiceKeys, Zenon DEF ServiceOf, MetricsOf, NameOf
<1> QED BY <1>1, <1>2, <1>3, <1>4, Zenon DEF WorkloadKind, WorkloadKinds

\* The cluster's own resources are no workloads, config maps or services.
LEMMA ClusterKinds ==
    ASSUME NEW s, ClusterReconcilers(s) # Panic, NEW i \in 1..4
    PROVE  /\ ClusterReconcilers(s).val[i].key.kind \notin WorkloadKinds \cup {"ConfigMap", "Service"}
           /\ \A j \in 1..4 : ClusterReconcilers(s).val[i].key = ClusterReconcilers(s).val[j].key => i = j
<1> DEFINE l == ClusterReconcilers(s).val
           a == RbacReconcilers[1]
           b == RbacReconcilers[2]
           c == RbacReconcilers[3]
           j == NewJobInitScriptReconciler(s).val
<1>1. l = <<a, b, c, j>> /\ NewJobInitScriptReconciler(s) # Panic
  BY ClusterShape, Zenon
<1>2. j.key.kind = "Job"
  <2>1. j = Resource("Job", <<>>,
              [image   |-> GetImage(s),
               waitFor |-> GetDatabaseHost(s.clusterConfig.database).val,
               envFrom |-> RoleGroupEnvsConfigMapName])
    BY <1>1, JobShape, Zenon
  <2> QED BY <2>1 DEF Resource
<1>3. a.key.kind = "ServiceAccount" /\ b.key.kind = "Role" /\ c.key.kind = "RoleBinding"
  BY Zenon DEF RbacReconcilers, Resource
<1> HIDE DEF l, a, b, c, j
<1>4. l[1] = a /\ l[2] = b /\ l[3] = c /\ l[4] = j
  BY <1>1, Zenon
<1> QED BY <1>2, <1>3, <1>4 DEF WorkloadKinds, l

\* Where the objects of a role group stand in its block.
LEMMA BlockPlaces ==
    ASSUME NEW s, NEW d, NEW w, w[1] \in Roles, GroupReconcilers(s, w[1], w[2], d) # Panic,
           NEW k \in DOMAIN BlockOf(s, d, w)
    PROVE  LET b == BlockOf(s, d, w)
           IN  /\ k \in Nat /\ k > 0
               /\ b[k].key.kind \in WorkloadKinds =>
                    /\ k > 1 /\ 1 \in DOMAIN b
                    /\ b[k] = WorkloadOf(s, d, w) /\ b[1] = ConfigMapOf(s, d, w)
                    /\ w[1] = "api" => ApiServer(s, d).out = "ok"
               /\ b[k].key.kind = "ConfigMap" =>
                    b[k] = ConfigMapOf(s, d, w) \/ b[k].key.name = <<"envs">>
<1> DEFINE b == BlockOf(s, d, w)
           c == ConfigMapOf(s, d, w)
           e == EnvMapOf(s, d, w)
           l == WorkloadOf(s, d, w)
           u == ServiceOf(w)
           m == MetricsOf(w)
<1>1. /\ \/ w[1] = "master" /\ GroupEnvMap(s, w[2], d) # Panic /\ b = <<c, e, l, u, m>>
         \/ w[1] # "master" /\ (w[1] = "api" => ApiServer(s, d).out = "ok") /\ b = <<c, l, u, m>>
         \/ b = <<m>>
      /\ GroupConfigMap(s, w[1], w[2], d) # Panic
  BY BlockShape, Zenon
<1>2. /\ c.key = Key("ConfigMap", NameOf(w))
      /\ GroupEnvMap(s, w[2], d) # Panic => e.key = Key("ConfigMap", <<"envs">>)
      /\ l.key = Key(WorkloadKind(w[1]), NameOf(w))
      /\ u.key = Key("Service", NameOf(w))
      /\ m.key = Key("Service", CreateServiceMetricsName(w[1], w[2]))
      /\ WorkloadKind(w[1]) \in WorkloadKinds
  BY <1>1, BlockKeys, Zenon
<1>3. /\ c.key.kind = "ConfigMap"
      /\ GroupEnvMap(s, w[2], d) # Panic => e.key.kind = "ConfigMap" /\ e.key.name = <<"envs">>
      /\ l.key.kind \in WorkloadKinds /\ u.key.kind = "Service" /\ m.key.kind = "Service"
  BY <1>2, KeyFields
<1> HIDE DEF b, c, e, l, u, m
<1>4. CASE w[1] = "master" /\ GroupEnvMap(s, w[2], d) # Panic /\ b = <<c, e, l, u, m>>
  <2>1. k \in 1..5 /\ DOMAIN b = 1..5 /\ b[1] = c /\ b[2] = e /\ b[3] = l /\ b[4] = u /\ b[5] = m
    BY <1>4 DEF b
  <2> QED BY <1>3, <1>4, <2>1 DEF WorkloadKinds, b, c, l
<1>5. CASE w[1] # "master" /\ (w[1] = "api" => ApiServer(s, d).out = "ok") /\ b = <<c, l, u, m>>
  <2>1. k \in 1..4 /\ DOMAIN b = 1..4 /\ b[1] = c /\ b[2] = l /\ b[3] = u /\ b[4] = m
    BY <1>5 DEF b
  <2> QED BY <1>3, <1>5, <2>1 DEF WorkloadKinds, b, c, l
<1>6. CASE b = <<m>>
  <2>1. k = 1 /\ b[1] = m
    BY <1>6 DEF b
  <2> QED BY <1>3, <2>1 DEF WorkloadKinds, b
<1> QED BY <1>1, <1>4, <1>5, <1>6, Zenon

-----------------------------------------------------------------------------
(* The container of a server *)

LdapMount == <<[name |-> LdapVolumeName, subPath |-> ""]>>

\* The settings of the API server, where the CR has some.
SettingsOf(s, d) == AuthenticationOf(s.clusterConfig.authentication, d.classes)

\* What the calls on a role's container builder come to.
LEMMA RoleContainerFields ==
    ASSUME NEW r
    PROVE  /\ RoleContainer(r).argsScript = RoleScript
           /\ RoleContainer(r).volumeMounts = commonVolumeMounts
           /\ RoleContainer(r).envs = <<r, "REGISTRY_ZOOKEEPER_CONNECT_STRING">>
           /\ DOMAIN RoleContainer(r) =
                {"envs", "ports", "probe", "args", "argsScript", "volumeMounts"}
<1> DEFINE b0 == NewContainerBuilder
           b1 == CommonCommandArgs(b0)
           b2 == WithPorts(b1, Ports(r))
           b3 == WithEnvs(b2, r)
           b4 == WithReadinessAndLivenessProbe(b3, GetMetricsPort(r))
           b5 == CommonCommandArgs(b4)
           D  == {"envs", "ports", "probe", "args", "argsScript", "volumeMounts"}
           m  == commonVolumeMounts
           e  == <<r, "REGISTRY_ZOOKEEPER_CONNECT_STRING">>
<1>1. b0.envs = <<>> /\ b0.volumeMounts = m /\ DOMAIN b0 = D
  BY Zenon DEF NewContainerBuilder
<1>2. b1.envs = <<>> /\ b1.volumeMounts = m /\ DOMAIN b1 = D
  BY <1>1, Zenon DEF CommonCommandArgs
<1>3. b2.envs = <<>> /\ b2.volumeMounts = m /\ DOMAIN b2 = D
  <2> HIDE DEF b1
  <2> QED BY <1>2, Zenon DEF WithPorts
<1>4. b3.envs = e /\ b3.volumeMounts = m /\ DOMAIN b3 = D
  <2> HIDE DEF b2
  <2>1. b3.envs = b2.envs \o e /\ b3.volumeMounts = m /\ DOMAIN b3 = D
    BY <1>3, Zenon DEF WithEnvs
  <2>2. <<>> \o e = e
    <3>1. e \in Seq({r, "REGISTRY_ZOOKEEPER_CONNECT_STRING"})
      OBVIOUS
    <3> QED BY <3>1, NothingMore, Zenon
  <2> QED BY <1>3, <2>1, <2>2, Zenon
<1>5. b4.envs = e /\ b4.volumeMounts = m /\ DOMAIN b4 = D
  <2> HIDE DEF b3
  <2> QED BY <1>4, Zenon DEF WithReadinessAndLivenessProbe
<1>6. b5.envs = e /\ b5.volumeMounts = m /\ DOMAIN b5 = D /\ b5.argsScript = RoleScript
  <2> HIDE DEF b4
  <2> QED BY <1>5, Zenon DEF CommonCommandArgs
<1>7. RoleContainer(r) = WithVolumeMounts(b5, <<>>)
  BY Zenon DEF RoleContainer
<1> HIDE DEF b5
<1>8. m \o <<>> = m
  <2>1. m \in Seq({m[1], m[2]})
    BY DEF commonVolumeMounts
  <2> QED BY <2>1, NothingMore, Zenon
<1> QED BY <1>6, <1>7, <1>8, Zenon DEF WithVolumeMounts

\* An API server without entries in the CR, with variables only, and with the
\* volume of an LDAP class too.
PlainApi(s, d) ==
    /\ s.clusterConfig.authentication = Nil
    /\ ApiServer(s, d).val.b = RoleContainer("api") /\ ApiServer(s, d).val.volumes = EmptyMap

ApiEnvs(s, d) ==
    /\ s.clusterConfig.authentication # Nil /\ SettingsOf(s, d).out = "ok"
    /\ ApiServer(s, d).val.b.envs =
         <<"api", "REGISTRY_ZOOKEEPER_CONNECT_STRING">>
           \o <<SettingsOf(s, d).val.config, "REGISTRY_ZOOKEEPER_CONNECT_STRING">>

OidcApi(s, d) ==
    /\ ApiEnvs(s, d) /\ SettingsOf(s, d).val.ldapVolume = Nil
    /\ ApiServer(s, d).val.b.argsScript = RoleScript
    /\ ApiServer(s, d).val.b.volumeMounts = commonVolumeMounts
    /\ ApiServer(s, d).val.volumes = EmptyMap

LdapApi(s, d) ==
    /\ ApiEnvs(s, d) /\ SettingsOf(s, d).val.ldapVolume # Nil
    /\ ApiServer(s, d).val.b.volumeMounts = commonVolumeMounts \o LdapMount
    /\ ApiServer(s, d).val.volumes = [x \in {LdapVolumeName} |-> SettingsOf(s, d).val.ldapVolume]

\* What authentication makes of the API server's builder: nothing without entries
\* in the CR; otherwise it adds the variables and, with an LDAP class, the volume,
\* its mount and the export of the credentials.
LEMMA ApiServerFields ==
    ASSUME NEW s, NEW d, ApiServer(s, d).out = "ok"
    PROVE  PlainApi(s, d) \/ OidcApi(s, d) \/ LdapApi(s, d)
<1> DEFINE c  == RoleContainer("api")
           au == SettingsOf(s, d)
           e  == <<"api", "REGISTRY_ZOOKEEPER_CONNECT_STRING">>
           withEnv == WithEnvs(c, au.val.config)
           mounted == WithVolumeMounts(withEnv, LdapMount)
           reset   == ResetCommandArgs(mounted, apiServerCommandArgs(mounted))
           D  == {"envs", "ports", "probe", "args", "argsScript", "volumeMounts"}
<1>1. CASE s.clusterConfig.authentication = Nil
  BY <1>1, Zenon DEF ApiServer, authentication, Ok, PlainApi
<1>2. CASE s.clusterConfig.authentication # Nil
  <2>1. ApiServer(s, d) = Then(au, LAMBDA auth :
            IF auth.ldapVolume = Nil THEN Ok([b |-> WithEnvs(c, auth.config), volumes |-> EmptyMap])
            ELSE Ok([b |-> ResetCommandArgs(WithVolumeMounts(WithEnvs(c, auth.config), LdapMount),
                              apiServerCommandArgs(WithVolumeMounts(WithEnvs(c, auth.config), LdapMount))),
                     volumes |-> [x \in {LdapVolumeName} |-> auth.ldapVolume]]))
    BY <1>2, Zenon DEF ApiServer, authentication, SettingsOf, LdapMount
  <2>2. au.out = "ok"
    BY <2>1, Zenon DEF Then
  <2>3. ApiServer(s, d) =
            IF au.val.ldapVolume = Nil THEN Ok([b |-> withEnv, volumes |-> EmptyMap])
            ELSE Ok([b |-> reset, volumes |-> [x \in {LdapVolumeName} |-> au.val.ldapVolume]])
    BY <2>1, <2>2, Zenon DEF Then
  <2>4. /\ c.argsScript = RoleScript /\ c.volumeMounts = commonVolumeMounts
        /\ c.envs = e /\ DOMAIN c = D
    BY RoleContainerFields, Zenon
  <2> HIDE DEF c, au
  <2>5. /\ withEnv.envs = e \o <<au.val.config, "REGISTRY_ZOOKEEPER_CONNECT_STRING">>
        /\ withEnv.argsScript = RoleScript /\ withEnv.volumeMounts = commonVolumeMounts
        /\ DOMAIN withEnv = D
    BY <2>4, Zenon DEF WithEnvs
  <2> HIDE DEF withEnv, e
  <2>6. /\ mounted.envs = withEnv.envs /\ DOMAIN mounted = D
        /\ mounted.volumeMounts = commonVolumeMounts \o LdapMount
    BY <2>5, Zenon DEF WithVolumeMounts
  <2> HIDE DEF mounted
  <2>7. reset.envs = withEnv.envs /\ reset.volumeMounts = commonVolumeMounts \o LdapMount
    BY <2>6, Zenon DEF ResetCommandArgs
  <2> HIDE DEF reset
  <2>8. CASE au.val.ldapVolume = Nil
    <3>1. ApiServer(s, d).val.b = withEnv /\ ApiServer(s, d).val.volumes = EmptyMap
      BY <2>3, <2>8 DEF Ok
    <3> QED BY <1>2, <2>2, <2>5, <2>8, <3>1, Zenon DEF OidcApi, ApiEnvs, au, e
  <2>9. CASE au.val.ldapVolume # Nil
    <3>1. /\ ApiServer(s, d).val.b = reset
          /\ ApiServer(s, d).val.volumes = [x \in {LdapVolumeName} |-> au.val.ldapVolume]
      BY <2>3, <2>9 DEF Ok
    <3> QED BY <1>2, <2>2, <2>5, <2>7, <2>9, <3>1, Zenon DEF LdapApi, ApiEnvs, au, e
  <2> QED BY <2>8, <2>9, Zenon
<1> QED BY <1>1, <1>2, Zenon

\* A server without the volume of LDAP runs the script of the roles, and mounts
\* the two files of its config map.
LEMMA PlainServer ==
    ASSUME NEW s, NEW r, NEW d, r = "api" => ApiServer(s, d).out = "ok",
           LdapVolumeName \notin DOMAIN ServerOf(s, r, d).volumes
    PROVE  /\ ServerOf(s, r, d).b.argsScript = RoleScript
           /\ ServerOf(s, r, d).b.volumeMounts = commonVolumeMounts
           /\ ServerOf(s, r, d).volumes = EmptyMap
<1>1. CASE r # "api"
  <2>1. ServerOf(s, r, d).b = RoleContainer(r) /\ ServerOf(s, r, d).volumes = EmptyMap
    BY <1>1, Zenon DEF ServerOf
  <2> QED BY <2>1, RoleContainerFields, Zenon
<1>2. CASE r = "api"
  <2> DEFINE b == ApiServer(s, d).val.b
             v == ApiServer(s, d).val.volumes
             l == SettingsOf(s, d).val.ldapVolume
  <2>1. ServerOf(s, r, d).b = b /\ ServerOf(s, r, d).volumes = v
    BY <1>2, Zenon DEF ServerOf
  <2>2. PlainApi(s, d) \/ OidcApi(s, d) \/ LdapApi(s, d)
    BY <1>2, ApiServerFields, Zenon
  <2>3. ~LdapApi(s, d)
    <3>1. LdapApi(s, d) => v = [x \in {LdapVolumeName} |-> l]
      BY Zenon DEF LdapApi
    <3> HIDE DEF v, l
    <3> QED BY <2>1, <3>1, Zenon
  <2>4. CASE PlainApi(s, d)
    BY <2>1, <2>4, RoleContainerFields, ZenonT(30) DEF PlainApi
  <2>5. CASE OidcApi(s, d)
    BY <2>1, <2>5, Zenon DEF OidcApi
  <2> QED BY <2>2, <2>3, <2>4, <2>5, Zenon
<1> QED BY <1>1, <1>2, Zenon

\* The container, the volumes and the other fields of a workload of the list.
LEMMA WorkloadFields ==
    ASSUME NEW s, NEW r, NEW g, NEW d, GroupWorkload(s, r, g, d).obj # Error
    PROVE  LET o == GroupWorkload(s, r, g, d).obj
           IN  /\ o.containers[1].script = ServerOf(s, r, d).b.argsScript
               /\ o.containers[1].volumeMounts = ServerOf(s, r, d).b.volumeMounts
               /\ o.containers[1].envs = ServerOf(s, r, d).b.envs
               /\ o.containers[1].resources = <<ConfigOf(s, r, g)["cpu"], ConfigOf(s, r, g)["memory"]>>
               /\ o.volumes = MapsCopy(commonVolumes(r, g), ServerOf(s, r, d).volumes)
               /\ o.grace = ConfigOf(s, r, g)["grace"]
               /\ o.pvcs = ClaimsOf(s, r, g)
<1>1. GroupWorkload(s, r, g, d).obj.containers[1] =
        BuildContainer(s, ServerOf(s, r, d).b, ConfigOf(s, r, g))
  BY ServerContainer, Zenon
<1>2. GroupWorkload(s, r, g, d).obj = WorkloadSpec(s, r, g, d)
  BY WorkloadShape, Zenon
<1>3. /\ WorkloadSpec(s, r, g, d).volumes = MapsCopy(commonVolumes(r, g), ServerOf(s, r, d).volumes)
      /\ WorkloadSpec(s, r, g, d).grace = ConfigOf(s, r, g)["grace"]
      /\ WorkloadSpec(s, r, g, d).pvcs = ClaimsOf(s, r, g)
  BY Zenon DEF WorkloadSpec
<1>4. LET c == BuildContainer(s, ServerOf(s, r, d).b, ConfigOf(s, r, g))
      IN  /\ c.script = ServerOf(s, r, d).b.argsScript
          /\ c.volumeMounts = ServerOf(s, r, d).b.volumeMounts
          /\ c.envs = ServerOf(s, r, d).b.envs
          /\ c.resources = <<ConfigOf(s, r, g)["cpu"], ConfigOf(s, r, g)["memory"]>>
  BY Zenon DEF BuildContainer
<1> QED BY <1>1, <1>2, <1>3, <1>4, Zenon

\* The roles' script starts the server once.
LEMMA ScriptOnce ==
    /\ {n \in DOMAIN RoleScript : RoleScript[n] = "start"} = {4}
    /\ RoleScript[1] = "trap" /\ RoleScript[Len(RoleScript)] = "createShutdownFile"
    /\ 4 \in DOMAIN RoleScript
<1>1. {n \in DOMAIN RoleScript : RoleScript[n] = "start"} = {4} /\ 4 \in DOMAIN RoleScript
  BY DEF RoleScript
<1>2. RoleScript[1] = "trap" /\ Len(RoleScript) = 6 /\ RoleScript[6] = "createShutdownFile"
  BY Zenon DEF RoleScript
<1> QED BY <1>1, <1>2, Zenon

-----------------------------------------------------------------------------
(* What the resources of a role group depend on *)

\* The CRs s and t say the same to the role r, but for clusterOperation.
SameFor(s, t, r) ==
    /\ s.roles[r] = t.roles[r] /\ s.clusterConfig = t.clusterConfig
    /\ s.productVersion = t.productVersion

\* Building a role group panics only where one of its parts does.
LEMMA GroupPanics ==
    ASSUME NEW s, NEW r \in Roles, NEW g, NEW d
    PROVE  GroupReconcilers(s, r, g, d) = Panic <=>
             \/ GroupConfigMap(s, r, g, d) = Panic
             \/ r = "master" /\ GroupEnvMap(s, g, d) = Panic
             \/ r = "api" /\ ApiServer(s, d) = Panic
<1> DEFINE rs == ResourceReconcilers(s, r, g, ConfigOf(s, r, g), OverridesOf(s, r, g), d)
           c  == GroupConfigMap(s, r, g, d)
           e  == GroupEnvMap(s, g, d)
           a  == ApiServer(s, d)
<1>1. ASSUME GroupReconcilers(s, r, g, d) # Panic
      PROVE  c # Panic /\ (r = "master" => e # Panic) /\ (r = "api" => a # Panic)
  <2>1. CASE r = "master"
    BY <1>1, <2>1, MasterShape, Zenon
  <2>2. CASE r \in {"worker", "alert"}
    BY <1>1, <2>2, PlainShape
  <2>3. CASE r = "api"
    <3>1. c # Panic /\ (a.out = "ok" \/ a = Error)
      BY <1>1, <2>3, ApiShape, Zenon
    <3> QED BY <2>3, <3>1 DEF Error, Panic
  <2> QED BY <2>1, <2>2, <2>3, Zenon DEF Roles
<1>2. ASSUME c # Panic, r = "master" => e # Panic, r = "api" => a # Panic
      PROVE  GroupReconcilers(s, r, g, d) # Panic
  <2>1. rs # Panic
    <3>1. CASE r = "master"
      BY <1>2, <3>1, Zenon DEF ResourceReconcilers, MasterResources, UnlessPanic, GroupConfigMap,
                        GroupEnvMap, Ok, Panic
    <3>2. CASE r = "worker"
      BY <1>2, <3>2, Zenon DEF ResourceReconcilers, WorkerResources, UnlessPanic, GroupConfigMap, Ok, Panic
    <3>3. CASE r = "alert"
      BY <1>2, <3>3, Zenon DEF ResourceReconcilers, AlertResources, UnlessPanic, GroupConfigMap, Ok, Panic
    <3>4. CASE r = "api"
      <4>1. a.out = "ok" \/ a = Error
        BY <1>2, <3>4, AuthenticationEnds, Zenon DEF ApiServer
      <4>2. rs = OnError(Then(a, LAMBDA auth :
                   Ok(<<c.val, Workload("Deployment", s, "api", g, ConfigOf(s, "api", g),
                                        OverridesOf(s, "api", g), auth.b, auth.volumes, <<>>),
                        NewServiceReconciler("api", g, FALSE)>>)), <<>>)
        BY <1>2, <3>4 DEF ResourceReconcilers, ApiResources, UnlessPanic, GroupConfigMap, ApiServer
      <4> HIDE DEF rs, a, c
      <4>3. CASE a.out = "ok"
        BY <4>2, <4>3, Zenon DEF OnError, Then, Ok, Error, Panic
      <4>4. CASE a = Error
        BY <4>2, <4>4, Zenon DEF OnError, Then, Ok, Error, Panic
      <4> QED BY <4>1, <4>3, <4>4, Zenon
    <3> QED BY <3>1, <3>2, <3>3, <3>4, Zenon DEF Roles
  <2>2. GroupReconcilers(s, r, g, d) =
          UnlessPanic(rs, LAMBDA x : Ok(Append(x, NewRoleGroupMetricsService(r, g))))
    BY Zenon DEF GroupReconcilers, ConfigOf, OverridesOf
  <2> HIDE DEF rs
  <2> QED BY <2>1, <2>2 DEF UnlessPanic, Ok, Panic
<1> QED BY <1>1, <1>2, Zenon

\* The config maps and the API server's settings are the same for two such CRs.
LEMMA SameParts ==
    ASSUME NEW s, NEW t, NEW r, NEW g, NEW d, SameFor(s, t, r)
    PROVE  /\ ConfigOf(s, r, g) = ConfigOf(t, r, g) /\ OverridesOf(s, r, g) = OverridesOf(t, r, g)
           /\ GroupConfigMap(s, r, g, d) = GroupConfigMap(t, r, g, d)
           /\ r = "master" => GroupEnvMap(s, g, d) = GroupEnvMap(t, g, d)
           /\ ApiServer(s, d) = ApiServer(t, d)
           /\ ServerOf(s, r, d) = ServerOf(t, r, d)
           /\ ClaimsOf(s, r, g) = ClaimsOf(t, r, g)
           /\ GetImage(s) = GetImage(t)
<1>1. ConfigOf(s, r, g) = ConfigOf(t, r, g) /\ OverridesOf(s, r, g) = OverridesOf(t, r, g)
  BY Zenon DEF SameFor, ConfigOf, OverridesOf
<1> DEFINE c == ConfigOf(t, r, g)
           o == OverridesOf(t, r, g)
<1>2. s.clusterConfig = t.clusterConfig /\ GetImage(s) = GetImage(t)
  BY Zenon DEF SameFor, GetImage
<1>3. CommonPropertiesGenerate(s, o, d) = CommonPropertiesGenerate(t, o, d)
  BY <1>2, Zenon DEF CommonPropertiesGenerate
<1>4. CommonFile(s, o, d) = CommonFile(t, o, d)
  BY <1>3, Zenon DEF CommonFile
<1>5. VectorFile(s, c, d) = VectorFile(t, c, d)
  BY <1>2, Zenon DEF VectorFile
<1>6. NewConfigMapReconciler(s, r, g, c, o, d) = NewConfigMapReconciler(t, r, g, c, o, d)
  BY <1>4, <1>5 DEF NewConfigMapReconciler
<1>7. GroupConfigMap(s, r, g, d) = GroupConfigMap(t, r, g, d)
  BY <1>1, <1>6, Zenon DEF GroupConfigMap
<1>8. r = "master" => GroupEnvMap(s, g, d) = GroupEnvMap(t, g, d)
  <2>1. NewEnvConfigMapReconciler(s, r, g, o, d) = NewEnvConfigMapReconciler(t, r, g, o, d)
    BY <1>2, Zenon DEF NewEnvConfigMapReconciler
  <2> QED BY <1>1, <2>1, Zenon DEF GroupEnvMap
<1>9. ApiServer(s, d) = ApiServer(t, d)
  BY <1>2, Zenon DEF ApiServer, authentication
<1>10. ServerOf(s, r, d) = ServerOf(t, r, d)
  BY <1>9, Zenon DEF ServerOf
<1>11. ClaimsOf(s, r, g) = ClaimsOf(t, r, g)
  BY <1>1, Zenon DEF ClaimsOf
<1> QED BY <1>1, <1>2, <1>7, <1>8, <1>9, <1>10, <1>11, Zenon

\* The workload, too, but for its replicas.
LEMMA SameWorkload ==
    ASSUME NEW s, NEW t, NEW r, NEW g, NEW d, SameFor(s, t, r)
    PROVE  /\ GroupWorkload(s, r, g, d).key = GroupWorkload(t, r, g, d).key
           /\ s.stopped = t.stopped => GroupWorkload(s, r, g, d) = GroupWorkload(t, r, g, d)
           /\ t.stopped =>
                GroupWorkload(t, r, g, d) =
                  IF GroupWorkload(s, r, g, d).obj # Error
                  THEN [GroupWorkload(s, r, g, d) EXCEPT !.obj.replicas = 0]
                  ELSE GroupWorkload(s, r, g, d)
<1> DEFINE c == ConfigOf(t, r, g)
           a == ExtractAffinity(c)
           k == Key(WorkloadKind(r), FullName(r, g))
           n == VectorDecorator(<<BuildContainer(t, ServerOf(t, r, d).b, c)>>, c)
           v == MapsCopy(commonVolumes(r, g), ServerOf(t, r, d).volumes)
           e == OverridesOf(t, r, g).env
           p == ClaimsOf(t, r, g)
           x(q) == [key |-> k,
                    obj |-> IF a = Error THEN Error
                            ELSE [replicas |-> q, containers |-> n, volumes |-> v,
                                  affinity |-> a.val, grace |-> c["grace"], env |-> e,
                                  serviceAccount |-> <<"dolphinscheduler">>, pvcs |-> p]]
<1>1. /\ ConfigOf(s, r, g) = c /\ OverridesOf(s, r, g) = OverridesOf(t, r, g)
      /\ ServerOf(s, r, d) = ServerOf(t, r, d) /\ ClaimsOf(s, r, g) = p /\ GetImage(s) = GetImage(t)
  BY SameParts
<1>2. BuildContainer(s, ServerOf(t, r, d).b, c) = BuildContainer(t, ServerOf(t, r, d).b, c)
  BY <1>1, Zenon DEF BuildContainer
<1>3. GroupWorkload(t, r, g, d) = x(Replicas(t, r, g))
  BY Zenon DEF GroupWorkload, Workload, Resource, Key
<1>4. GroupWorkload(s, r, g, d) = x(Replicas(s, r, g))
  BY <1>1, <1>2, Zenon DEF GroupWorkload, Workload, Resource, Key
<1>5. s.stopped = t.stopped => Replicas(s, r, g) = Replicas(t, r, g)
  BY Zenon DEF SameFor, Replicas
<1>6. t.stopped => Replicas(t, r, g) = 0
  BY Zenon DEF Replicas
<1>7. PICK i, j : i = Replicas(s, r, g) /\ j = Replicas(t, r, g)
  OBVIOUS
<1> HIDE DEF c, a, k, n, v, e, p
<1>8. j = 0 => x(j) = IF x(i).obj # Error THEN [x(i) EXCEPT !.obj.replicas = 0] ELSE x(i)
  <2>1. CASE a = Error
    BY <2>1, Zenon
  <2>2. CASE a # Error
    <3>1. x(i).obj # Error
      BY <2>2, Zenon DEF Error
    <3> QED BY <2>2, <3>1, Zenon
  <2> QED BY <2>1, <2>2, Zenon
<1>9. x(i).key = x(j).key
  OBVIOUS
<1> HIDE DEF x
<1> QED BY <1>3, <1>4, <1>5, <1>6, <1>7, <1>8, <1>9, Zenon

\* What is built for a role group depends on the settings of its role and of the
\* cluster only.
LEMMA SameGroup ==
    ASSUME NEW s, NEW t, NEW r \in Roles, NEW g, NEW d, SameFor(s, t, r), s.stopped = t.stopped
    PROVE  GroupReconcilers(s, r, g, d) = GroupReconcilers(t, r, g, d)
<1>1. /\ GroupConfigMap(s, r, g, d) = GroupConfigMap(t, r, g, d)
      /\ r = "master" => GroupEnvMap(s, g, d) = GroupEnvMap(t, g, d)
      /\ ApiServer(s, d) = ApiServer(t, d)
      /\ GroupWorkload(s, r, g, d) = GroupWorkload(t, r, g, d)
  BY SameParts, SameWorkload
<1>2. GroupReconcilers(s, r, g, d) = Panic <=> GroupReconcilers(t, r, g, d) = Panic
  BY <1>1, GroupPanics
<1>3. CASE GroupReconcilers(s, r, g, d) # Panic /\ GroupReconcilers(t, r, g, d) # Panic
  <2>1. \E x, y : GroupReconcilers(s, r, g, d) = Ok(x) /\ GroupReconcilers(t, r, g, d) = Ok(y)
    <3>1. \A q : GroupReconcilers(q, r, g, d) # Panic => \E x : GroupReconcilers(q, r, g, d) = Ok(x)
      BY GroupOfRole
    <3> QED BY <1>3, <3>1, Zenon
  <2>2. GroupReconcilers(s, r, g, d).val = GroupReconcilers(t, r, g, d).val
    <3>1. CASE r = "master"
      BY <1>1, <1>3, <3>1, MasterShape, Zenon
    <3>2. CASE r \in {"worker", "alert"}
      <4>1. \A q : GroupReconcilers(q, r, g, d) # Panic =>
                     GroupReconcilers(q, r, g, d).val =
                       <<GroupConfigMap(q, r, g, d).val, GroupWorkload(q, r, g, d),
                         GroupService(r, g), NewRoleGroupMetricsService(r, g)>>
        BY <3>2, PlainShape
      <4> QED BY <1>1, <1>3, <4>1, Zenon
    <3>3. CASE r = "api"
      BY <1>1, <1>3, <3>3, ApiShape DEF Error
    <3> QED BY <3>1, <3>2, <3>3, Zenon DEF Roles
  <2> QED BY <2>1, <2>2 DEF Ok
<1> QED BY <1>2, <1>3, Zenon

-----------------------------------------------------------------------------
(* The files of the config maps *)

\* The S3 settings of a CR are absent or can be resolved.
S3Resolves(s, d) ==
    \/ s.clusterConfig.s3 = Nil
    \/ GetS3Config(s.clusterConfig.s3, d.connections, d.secrets).out = "ok"

\* GetS3Config returns or fails, and never panics: a connection that is found is
\* the inline one, whose endpoint can be read.
LEMMA S3Ends ==
    ASSUME NEW s3, NEW cs, NEW secrets
    PROVE  GetS3Config(s3, cs, secrets).out = "ok" \/ GetS3Config(s3, cs, secrets) = Error
<1>1. CASE s3.connection = Nil
  BY <1>1, Zenon DEF GetS3Config
<1>2. CASE s3.connection # Nil /\ s3.connection.reference # ""
  <2>1. GetS3ConfigFromConnectionReferenceName(s3, cs, secrets) = Error
    BY Zenon DEF GetS3ConfigFromConnectionReferenceName, SchemeGroups
  <2> QED BY <1>2, <2>1, Zenon DEF GetS3Config
<1>3. CASE s3.connection # Nil /\ s3.connection.reference = ""
  <2> DEFINE c == s3.connection.inline
             x == GetS3SecretData(secrets, c.credentials)
             e == GetS3ConnectionInlineEndpoint(s3)
             f == GetS3ConfigFromConnectionSpec(s3, c, secrets)
  <2>1. x.out = "ok" \/ x = Error
    BY Zenon DEF GetS3SecretData, Ok
  <2>2. c # Nil => e.out = "ok"
    BY Zenon DEF GetS3ConnectionInlineEndpoint, Ok
  <2>3. f = Then(x, LAMBDA data : Then(e, LAMBDA endpoint :
                Ok([bucket |-> s3.bucket, endpoint |-> endpoint, keys |-> data])))
    BY Zenon DEF GetS3ConfigFromConnectionSpec
  <2>4. GetS3Config(s3, cs, secrets) = IF c = Nil THEN Error ELSE f
    BY <1>3, Zenon DEF GetS3Config, GetS3ConfigFromConnectionInline
  <2> HIDE DEF c, x, e, f
  <2>5. CASE c = Nil
    BY <2>4, <2>5, Zenon
  <2>6. CASE c # Nil /\ x = Error
    <3>1. f = Error
      BY <2>3, <2>6, Zenon DEF Then, Error
    <3> QED BY <2>4, <2>6, <3>1, Zenon
  <2>7. CASE c # Nil /\ x.out = "ok"
    <3>1. f.out = "ok"
      BY <2>2, <2>3, <2>7, Zenon DEF Then, Ok
    <3> QED BY <2>4, <2>7, <3>1, Zenon
  <2> QED BY <2>1, <2>5, <2>6, <2>7, Zenon
<1> QED BY <1>1, <1>2, <1>3, Zenon

\* GenerateAllFile has common.properties, unless the S3 settings do not resolve.
LEMMA CommonFileIs ==
    ASSUME NEW s, NEW o, NEW d
    PROVE  /\ CommonFile(s, o, d).out = "ok"
           /\ DOMAIN CommonFile(s, o, d).val = IF S3Resolves(s, d) THEN {CommonProperties} ELSE {}
<1> DEFINE z == s.clusterConfig.s3
           x == GetS3Config(z, d.connections, d.secrets)
           y == CommonPropertiesGenerate(s, o, d)
           f == CommonFile(s, o, d)
<1>1. x.out = "ok" \/ x = Error
  BY S3Ends, Zenon
<1>2. f = OnError(Then(y, LAMBDA common : Ok([k \in {CommonProperties} |-> common])), EmptyMap)
  BY Zenon DEF CommonFile
<1>3. S3Resolves(s, d) <=> z = Nil \/ x.out = "ok"
  BY Zenon DEF S3Resolves
<1>4. z = Nil \/ x.out = "ok" => y.out = "ok"
  BY Zenon DEF CommonPropertiesGenerate, Then, Ok
<1>5. z # Nil /\ x = Error => y = Error
  BY DEF CommonPropertiesGenerate, Then, Error
<1> HIDE DEF x, y, z, f
<1>6. CASE y.out = "ok"
  <2>1. f = Ok([k \in {CommonProperties} |-> y.val])
    BY <1>2, <1>6, Zenon DEF OnError, Then, Ok, Error
  <2>2. y # Error
    BY <1>6 DEF Error
  <2>3. f.out = "ok" /\ DOMAIN f.val = {CommonProperties}
    BY <2>1, Zenon DEF Ok
  <2> QED BY <1>1, <1>3, <1>5, <2>2, <2>3, Zenon DEF f
<1>7. CASE z # Nil /\ x = Error
  <2>1. f = Ok(EmptyMap)
    BY <1>2, <1>5, <1>7 DEF OnError, Then, Error
  <2>2. f.out = "ok" /\ DOMAIN f.val = {}
    BY <2>1, Zenon DEF Ok, EmptyMap
  <2>3. x.out # "ok"
    BY <1>7, Zenon DEF Error
  <2> QED BY <1>3, <1>7, <2>2, <2>3, Zenon DEF f
<1> QED BY <1>1, <1>4, <1>6, <1>7, Zenon

\* The files of a role group's config map.
LEMMA FilesAre ==
    ASSUME NEW s, NEW r, NEW g, NEW d
    PROVE  DOMAIN ConfigFiles(s, r, g, d) =
             (IF S3Resolves(s, d) THEN {CommonProperties} ELSE {})
             \cup (IF /\ IsVectorEnable(ConfigOf(s, r, g)) = Ok(TRUE)
                      /\ s.clusterConfig.vectorAggregator \in d.aggregators
                   THEN {"vector.yaml"} ELSE {})
             \cup {LogbackPropertiesFileName}
<1> DEFINE f == CommonFile(s, OverridesOf(s, r, g), d).val
           v == VectorFile(s, ConfigOf(s, r, g), d)
           l == [x \in {LogbackPropertiesFileName} |-> LogbackXmlGenerate(r, ConfigOf(s, r, g))]
<1>1. DOMAIN f = IF S3Resolves(s, d) THEN {CommonProperties} ELSE {}
  BY CommonFileIs, Zenon
<1>2. DOMAIN v = IF /\ IsVectorEnable(ConfigOf(s, r, g)) = Ok(TRUE)
                    /\ s.clusterConfig.vectorAggregator \in d.aggregators
                 THEN {"vector.yaml"} ELSE {}
  BY Zenon DEF VectorFile, EmptyMap
<1>3. DOMAIN l = {LogbackPropertiesFileName}
  OBVIOUS
<1>4. ConfigFiles(s, r, g, d) = MapsCopy(MapsCopy(f, v), l)
  BY Zenon DEF ConfigFiles
<1> HIDE DEF f, v, l
<1>5. DOMAIN MapsCopy(MapsCopy(f, v), l) = DOMAIN f \cup DOMAIN v \cup DOMAIN l
  BY Zenon DEF MapsCopy
<1> QED BY <1>1, <1>2, <1>3, <1>4, <1>5, Zenon

\* The volume of the LDAP credentials is one of the secret operator.
LEMMA CredentialsVolume ==
    ASSUME NEW bind
    PROVE  /\ AddLdapCredintialsVolumesAndVolumeMounts(bind).secretClass = bind.secretClass
           /\ "configMap" \notin DOMAIN AddLdapCredintialsVolumesAndVolumeMounts(bind)
  BY Zenon DEF AddLdapCredintialsVolumesAndVolumeMounts

\* What Authentication returns when it returns: the providers of the entries, the
\* variables made of them, and the volume of the first LDAP provider.
LEMMA SettingsShape ==
    ASSUME NEW es, NEW classes, AuthenticationOf(es, classes).out = "ok"
    PROVE  LET ps == resolveAuthentications(es, classes).val
               a  == AuthenticationOf(es, classes).val
           IN  /\ resolveAuthentications(es, classes).out = "ok"
               /\ createAuthenticationConfig(ps).out = "ok"
               /\ a.config = createAuthenticationConfig(ps).val
               /\ LdapVolume(ps).out = "ok" /\ a.ldapVolume = LdapVolume(ps).val
<1> DEFINE rs == resolveAuthentications(es, classes)
           cs == createAuthenticationConfig(rs.val)
           ls == LdapVolume(rs.val)
           au == AuthenticationOf(es, classes)
<1>1. au = Then(rs, LAMBDA ps : Then(createAuthenticationConfig(ps), LAMBDA c :
                Then(LdapVolume(ps), LAMBDA v : Ok([config |-> c, ldapVolume |-> v]))))
  BY Zenon DEF AuthenticationOf
<1>2. rs.out = "ok" /\ cs.out = "ok" /\ ls.out = "ok"
  <2> HIDE DEF rs, au
  <2> QED BY <1>1, Zenon DEF Then, au
<1>3. au = Ok([config |-> cs.val, ldapVolume |-> ls.val])
  BY <1>1, <1>2, Zenon DEF Then
<1> QED BY <1>2, <1>3 DEF Ok

\* What a server mounts: two files of its config map and, with LDAP, the volume of
\* the credentials.
LEMMA MountsAre ==
    ASSUME NEW s, NEW r, NEW d, r = "api" => ApiServer(s, d).out = "ok",
           NEW m \in Range(ServerOf(s, r, d).b.volumeMounts)
    PROVE  LET v == ServerOf(s, r, d).volumes
           IN  /\ v = EmptyMap \/ DOMAIN v = {LdapVolumeName}
               /\ \/ m.name = "common-config" /\ m.subPath = CommonProperties
                  \/ m.name = "logback" /\ m.subPath = LogbackPropertiesFileName
                  \/ /\ m.name = LdapVolumeName /\ m.name \in DOMAIN v
                     /\ "configMap" \notin DOMAIN v[m.name]
<1> DEFINE b == ServerOf(s, r, d).b
           v == ServerOf(s, r, d).volumes
<1>1. ASSUME NEW x \in Range(commonVolumeMounts)
      PROVE  \/ x.name = "common-config" /\ x.subPath = CommonProperties
             \/ x.name = "logback" /\ x.subPath = LogbackPropertiesFileName
  BY <1>1 DEF Range, commonVolumeMounts
<1>2. CASE LdapVolumeName \notin DOMAIN v
  BY <1>1, <1>2, PlainServer, Zenon
<1>3. CASE LdapVolumeName \in DOMAIN v
  <2>1. r = "api"
    BY <1>3, Zenon DEF ServerOf, EmptyMap
  <2>2. b = ApiServer(s, d).val.b /\ v = ApiServer(s, d).val.volumes /\ ApiServer(s, d).out = "ok"
    BY <2>1, Zenon DEF ServerOf
  <2>3. LdapApi(s, d)
    <3>1. PlainApi(s, d) \/ OidcApi(s, d) => v = EmptyMap
      BY <2>2, Zenon DEF PlainApi, OidcApi
    <3>2. v # EmptyMap
      BY <1>3, Zenon DEF EmptyMap
    <3> QED BY <2>2, <3>1, <3>2, ApiServerFields, Zenon
  <2> DEFINE l == SettingsOf(s, d).val.ldapVolume
  <2>4. /\ l # Nil /\ SettingsOf(s, d).out = "ok"
        /\ b.volumeMounts = commonVolumeMounts \o LdapMount
        /\ v = [x \in {LdapVolumeName} |-> l]
    BY <2>2, <2>3, Zenon DEF LdapApi, ApiEnvs
  <2>5. "configMap" \notin DOMAIN l
    <3> DEFINE ps == resolveAuthentications(s.clusterConfig.authentication, d.classes).val
    <3>1. LdapVolume(ps).out = "ok" /\ l = LdapVolume(ps).val
      BY <2>4, SettingsShape DEF SettingsOf
    <3> HIDE DEF ps, l
    <3>2. \E bind : LdapVolume(ps) = Ok(AddLdapCredintialsVolumesAndVolumeMounts(bind))
      BY <2>4, <3>1, Zenon DEF LdapVolume, Ok, Error
    <3> QED BY <3>1, <3>2, CredentialsVolume, SMTT(30) DEF Ok
  <2> HIDE DEF l, b, v
  <2>6. DOMAIN v = {LdapVolumeName} /\ v[LdapVolumeName] = l
    BY <2>4, Zenon
  <2>7. m \in Range(commonVolumeMounts) \/ m = LdapMount[1]
    <3> DEFINE M == {commonVolumeMounts[1], commonVolumeMounts[2], LdapMount[1]}
    <3>1. /\ commonVolumeMounts \in Seq(M) /\ Len(commonVolumeMounts) = 2
          /\ LdapMount \in Seq(M) /\ Len(LdapMount) = 1
      BY DEF commonVolumeMounts, LdapMount
    <3>2. /\ Len(b.volumeMounts) = 3 /\ b.volumeMounts \in Seq(M)
          /\ \A i \in 1..3 : b.volumeMounts[i] = IF i <= 2 THEN commonVolumeMounts[i] ELSE LdapMount[i - 2]
      <4>1. PICK x, y : x = commonVolumeMounts /\ y = LdapMount
        OBVIOUS
      <4> HIDE DEF M
      <4>2. /\ x \o y \in Seq(M) /\ Len(x \o y) = Len(x) + Len(y)
            /\ \A i \in 1..(Len(x) + Len(y)) : (x \o y)[i] = IF i <= Len(x) THEN x[i] ELSE y[i - Len(x)]
        BY <3>1, <4>1, Concatenation, Zenon
      <4>3. PICK z : z = x \o y
        BY Zenon
      <4>4. Len(x) = 2 /\ Len(y) = 1
        BY <3>1, <4>1, Zenon
      <4>5. Len(z) = 3 /\ \A i \in 1..3 : z[i] = IF i <= 2 THEN x[i] ELSE y[i - 2]
        BY <4>2, <4>3, <4>4
      <4>6. b.volumeMounts = z
        BY <2>4, <4>1, <4>3, Zenon
      <4> QED BY <4>1, <4>2, <4>3, <4>5, <4>6
    <3>3. \E i \in 1..3 : m = b.volumeMounts[i]
      BY <3>2 DEF Range, b
    <3> QED BY <3>1, <3>2, <3>3 DEF Range
  <2>8. LdapMount[1].name = LdapVolumeName
    BY Zenon DEF LdapMount
  <2> QED BY <1>1, <2>5, <2>6, <2>7, <2>8, Zenon DEF v
<1> QED BY <1>2, <1>3, Zenon

\* A pod has a second container only when vector is enabled for its group.
LEMMA SecondContainer ==
    ASSUME NEW s, NEW r, NEW g, NEW d, GroupWorkload(s, r, g, d).obj # Error,
           Len(GroupWorkload(s, r, g, d).obj.containers) = 2
    PROVE  IsVectorEnable(ConfigOf(s, r, g)) = Ok(TRUE)
<1> DEFINE c == ConfigOf(s, r, g)
           b == BuildContainer(s, ServerOf(s, r, d).b, c)
<1>1. GroupWorkload(s, r, g, d).obj.containers = VectorDecorator(<<b>>, c)
  <2>1. GroupWorkload(s, r, g, d).obj = WorkloadSpec(s, r, g, d)
    BY WorkloadShape, Zenon
  <2> QED BY <2>1 DEF WorkloadSpec
<1> HIDE DEF b
<1> DEFINE on == IsVectorEnable(c) = Ok(TRUE)
<1>2. ~on => VectorDecorator(<<b>>, c) = <<b>>
  BY Zenon DEF VectorDecorator
<1> HIDE DEF on
<1>3. ~on => Len(VectorDecorator(<<b>>, c)) = 1
  BY <1>2
<1>4. on
  BY <1>1, <1>3, SMTT(30)
<1> QED BY <1>4, Zenon DEF on

\* The volumes x hold those with the files of the config map n, and what v adds.
HasConfigVolumes(x, n, v) ==
    /\ "common-config" \in DOMAIN x /\ "logback" \in DOMAIN x
    /\ x["common-config"].configMap = n /\ x["common-config"].items = {}
    /\ x["logback"].configMap = n /\ x["logback"].items = {LogbackPropertiesFileName}
    /\ LdapVolumeName \in DOMAIN v =>
         LdapVolumeName \in DOMAIN x /\ x[LdapVolumeName] = v[LdapVolumeName]

\* The volumes that a server's mounts of its config map name.
LEMMA ConfigVolumes ==
    ASSUME NEW r, NEW g, NEW v, v = EmptyMap \/ DOMAIN v = {LdapVolumeName}
    PROVE  HasConfigVolumes(MapsCopy(commonVolumes(r, g), v), FullName(r, g), v)
<1> DEFINE c == commonVolumes(r, g)
           x == MapsCopy(c, v)
<1>1. /\ DOMAIN c = {"log", "common-config", "logback"}
      /\ c["common-config"] = [configMap |-> FullName(r, g), items |-> {}]
      /\ c["logback"] = [configMap |-> FullName(r, g), items |-> {LogbackPropertiesFileName}]
  BY Zenon DEF commonVolumes
<1>2. DOMAIN v \subseteq {LdapVolumeName}
  BY Zenon DEF EmptyMap
<1> HIDE DEF c
<1>3. /\ "common-config" \in DOMAIN x /\ "logback" \in DOMAIN x
      /\ x["common-config"] = c["common-config"] /\ x["logback"] = c["logback"]
      /\ LdapVolumeName \in DOMAIN v =>
           LdapVolumeName \in DOMAIN x /\ x[LdapVolumeName] = v[LdapVolumeName]
  BY <1>1, <1>2, Zenon DEF MapsCopy, LdapVolumeName
<1> HIDE DEF x
<1> QED BY <1>1, <1>3 DEF HasConfigVolumes, x, c

-----------------------------------------------------------------------------
(* The keys of a role group *)

MetricsSuffix == <<"metrics">>

\* The metrics service is named like a group whose name ends in "metrics".
LEMMA MetricsNameIs ==
    ASSUME NEW S, NEW g \in Seq(S), NEW r
    PROVE  CreateServiceMetricsName(r, g) = FullName(r, g \o MetricsSuffix)
<1> DEFINE T == S \cup {r, "metrics"}
           p == <<r>>
<1>1. p \in Seq(T) /\ g \in Seq(T) /\ MetricsSuffix \in Seq(T)
  BY DEF MetricsSuffix
<1> HIDE DEF T, p
<1>2. (p \o g) \o MetricsSuffix = p \o (g \o MetricsSuffix)
  BY <1>1, ThreeInARow, SMTT(30)
<1> QED BY <1>2, Zenon DEF CreateServiceMetricsName, FullName, MetricsSuffix, p

\* Its role and the group are the ends of the name.
LEMMA MetricsNameParts ==
    ASSUME NEW S, NEW g \in Seq(S), NEW r
    PROVE  /\ CreateServiceMetricsName(r, g)[1] = r
           /\ Tail(CreateServiceMetricsName(r, g)) = g \o MetricsSuffix
<1> DEFINE T == S \cup {"metrics"}
           h == g \o MetricsSuffix
<1>1. g \in Seq(T) /\ MetricsSuffix \in Seq(T)
  BY DEF MetricsSuffix
<1> HIDE DEF T
<1>2. h \in Seq(T)
  BY <1>1, Concatenation, Zenon
<1> HIDE DEF h
<1>3. FullName(r, h)[1] = r /\ Tail(FullName(r, h)) = h
  BY <1>2, FullNameParts, Zenon
<1>4. CreateServiceMetricsName(r, g) = FullName(r, h)
  BY MetricsNameIs, Zenon DEF h
<1> QED BY <1>3, <1>4, Zenon DEF h

MetricsNameOf(w) == CreateServiceMetricsName(w[1], w[2])

\* The keys of one block, and where each can stand.
LEMMA KeysInBlock ==
    ASSUME NEW s, NEW d, NEW w, w[1] \in Roles, GroupReconcilers(s, w[1], w[2], d) # Panic,
           NEW k \in DOMAIN BlockOf(s, d, w)
    PROVE  LET x == BlockOf(s, d, w)[k].key
               n == Len(BlockOf(s, d, w))
           IN  \/ x = Key("ConfigMap", NameOf(w)) /\ k = 1
               \/ x = Key("ConfigMap", <<"envs">>) /\ k = 2 /\ w[1] = "master"
               \/ x = Key(WorkloadKind(w[1]), NameOf(w)) /\ k = n - 2
               \/ x = Key("Service", NameOf(w)) /\ k = n - 1
               \/ x = Key("Service", MetricsNameOf(w)) /\ k = n
<1> DEFINE b == BlockOf(s, d, w)
           c == ConfigMapOf(s, d, w)
           e == EnvMapOf(s, d, w)
           l == WorkloadOf(s, d, w)
           u == ServiceOf(w)
           m == MetricsOf(w)
<1>1. /\ \/ w[1] = "master" /\ GroupEnvMap(s, w[2], d) # Panic /\ b = <<c, e, l, u, m>>
         \/ b = <<c, l, u, m>>
         \/ b = <<m>>
      /\ GroupConfigMap(s, w[1], w[2], d) # Panic
  BY BlockShape, Zenon
<1>2. /\ c.key = Key("ConfigMap", NameOf(w))
      /\ GroupEnvMap(s, w[2], d) # Panic => e.key = Key("ConfigMap", <<"envs">>)
      /\ l.key = Key(WorkloadKind(w[1]), NameOf(w))
      /\ u.key = Key("Service", NameOf(w))
      /\ m.key = Key("Service", MetricsNameOf(w))
  BY <1>1, BlockKeys DEF MetricsNameOf
<1> HIDE DEF b, c, e, l, u, m
<1>3. CASE w[1] = "master" /\ GroupEnvMap(s, w[2], d) # Panic /\ b = <<c, e, l, u, m>>
  <2>1. k \in 1..5 /\ Len(b) = 5 /\ b[1] = c /\ b[2] = e /\ b[3] = l /\ b[4] = u /\ b[5] = m
    BY <1>3, SMTT(30) DEF b
  <2> QED BY <1>2, <1>3, <2>1 DEF b
<1>4. CASE b = <<c, l, u, m>>
  <2>1. k \in 1..4 /\ Len(b) = 4 /\ b[1] = c /\ b[2] = l /\ b[3] = u /\ b[4] = m
    BY <1>4 DEF b
  <2> QED BY <1>2, <2>1 DEF b
<1>5. CASE b = <<m>>
  <2>1. k = 1 /\ Len(b) = 1 /\ b[1] = m
    BY <1>5 DEF b
  <2> QED BY <1>2, <2>1, Zenon DEF b
<1> QED BY <1>1, <1>3, <1>4, <1>5, Zenon

-----------------------------------------------------------------------------
(* The providers *)

KnownHints == {"keycloak", "github", "oidc"}

\* p is the provider of the entry e with the class c.
IsProvider(p, c, e) ==
    \/ c.type = "ldap" /\ p = LdapProvider(c)
    \/ /\ c.type = "oidc" /\ c.hint \in KnownHints
       /\ \E h \in {"keycloak", "github"} :
             getOidcProviderHint(c.hint) = Ok(h) /\ p = OidcProvider(c, e, h)

\* A class for which the code has a provider.
HasProvider(c) == c.type = "ldap" \/ (c.type = "oidc" /\ c.hint \in KnownHints)

\* The hints that are known.
LEMMA HintCases ==
    ASSUME NEW h
    PROVE  \/ h \in KnownHints /\ \E x \in {"keycloak", "github"} : getOidcProviderHint(h) = Ok(x)
           \/ h \notin KnownHints /\ getOidcProviderHint(h) = Error
<1>1. CASE h = "keycloak"
  BY <1>1, Zenon DEF getOidcProviderHint, KnownHints
<1>2. CASE h \in {"github", "oidc"}
  BY <1>2, Zenon DEF getOidcProviderHint, KnownHints
<1>3. CASE h \notin KnownHints
  BY <1>3, Zenon DEF getOidcProviderHint, KnownHints
<1> QED BY <1>1, <1>2, <1>3, Zenon DEF KnownHints

\* getAuthenticationProvider has a provider for LDAP and for OIDC with a known
\* hint; else it panics or returns nil.
LEMMA ProviderCases ==
    ASSUME NEW c, NEW e
    PROVE  \/ /\ HasProvider(c)
              /\ \E p : getAuthenticationProvider(c, e) = Ok(p) /\ IsProvider(p, c, e)
           \/ ~HasProvider(c) /\ getAuthenticationProvider(c, e) \in {Panic, Ok(Nil)}
<1>1. CASE c.type = "ldap"
  <2>1. getAuthenticationProvider(c, e) = Ok(LdapProvider(c))
    BY <1>1, Zenon DEF getAuthenticationProvider
  <2> QED BY <1>1, <2>1, Zenon DEF IsProvider, HasProvider
<1>2. CASE c.type = "oidc" /\ c.hint \in KnownHints
  <2>1. PICK h \in {"keycloak", "github"} : getOidcProviderHint(c.hint) = Ok(h)
    BY <1>2, HintCases, Zenon
  <2>2. getOidcProviderHint(c.hint) # Error /\ getOidcProviderHint(c.hint).val = h
    BY <2>1 DEF Ok, Error
  <2>3. getAuthenticationProvider(c, e) = Ok(OidcProvider(c, e, h))
    BY <1>2, <2>2, Zenon DEF getAuthenticationProvider
  <2> QED BY <1>2, <2>1, <2>3, Zenon DEF IsProvider, HasProvider
<1>3. CASE c.type = "oidc" /\ c.hint \notin KnownHints
  <2>1. getOidcProviderHint(c.hint) = Error
    BY <1>3, HintCases, Zenon
  <2>2. getAuthenticationProvider(c, e) = Ok(Nil)
    BY <1>3, <2>1, Zenon DEF getAuthenticationProvider
  <2> QED BY <1>3, <2>2, Zenon DEF HasProvider
<1>4. CASE c.type \in {"tls", "static"}
  <2>1. getAuthenticationProvider(c, e) = Panic
    BY <1>4, Zenon DEF getAuthenticationProvider
  <2> QED BY <1>4, <2>1, Zenon DEF HasProvider
<1>5. CASE c.type \notin {"oidc", "ldap", "tls", "static"}
  <2>1. getAuthenticationProvider(c, e) = Ok(Nil)
    BY <1>5, Zenon DEF getAuthenticationProvider
  <2> QED BY <1>5, <2>1, Zenon DEF HasProvider
<1> QED BY <1>1, <1>2, <1>3, <1>4, <1>5, Zenon

\* The fields of a provider.
LEMMA ProviderFields ==
    ASSUME NEW p, NEW c, NEW e, IsProvider(p, c, e)
    PROVE  /\ p.spec = c /\ p.type = c.type
           /\ \/ p.type = "ldap"
              \/ p.type = "oidc" /\ p.secret = e.secret /\ getOidcProviderHint(c.hint) = Ok(p.hint)
                 /\ p.hint \in {"keycloak", "github"}
<1>1. CASE c.type = "ldap" /\ p = LdapProvider(c)
  BY <1>1, Zenon DEF LdapProvider
<1>2. CASE c.type = "oidc" /\ \E h \in {"keycloak", "github"} :
             getOidcProviderHint(c.hint) = Ok(h) /\ p = OidcProvider(c, e, h)
  BY <1>2 DEF OidcProvider
<1> QED BY <1>1, <1>2, Zenon DEF IsProvider

\* The entries whose class can be read.
FoundAt(es, classes) == {i \in DOMAIN es : es[i].class \in DOMAIN classes}

\* The providers that resolveAuthentications returns, by the position of the entry.
LEMMA ProvidersAre ==
    ASSUME NEW es, NEW classes, resolveAuthentications(es, classes).out = "ok"
    PROVE  LET ps == resolveAuthentications(es, classes).val
           IN  /\ DOMAIN ps = FoundAt(es, classes)
               /\ \A i \in FoundAt(es, classes) : IsProvider(ps[i], classes[es[i].class], es[i])
<1> DEFINE ra == resolveAuthentications(es, classes)
           ps == ra.val
           found == FoundAt(es, classes)
           provider(i) == getAuthenticationProvider(classes[es[i].class], es[i])
<1>1. ra = IF \E i \in found : provider(i) = Panic \/ provider(i) = Ok(Nil)
           THEN Panic ELSE Ok([i \in found |-> provider(i).val])
  BY Zenon DEF resolveAuthentications, FoundAt
<1> HIDE DEF found, ra
<1>2. /\ \A i \in found : provider(i) # Panic /\ provider(i) # Ok(Nil)
      /\ ra = Ok([i \in found |-> provider(i).val])
  <2>1. ra # Panic
    BY DEF Panic, ra
  <2> QED BY <1>1, <2>1, Zenon
<1>3. DOMAIN ps = found /\ \A i \in found : ps[i] = provider(i).val
  BY <1>2, Zenon DEF Ok
<1>4. ASSUME NEW i \in found PROVE IsProvider(ps[i], classes[es[i].class], es[i])
  <2>1. PICK p : provider(i) = Ok(p) /\ IsProvider(p, classes[es[i].class], es[i])
    BY <1>2, <1>4, ProviderCases, Zenon
  <2>2. ps[i] = p
    BY <1>3, <1>4, <2>1, SMTT(30) DEF Ok
  <2> QED BY <2>1, <2>2, Zenon
<1> QED BY <1>3, <1>4, Zenon DEF ra, found

\* resolveAuthentications panics only for a class without a provider.
LEMMA ResolvePanics ==
    ASSUME NEW es, NEW classes, resolveAuthentications(es, classes) = Panic,
           \A i \in FoundAt(es, classes) :
              /\ LdapProvider(classes[es[i].class]) # Nil
              /\ \A h \in {"keycloak", "github"} : OidcProvider(classes[es[i].class], es[i], h) # Nil
    PROVE  \E i \in FoundAt(es, classes) : ~HasProvider(classes[es[i].class])
<1> DEFINE ra == resolveAuthentications(es, classes)
           found == FoundAt(es, classes)
           provider(i) == getAuthenticationProvider(classes[es[i].class], es[i])
<1>1. ra = IF \E i \in found : provider(i) = Panic \/ provider(i) = Ok(Nil)
           THEN Panic ELSE Ok([i \in found |-> provider(i).val])
  BY Zenon DEF resolveAuthentications, FoundAt
<1>2. Panic # Ok([i \in found |-> provider(i).val])
  BY Zenon DEF Panic, Ok
<1>3. PICK i \in found : provider(i) = Panic \/ provider(i) = Ok(Nil)
  BY <1>1, <1>2, Zenon
<1> DEFINE c == classes[es[i].class]
<1>4. ASSUME HasProvider(c) PROVE FALSE
  <2>1. PICK p : provider(i) = Ok(p) /\ IsProvider(p, c, es[i])
    BY <1>4, ProviderCases, Zenon
  <2>2. p # Nil
    BY <2>1, Zenon DEF IsProvider
  <2>3. Ok(p) # Panic /\ Ok(p) # Ok(Nil)
    BY <2>2, Zenon DEF Ok, Panic
  <2> QED BY <1>3, <2>1, <2>3, Zenon
<1> QED BY <1>4, Zenon

\* Generate panics only for an OIDC provider without a client secret.
LEMMA GenerateCases ==
    ASSUME NEW p
    PROVE  \/ p.type = "oidc" /\ p.secret = Nil /\ Generate(p) = Panic
           \/ /\ p.type = "oidc" /\ p.secret # Nil
              /\ Generate(p) = OidcGenerate(p) /\ \E x : Generate(p) = Ok(x)
           \/ p.type # "oidc" /\ Generate(p) = LdapGenerate(p) /\ \E x : Generate(p) = Ok(x)
<1>1. p.secret = Nil => OidcGenerate(p) = Panic
  BY Zenon DEF OidcGenerate
<1>2. p.secret # Nil => \E x : OidcGenerate(p) = Ok(x)
  BY Zenon DEF OidcGenerate
<1>3. \E x : LdapGenerate(p) = Ok(x)
  BY Zenon DEF LdapGenerate
<1>4. Generate(p) = IF p.type = "oidc" THEN OidcGenerate(p) ELSE LdapGenerate(p)
  BY Zenon DEF Generate
<1> QED BY <1>1, <1>2, <1>3, <1>4, Zenon

\* createAuthenticationConfig panics only for an OIDC entry without a secret.
LEMMA ConfigPanics ==
    ASSUME NEW ps, createAuthenticationConfig(ps) = Panic
    PROVE  \E i \in DOMAIN ps : ps[i].type = "oidc" /\ ps[i].secret = Nil
<1>1. \E i \in UsedAt(ps) : Generate(ps[i]) = Panic
  <2>1. \A x : Ok(x) # Panic
    BY Zenon DEF Ok, Panic
  <2> QED BY <2>1, Zenon DEF createAuthenticationConfig
<1>2. PICK i \in UsedAt(ps) : Generate(ps[i]) = Panic
  BY <1>1, Zenon
<1>3. \A x : Generate(ps[i]) # Ok(x)
  BY <1>2 DEF Ok, Panic
<1>4. ps[i].type = "oidc" /\ ps[i].secret = Nil
  BY <1>3, GenerateCases, Zenon
<1> QED BY <1>2, <1>4, Zenon DEF UsedAt

\* A set of natural numbers has a least element, unless it is empty.
LEMMA Least ==
    ASSUME NEW T \in SUBSET Nat, T # {}
    PROVE  \E i \in T : \A j \in T : i <= j
<1>1. PICK i \in T : \A j \in T : ~(<<j, i>> \in OpToRel(<, Nat))
  BY NatLessThanWellFounded, WFMin, Zenon
<1>2. ASSUME NEW j \in T
      PROVE  i <= j
  <2>1. <<j, i>> \in OpToRel(<, Nat) <=> j < i
    BY Zenon DEF OpToRel
  <2>2. ~(j < i)
    BY <1>1, <2>1, Zenon
  <2> QED BY <2>2
<1> QED BY <1>2, Zenon

\* There is a first LDAP provider, when there is one.
LEMMA FirstLdapIs ==
    ASSUME NEW ps, DOMAIN ps \subseteq Nat, LdapAt(ps) # {}
    PROVE  /\ FirstLdap(ps) \in LdapAt(ps) /\ FirstLdap(ps) \in DOMAIN ps
           /\ ps[FirstLdap(ps)].type = "ldap"
<1>1. LdapAt(ps) \in SUBSET Nat
  BY Zenon DEF LdapAt
<1>2. \E i \in LdapAt(ps) : \A j \in LdapAt(ps) : i <= j
  BY <1>1, Least, Zenon
<1>3. FirstLdap(ps) \in LdapAt(ps)
  BY <1>2, Zenon DEF FirstLdap
<1> QED BY <1>3, Zenon DEF LdapAt

\* So has a set of numbers with a bound a greatest one.
LEMMA Greatest ==
    ASSUME NEW n \in Nat, NEW T \in SUBSET (1..n), T # {}
    PROVE  \E i \in T : \A j \in T : j <= i
<1> DEFINE S == {n - i : i \in T}
<1>1. S \in SUBSET Nat /\ S # {}
  <2>1. \A i \in T : n - i \in Nat
    OBVIOUS
  <2>2. \E i \in T : n - i \in S
    BY Zenon
  <2> QED BY <2>1, <2>2, Zenon
<1>2. PICK m \in S : \A k \in S : m <= k
  BY <1>1, Least, Zenon
<1>3. PICK i \in T : m = n - i
  BY <1>2, Zenon
<1>4. ASSUME NEW j \in T PROVE j <= i
  <2>1. n - i <= n - j
    BY <1>2, <1>3, Zenon
  <2> QED BY <2>1
<1> QED BY <1>4, Zenon

-----------------------------------------------------------------------------
(* The authentication settings *)

\* The variables that Generate makes of an OIDC entry with the hint h, and of an
\* LDAP class.
OidcItems == OidcUris \cup OidcCredentials \cup {"REDIRECT-URI", "CALLBACK-URL", "ICON-URI", "PROVIDER"}

OidcVariables(h) == {<<"OAUTH2_ENABLE">>} \cup {<<h, i>> : i \in OidcItems}

LdapItems(p) ==
    {"URLS", "BASE-DN", "USER_IDENTITY-ATTRIBUTE", "USER_EMAIL-ATTRIBUTE", "USER_NOT-EXIST-ACTION"}
    \cup (IF p.spec.tls THEN {"SSL_ENABLE", "SSL_TRUST_STORE", "SSL_TRUST_STORE_PASSWORD"} ELSE {})

LdapVariables(p) == {<<"AUTHENTICATION_TYPE">>} \cup {<<"ldap", i>> : i \in LdapItems(p)}

\* What Generate makes of an OIDC entry: where the provider is and which Secret
\* holds the credentials.
LEMMA OidcSettings ==
    ASSUME NEW p, p.type = "oidc", p.secret # Nil
    PROVE  /\ DOMAIN Generate(p).val = OidcVariables(p.hint)
           /\ \A u \in OidcUris : Generate(p).val[<<p.hint, u>>] = OidcUri(p, u)
           /\ \A u \in OidcCredentials : Generate(p).val[<<p.hint, u>>] = <<"secret", p.secret, u>>
<1> DEFINE F(v) == CASE v = <<"OAUTH2_ENABLE">>    -> <<"true">>
                     [] v[2] \in OidcUris        -> OidcUri(p, v[2])
                     [] v[2] \in OidcCredentials -> <<"secret", p.secret, v[2]>>
                     [] v[2] = "PROVIDER"        -> <<p.hint>>
                     [] OTHER                    -> <<"fixed", v[2]>>
<1>1. Generate(p) = Ok([v \in OidcVariables(p.hint) |-> F(v)])
  <2>1. OidcGenerate(p) = Ok([v \in OidcVariables(p.hint) |-> F(v)])
    BY Zenon DEF OidcGenerate, OidcVariables, OidcItems
  <2> QED BY <2>1, Zenon DEF Generate
<1>2. Generate(p).val = [v \in OidcVariables(p.hint) |-> F(v)]
  <2> HIDE DEF F
  <2> QED BY <1>1 DEF Ok
<1>3. ASSUME NEW u \in OidcUris
      PROVE  <<p.hint, u>> \in OidcVariables(p.hint) /\ F(<<p.hint, u>>) = OidcUri(p, u)
  <2>1. <<p.hint, u>> # <<"OAUTH2_ENABLE">> /\ <<p.hint, u>>[2] = u /\ u \in OidcItems
    BY <1>3, Zenon DEF OidcItems
  <2>2. u \notin OidcCredentials /\ u # "PROVIDER"
    BY <1>3, Zenon DEF OidcUris, OidcCredentials
  <2>3. F(<<p.hint, u>>) = OidcUri(p, u)
    BY <1>3, <2>1, <2>2, Zenon
  <2> QED BY <2>1, <2>3, Zenon DEF OidcVariables
<1>4. ASSUME NEW u \in OidcCredentials
      PROVE  <<p.hint, u>> \in OidcVariables(p.hint) /\ F(<<p.hint, u>>) = <<"secret", p.secret, u>>
  <2>1. <<p.hint, u>> # <<"OAUTH2_ENABLE">> /\ <<p.hint, u>>[2] = u /\ u \in OidcItems
    BY <1>4, Zenon DEF OidcItems
  <2>2. u \notin OidcUris /\ u # "PROVIDER"
    BY <1>4, Zenon DEF OidcUris, OidcCredentials
  <2>3. F(<<p.hint, u>>) = <<"secret", p.secret, u>>
    BY <1>4, <2>1, <2>2, Zenon
  <2> QED BY <2>1, <2>3, Zenon DEF OidcVariables
<1> HIDE DEF F
<1> QED BY <1>2, <1>3, <1>4, Zenon

\* What Generate makes of an LDAP class: where the server is.
LEMMA LdapSettings ==
    ASSUME NEW p, p.type = "ldap"
    PROVE  /\ DOMAIN Generate(p).val = LdapVariables(p)
           /\ <<"ldap", "URLS">> \in LdapVariables(p)
           /\ Generate(p).val[<<"ldap", "URLS">>] = <<"ldap", p.spec.host>>
<1> DEFINE A(name, default) ==
               IF p.spec.fields = Nil \/ p.spec.fields[name] = "" THEN default ELSE p.spec.fields[name]
           F(v) == CASE v = <<"AUTHENTICATION_TYPE">>      -> <<"LDAP">>
                     [] v[2] = "URLS"                    -> <<"ldap", p.spec.host>>
                     [] v[2] = "USER_IDENTITY-ATTRIBUTE" -> <<A("uid", "uid")>>
                     [] v[2] = "USER_EMAIL-ATTRIBUTE"    -> <<A("mail", "mail")>>
                     [] OTHER                            -> <<"fixed", v[2]>>
<1>1. Generate(p) = Ok([v \in LdapVariables(p) |-> F(v)])
  <2>1. LdapGenerate(p) = Ok([v \in LdapVariables(p) |-> F(v)])
    BY Zenon DEF LdapGenerate, LdapVariables, LdapItems
  <2>2. p.type # "oidc"
    OBVIOUS
  <2> QED BY <2>1, <2>2, Zenon DEF Generate
<1>2. Generate(p).val = [v \in LdapVariables(p) |-> F(v)]
  <2> HIDE DEF F
  <2> QED BY <1>1 DEF Ok
<1>3. <<"ldap", "URLS">> \in LdapVariables(p)
  BY Zenon DEF LdapVariables, LdapItems
<1>4. F(<<"ldap", "URLS">>) = <<"ldap", p.spec.host>>
  <2>1. <<"ldap", "URLS">> # <<"AUTHENTICATION_TYPE">> /\ <<"ldap", "URLS">>[2] = "URLS"
    OBVIOUS
  <2> QED BY <2>1, Zenon
<1> HIDE DEF F
<1> QED BY <1>2, <1>3, <1>4, Zenon

\* The providers of n entries.
ProvidersOf(ps, n) ==
    /\ n \in Nat /\ DOMAIN ps \subseteq 1..n
    /\ \A i \in DOMAIN ps :
         \/ ps[i].type = "ldap"
         \/ ps[i].type = "oidc" /\ ps[i].hint \in {"keycloak", "github"}

\* A variable that some used provider has is that of the last one that has it.
LEMMA LastWithIs ==
    ASSUME NEW ps, NEW n, ProvidersOf(ps, n), NEW v, WithVariable(ps, v) # {}
    PROVE  LastWith(ps, v) \in WithVariable(ps, v)
<1>1. n \in Nat /\ WithVariable(ps, v) \in SUBSET (1..n)
  BY Zenon DEF ProvidersOf, WithVariable, UsedAt
<1>2. \E i \in WithVariable(ps, v) : \A j \in WithVariable(ps, v) : j <= i
  BY <1>1, Greatest, Zenon
<1> QED BY <1>2, Zenon DEF LastWith

\* The variables that createAuthenticationConfig returns.
LEMMA ConfigIs ==
    ASSUME NEW ps, createAuthenticationConfig(ps).out = "ok"
    PROVE  LET env == createAuthenticationConfig(ps).val
           IN  /\ \A i \in UsedAt(ps) : Generate(ps[i]) # Panic
               /\ \A v : v \in DOMAIN env <=> WithVariable(ps, v) # {}
               /\ \A v \in DOMAIN env : env[v] = Generate(ps[LastWith(ps, v)]).val[v]
<1> DEFINE D == UNION {DOMAIN Generate(ps[i]).val : i \in UsedAt(ps)}
           F(v) == Generate(ps[LastWith(ps, v)]).val[v]
           cs == createAuthenticationConfig(ps)
<1>1. cs = IF \E i \in UsedAt(ps) : Generate(ps[i]) = Panic THEN Panic ELSE Ok([v \in D |-> F(v)])
  BY Zenon DEF createAuthenticationConfig
<1>2. cs # Panic
  BY DEF Panic
<1> HIDE DEF cs, F
<1>3. /\ \A i \in UsedAt(ps) : Generate(ps[i]) # Panic
      /\ cs = Ok([v \in D |-> F(v)])
  BY <1>1, <1>2, Zenon
<1>4. cs.val = [v \in D |-> F(v)]
  <2> HIDE DEF D
  <2> QED BY <1>3, Zenon DEF Ok
<1>5. \A v : v \in D <=> WithVariable(ps, v) # {}
  BY Zenon DEF WithVariable
<1> HIDE DEF D
<1> QED BY <1>3, <1>4, <1>5, Zenon DEF cs, F

\* The OIDC providers with a hint.
WithHint(ps, h) == {i \in DOMAIN ps : ps[i].type = "oidc" /\ ps[i].hint = h}

\* A variable of two parts that is not one of LDAP's names the hint of a provider.
LEMMA HintOfVariable ==
    ASSUME NEW ps, NEW n, ProvidersOf(ps, n), \A i \in UsedAt(ps) : Generate(ps[i]) # Panic,
           NEW v, Len(v) = 2, v[1] # "ldap", NEW i \in WithVariable(ps, v)
    PROVE  i \in WithHint(ps, v[1])
<1>1. i \in UsedAt(ps) /\ i \in DOMAIN ps /\ v \in DOMAIN Generate(ps[i]).val /\ Generate(ps[i]) # Panic
  BY Zenon DEF WithVariable, UsedAt
<1>2. CASE ps[i].type = "ldap"
  <2>1. v \in LdapVariables(ps[i])
    BY <1>1, <1>2, LdapSettings, Zenon
  <2> QED BY <2>1 DEF LdapVariables
<1>3. CASE ps[i].type = "oidc"
  <2>1. ps[i].secret # Nil
    <3>1. \A x : Ok(x) # Panic
      BY Zenon DEF Ok, Panic
    <3> QED BY <1>1, <1>3, GenerateCases, Zenon
  <2>2. v \in OidcVariables(ps[i].hint)
    BY <1>1, <1>3, <2>1, OidcSettings, Zenon
  <2>3. v[1] = ps[i].hint
    BY <2>2 DEF OidcVariables
  <2> QED BY <1>1, <1>3, <2>3, Zenon DEF WithHint
<1> QED BY <1>1, <1>2, <1>3, Zenon DEF ProvidersOf

\* The providers that have the variable of an item are those with the hint.
LEMMA WithHintIs ==
    ASSUME NEW ps, NEW n, ProvidersOf(ps, n), \A i \in UsedAt(ps) : Generate(ps[i]) # Panic,
           NEW h, h # "ldap", NEW u \in OidcUris \cup OidcCredentials
    PROVE  /\ WithVariable(ps, <<h, u>>) = WithHint(ps, h)
           /\ \A i \in WithHint(ps, h) : ps[i].secret # Nil
<1>1. \A i \in WithVariable(ps, <<h, u>>) : i \in WithHint(ps, h)
  <2>1. Len(<<h, u>>) = 2 /\ <<h, u>>[1] = h
    OBVIOUS
  <2> QED BY <2>1, HintOfVariable, Zenon
<1>2. ASSUME NEW i \in WithHint(ps, h)
      PROVE  i \in WithVariable(ps, <<h, u>>) /\ ps[i].secret # Nil
  <2>1. i \in UsedAt(ps) /\ ps[i].type = "oidc" /\ ps[i].hint = h
    BY <1>2, Zenon DEF WithHint, UsedAt
  <2>2. ps[i].secret # Nil
    <3>1. \A x : Ok(x) # Panic
      BY Zenon DEF Ok, Panic
    <3> QED BY <2>1, <3>1, GenerateCases, Zenon
  <2>3. DOMAIN Generate(ps[i]).val = OidcVariables(h)
    BY <2>1, <2>2, OidcSettings, Zenon
  <2>4. <<h, u>> \in OidcVariables(h)
    BY Zenon DEF OidcVariables, OidcItems
  <2> QED BY <2>1, <2>2, <2>3, <2>4, Zenon DEF WithVariable
<1> QED BY <1>1, <1>2, Zenon

\* All that is told about an OIDC provider comes from the last entry with its hint.
LEMMA OneHint ==
    ASSUME NEW ps, NEW n, ProvidersOf(ps, n), createAuthenticationConfig(ps).out = "ok",
           NEW x \in DOMAIN createAuthenticationConfig(ps).val, Len(x) = 2, x[1] # "ldap"
    PROVE  LET env == createAuthenticationConfig(ps).val
               h   == x[1]
           IN  \E i \in WithHint(ps, h) :
                  /\ \A u \in OidcUris : env[<<h, u>>] = OidcUri(ps[i], u)
                  /\ \A u \in OidcCredentials : env[<<h, u>>] = <<"secret", ps[i].secret, u>>
<1> DEFINE env == createAuthenticationConfig(ps).val
           h   == x[1]
           items == OidcUris \cup OidcCredentials
<1>1. /\ \A i \in UsedAt(ps) : Generate(ps[i]) # Panic
      /\ \A v : v \in DOMAIN env <=> WithVariable(ps, v) # {}
      /\ \A v \in DOMAIN env : env[v] = Generate(ps[LastWith(ps, v)]).val[v]
  BY ConfigIs, Zenon
<1>2. WithHint(ps, h) # {}
  <2>1. PICK i : i \in WithVariable(ps, x)
    BY <1>1, Zenon
  <2> QED BY <1>1, <2>1, HintOfVariable, Zenon
<1>3. \A u \in items : WithVariable(ps, <<h, u>>) = WithHint(ps, h)
  BY <1>1, WithHintIs, Zenon
<1> DEFINE i == CHOOSE k \in WithHint(ps, h) : \A j \in WithHint(ps, h) : j <= k
<1>4. ASSUME NEW u \in items
      PROVE  /\ LastWith(ps, <<h, u>>) = i /\ i \in WithHint(ps, h)
             /\ env[<<h, u>>] = Generate(ps[i]).val[<<h, u>>]
  <2>1. WithVariable(ps, <<h, u>>) = WithHint(ps, h)
    BY <1>3, <1>4, Zenon
  <2>2. LastWith(ps, <<h, u>>) = i
    BY <2>1, Zenon DEF LastWith
  <2>3. i \in WithHint(ps, h)
    BY <1>2, <2>1, <2>2, LastWithIs, Zenon
  <2>4. <<h, u>> \in DOMAIN env
    BY <1>1, <1>2, <2>1, Zenon
  <2> QED BY <1>1, <2>2, <2>3, <2>4, Zenon
<1> HIDE DEF i, env
<1>5. "CLIENT-ID" \in items
  BY Zenon DEF OidcCredentials
<1>6. i \in WithHint(ps, h) /\ ps[i].type = "oidc" /\ ps[i].hint = h
  BY <1>4, <1>5, Zenon DEF WithHint
<1>7. ps[i].secret # Nil
  BY <1>1, <1>5, <1>6, WithHintIs, ZenonT(30)
<1>8. /\ \A u \in OidcUris : Generate(ps[i]).val[<<h, u>>] = OidcUri(ps[i], u)
      /\ \A u \in OidcCredentials : Generate(ps[i]).val[<<h, u>>] = <<"secret", ps[i].secret, u>>
  BY <1>6, <1>7, OidcSettings, Zenon
<1>9. \A u \in OidcUris : env[<<h, u>>] = OidcUri(ps[i], u)
  BY <1>4, <1>8, Zenon
<1>10. \A u \in OidcCredentials : env[<<h, u>>] = <<"secret", ps[i].secret, u>>
  BY <1>4, <1>8, Zenon
<1> QED BY <1>6, <1>9, <1>10, Zenon DEF env

\* The address of the LDAP server is that of the first LDAP entry.
LEMMA OneLdap ==
    ASSUME NEW ps, NEW n, ProvidersOf(ps, n), createAuthenticationConfig(ps).out = "ok",
           LdapAt(ps) # {}
    PROVE  createAuthenticationConfig(ps).val[<<"ldap", "URLS">>] = <<"ldap", ps[FirstLdap(ps)].spec.host>>
<1> DEFINE env == createAuthenticationConfig(ps).val
           f   == FirstLdap(ps)
           v   == <<"ldap", "URLS">>
<1>1. /\ \A i \in UsedAt(ps) : Generate(ps[i]) # Panic
      /\ \A y : y \in DOMAIN env <=> WithVariable(ps, y) # {}
      /\ \A y \in DOMAIN env : env[y] = Generate(ps[LastWith(ps, y)]).val[y]
  BY ConfigIs, Zenon
<1>2. f \in DOMAIN ps /\ ps[f].type = "ldap"
  <2>1. DOMAIN ps \subseteq Nat
    BY SMTT(30) DEF ProvidersOf
  <2> QED BY <2>1, FirstLdapIs, Zenon
<1>3. /\ DOMAIN Generate(ps[f]).val = LdapVariables(ps[f]) /\ v \in LdapVariables(ps[f])
      /\ Generate(ps[f]).val[v] = <<"ldap", ps[f].spec.host>>
  BY <1>2, LdapSettings, Zenon
<1>4. f \in WithVariable(ps, v)
  BY <1>2, <1>3, Zenon DEF WithVariable, UsedAt
<1>5. ASSUME NEW i \in WithVariable(ps, v) PROVE i = f
  <2>1. i \in UsedAt(ps) /\ i \in DOMAIN ps /\ v \in DOMAIN Generate(ps[i]).val
    BY <1>5, Zenon DEF WithVariable, UsedAt
  <2>2. CASE ps[i].type = "ldap"
    BY <2>1, <2>2, Zenon DEF UsedAt
  <2>3. CASE ps[i].type = "oidc" /\ ps[i].hint \in {"keycloak", "github"}
    <3>1. ps[i].secret # Nil
      <4>1. \A x : Ok(x) # Panic
        BY Zenon DEF Ok, Panic
      <4> QED BY <1>1, <2>1, <2>3, <4>1, GenerateCases, Zenon
    <3>2. v \in OidcVariables(ps[i].hint)
      BY <2>1, <2>3, <3>1, OidcSettings, Zenon
    <3>3. v[1] = ps[i].hint
      BY <3>2, Zenon DEF OidcVariables
    <3> QED BY <2>3, <3>3, Zenon
  <2> QED BY <2>1, <2>2, <2>3, Zenon DEF ProvidersOf
<1>6. LastWith(ps, v) = f
  BY <1>4, <1>5, LastWithIs, Zenon
<1> HIDE DEF env, v, f
<1> QED BY <1>1, <1>3, <1>4, <1>6, Zenon DEF env, v, f

-----------------------------------------------------------------------------
(* What fails, and why *)

\* What Authentication does with the results of its parts.
LEMMA AuthenticationFails ==
    ASSUME NEW es, NEW classes
    PROVE  LET rs == resolveAuthentications(es, classes)
               au == AuthenticationOf(es, classes)
           IN  /\ au = Panic => rs = Panic \/ (rs.out = "ok" /\ createAuthenticationConfig(rs.val) = Panic)
               /\ au = Error => rs.out = "ok" /\ LdapVolume(rs.val) = Error
<1> DEFINE rs == resolveAuthentications(es, classes)
           cs == createAuthenticationConfig(rs.val)
           ls == LdapVolume(rs.val)
           au == AuthenticationOf(es, classes)
<1>1. au = Then(rs, LAMBDA ps : Then(createAuthenticationConfig(ps), LAMBDA c :
                Then(LdapVolume(ps), LAMBDA v : Ok([config |-> c, ldapVolume |-> v]))))
  BY Zenon DEF AuthenticationOf
<1>2. rs.out = "ok" \/ rs = Panic
  BY Zenon DEF resolveAuthentications, Ok
<1>3. cs.out = "ok" \/ cs = Panic
  BY Zenon DEF createAuthenticationConfig, Ok
<1>4. ls.out = "ok" \/ ls = Error
  BY Zenon DEF LdapVolume, Ok
<1>5. CASE rs = Panic
  <2>1. au = Panic
    BY <1>1, <1>5 DEF Then, Panic
  <2> QED BY <1>5, <2>1, SMTT(30) DEF Panic, Error
<1>6. CASE rs.out = "ok" /\ cs = Panic
  <2>1. au = Panic
    BY <1>1, <1>6 DEF Then, Panic
  <2> QED BY <1>6, <2>1, SMTT(30) DEF Panic, Error
<1>7. CASE rs.out = "ok" /\ cs.out = "ok" /\ ls = Error
  <2>1. au = Error
    BY <1>1, <1>7 DEF Then, Error
  <2> QED BY <1>7, <2>1, SMTT(30) DEF Panic, Error
<1>8. CASE rs.out = "ok" /\ cs.out = "ok" /\ ls.out = "ok"
  <2>1. au.out = "ok"
    BY <1>1, <1>8 DEF Then, Ok
  <2> QED BY <2>1 DEF Panic, Error
<1> QED BY <1>2, <1>3, <1>4, <1>5, <1>6, <1>7, <1>8, ZenonT(30)

\* The API server's builder fails only as Authentication does.
LEMMA ApiServerFails ==
    ASSUME NEW s, NEW d
    PROVE  /\ ApiServer(s, d) = Panic => s.clusterConfig.authentication # Nil /\ SettingsOf(s, d) = Panic
           /\ ApiServer(s, d) = Error => s.clusterConfig.authentication # Nil /\ SettingsOf(s, d) = Error
<1>1. CASE s.clusterConfig.authentication = Nil
  <2>1. ApiServer(s, d).out = "ok"
    BY <1>1, ZenonT(30) DEF ApiServer, authentication, Ok
  <2> QED BY <2>1 DEF Panic, Error
<1>2. CASE s.clusterConfig.authentication # Nil /\ SettingsOf(s, d).out = "ok"
  <2>1. ApiServer(s, d).out = "ok"
    BY <1>2, Zenon DEF ApiServer, authentication, SettingsOf, Then, Ok
  <2> QED BY <2>1 DEF Panic, Error
<1>3. CASE s.clusterConfig.authentication # Nil /\ SettingsOf(s, d).out # "ok"
  <2>1. ApiServer(s, d) = SettingsOf(s, d)
    BY <1>3, Zenon DEF ApiServer, authentication, SettingsOf, Then
  <2> QED BY <1>3, <2>1, Zenon
<1> QED BY <1>1, <1>2, <1>3, Zenon

\* The cluster's resources: no clusterConfig, or no host in the connection string.
LEMMA ClusterPanics ==
    ASSUME NEW s, ClusterReconcilers(s) = Panic
    PROVE  s.clusterConfig = Nil \/ GetDatabaseHost(s.clusterConfig.database) = Panic
<1>1. NewJobInitScriptReconciler(s) = Panic
  BY Zenon DEF ClusterReconcilers, UnlessPanic, Ok, Panic
<1> QED BY <1>1, Zenon DEF NewJobInitScriptReconciler, UnlessPanic, Ok, Panic

\* The credentials: setCredentials returns or fails.
LEMMA CredentialsEnd ==
    ASSUME NEW cs, NEW secrets, NEW name
    PROVE  setCredentials(cs, secrets, name).out = "ok" \/ setCredentials(cs, secrets, name) = Error
<1>1. setCredentialsFromSecret(secrets, name).out = "ok" \/ setCredentialsFromSecret(secrets, name) = Error
  BY Zenon DEF setCredentialsFromSecret, Ok
<1>2. \/ setCredentialsFromConnectionString(cs).out = "ok"
      \/ setCredentialsFromConnectionString(cs) = Error
  BY Zenon DEF setCredentialsFromConnectionString, Ok
<1> QED BY <1>1, <1>2, Zenon DEF setCredentials

\* The shared config map: a connection string that cannot be split.
LEMMA EnvPanics ==
    ASSUME NEW s, NEW g, NEW d, GroupEnvMap(s, g, d) = Panic
    PROVE  parseConnectionString(s.clusterConfig.database) = Panic
<1> DEFINE cs == s.clusterConfig.database
           x  == setCredentials(cs, d.secrets, s.clusterConfig.credentialsSecret)
           y  == parseConnectionString(cs)
           z  == ExtractDatabaseInfo(cs, d.secrets, s.clusterConfig.credentialsSecret)
           o  == OnError(Then(z, LAMBDA info : Ok(DatabaseEnv(info))), EmptyMap)
<1>1. x.out = "ok" \/ x = Error
  BY CredentialsEnd, Zenon
<1>2. z = Then(y, LAMBDA db : Then(x, LAMBDA creds :
               Ok([db |-> db, user |-> creds.user, pass |-> creds.pass])))
  BY Zenon DEF ExtractDatabaseInfo
<1>3. o = Panic
  BY Zenon DEF GroupEnvMap, NewEnvConfigMapReconciler, UnlessPanic, Ok, Panic
<1> HIDE DEF x, y, z
<1>4. z = Panic
  BY <1>3, Zenon DEF OnError, Then, Ok, Panic
<1>5. y = Panic
  BY <1>1, <1>2, <1>4, SMTT(30) DEF Then, Ok, Panic, Error
<1> QED BY <1>5, Zenon DEF y, cs

\* A workload can be built unless the affinity is not one.
LEMMA WorkloadFails ==
    ASSUME NEW s, NEW r, NEW g, NEW d, GroupWorkload(s, r, g, d).obj = Error
    PROVE  ConfigOf(s, r, g)["affinity"] = "malformed"
<1> DEFINE a == ExtractAffinity(ConfigOf(s, r, g))
<1>1. a = Error
  <2>1. GroupWorkload(s, r, g, d).obj = IF a = Error THEN Error ELSE WorkloadSpec(s, r, g, d)
    BY Zenon DEF GroupWorkload, Workload, Resource, WorkloadSpec
  <2>2. WorkloadSpec(s, r, g, d) # Error
    <3>1. "replicas" \in DOMAIN WorkloadSpec(s, r, g, d)
      BY Zenon DEF WorkloadSpec
    <3>2. "replicas" \notin DOMAIN Error
      BY Zenon DEF Error
    <3> QED BY <3>1, <3>2, Zenon
  <2> HIDE DEF a
  <2> QED BY <2>1, <2>2, Zenon
<1> QED BY <1>1, Zenon DEF ExtractAffinity, Ok, Error

\* The volume with the bind credentials is that of the first LDAP class.
LEMMA VolumeIs ==
    ASSUME NEW ps, LdapVolume(ps).out = "ok", LdapVolume(ps).val # Nil
    PROVE  /\ LdapAt(ps) # {} /\ ps[FirstLdap(ps)].spec.bind # Nil
           /\ LdapVolume(ps).val.secretClass = ps[FirstLdap(ps)].spec.bind.secretClass
<1> DEFINE b == ps[FirstLdap(ps)].spec.bind
<1>1. LdapAt(ps) # {}
  BY Zenon DEF LdapVolume, Ok
<1>2. b # Nil
  BY <1>1, Zenon DEF LdapVolume, Error
<1>3. LdapVolume(ps).val = AddLdapCredintialsVolumesAndVolumeMounts(b)
  BY <1>1, <1>2, Zenon DEF LdapVolume, Ok
<1>4. AddLdapCredintialsVolumesAndVolumeMounts(b).secretClass = b.secretClass
  BY Zenon DEF AddLdapCredintialsVolumesAndVolumeMounts
<1> QED BY <1>1, <1>2, <1>3, <1>4, Zenon
=============================================================================
