--------------------------- MODULE ManifestsProofs --------------------------
(***************************************************************************)
(* What the operators of Manifests return, for every CR spec and every     *)
(* state of the objects the operator reads: the lemmas that the proofs     *)
(* about Build, Reconciler and Startup share.                              *)
(***************************************************************************)
EXTENDS Manifests, Integers, TLAPS

-----------------------------------------------------------------------------
(* The resources of a role group, by name *)

ConfigOf(s, r, g) == GroupConfig(r, s.roles[r], g)

OverridesOf(s, r, g) == GroupOverrides(s.roles[r], g)

GroupConfigMap(s, r, g, d) ==
    NewConfigMapReconciler(s, r, g, ConfigOf(s, r, g), OverridesOf(s, r, g), d)

GroupEnvMap(s, g, d) ==
    NewEnvConfigMapReconciler(s, "master", g, OverridesOf(s, "master", g), d)

\* Masters and workers are StatefulSets behind a headless service.
Stateful(r) == r \in {"master", "worker"}

WorkloadKind(r) == IF Stateful(r) THEN "StatefulSet" ELSE "Deployment"

ApiServer(s, d) == authentication(s, RoleContainer("api"), d)

ServerOf(s, r, d) ==
    IF r = "api" THEN ApiServer(s, d).val ELSE [b |-> RoleContainer(r), volumes |-> EmptyMap]

ClaimsOf(s, r, g) == IF r = "worker" THEN WithPvcTemplates(ConfigOf(s, r, g)) ELSE <<>>

GroupWorkload(s, r, g, d) ==
    Workload(WorkloadKind(r), s, r, g, ConfigOf(s, r, g), OverridesOf(s, r, g),
             ServerOf(s, r, d).b, ServerOf(s, r, d).volumes, ClaimsOf(s, r, g))

GroupService(r, g) ==
    IF Stateful(r) THEN NewServiceReconciler(r, g, TRUE) ELSE NewServiceReconciler(r, g, FALSE)

-----------------------------------------------------------------------------
(* Sequences *)

\* Two sequences with the same elements in the same places.
LEMMA SameSequence ==
    ASSUME NEW S, NEW s \in Seq(S), NEW t \in Seq(S),
           Len(s) = Len(t), \A i \in 1..Len(s) : s[i] = t[i]
    PROVE  s = t
  OBVIOUS

\* Where the elements of two sequences stand when one follows the other.
LEMMA Concatenation ==
    ASSUME NEW S, NEW s \in Seq(S), NEW t \in Seq(S)
    PROVE  /\ s \o t \in Seq(S) /\ Len(s \o t) = Len(s) + Len(t)
           /\ \A i \in 1..(Len(s) + Len(t)) :
                 (s \o t)[i] = IF i <= Len(s) THEN s[i] ELSE t[i - Len(s)]
<1>1. s \o t \in Seq(S) /\ Len(s \o t) = Len(s) + Len(t)
  OBVIOUS
<1>2. \A i \in 1..(Len(s) + Len(t)) :
        (s \o t)[i] = IF i <= Len(s) THEN s[i] ELSE t[i - Len(s)]
  OBVIOUS
<1> QED BY <1>1, <1>2

\* Nothing before or behind a sequence.
LEMMA NothingMore ==
    ASSUME NEW S, NEW s \in Seq(S)
    PROVE  <<>> \o s = s /\ s \o <<>> = s
  OBVIOUS

\* Three sequences in a row.
LEMMA ThreeInARow ==
    ASSUME NEW S, NEW s \in Seq(S), NEW t \in Seq(S), NEW u \in Seq(S)
    PROVE  (s \o t) \o u = s \o (t \o u)
<1>1. /\ s \o t \in Seq(S) /\ t \o u \in Seq(S)
      /\ (s \o t) \o u \in Seq(S) /\ s \o (t \o u) \in Seq(S)
  OBVIOUS
<1>2. Len((s \o t) \o u) = Len(s \o (t \o u))
  OBVIOUS
<1>3. \A i \in 1..Len((s \o t) \o u) : ((s \o t) \o u)[i] = (s \o (t \o u))[i]
  OBVIOUS
<1> QED BY <1>1, <1>2, <1>3, SameSequence, Zenon

\* Sequences that are the same with the same end are the same without it.
LEMMA SameEnd ==
    ASSUME NEW S, NEW s \in Seq(S), NEW t \in Seq(S), NEW u \in Seq(S), s \o u = t \o u
    PROVE  s = t
<1>1. Len(s) + Len(u) = Len(t) + Len(u)
  BY Concatenation
<1>2. Len(s) = Len(t)
  BY <1>1
<1>3. ASSUME NEW i \in 1..Len(s)
      PROVE  s[i] = t[i]
  <2>1. i \in 1..(Len(s) + Len(u)) /\ i \in 1..(Len(t) + Len(u)) /\ i <= Len(s) /\ i <= Len(t)
    BY <1>2
  <2> QED BY <2>1, Concatenation
<1> QED BY <1>2, <1>3, SameSequence

\* A sequence and an element behind it.
LEMMA Appending ==
    ASSUME NEW S, NEW s \in Seq(S), NEW e \in S
    PROVE  /\ Append(s, e) \in Seq(S) /\ Len(Append(s, e)) = Len(s) + 1
           /\ \A i \in 1..Len(s) : Append(s, e)[i] = s[i]
           /\ Append(s, e)[Len(s) + 1] = e
  OBVIOUS

\* A sequence without its first element.
LEMMA TailOf ==
    ASSUME NEW S, NEW s \in Seq(S), s # <<>>
    PROVE  /\ Tail(s) \in Seq(S) /\ Len(Tail(s)) = Len(s) - 1
           /\ \A i \in 1..Len(Tail(s)) : Tail(s)[i] = s[i + 1]
<1>1. Tail(s) \in Seq(S) /\ Len(Tail(s)) = Len(s) - 1
  OBVIOUS
<1>2. \A i \in 1..Len(Tail(s)) : Tail(s)[i] = s[i + 1]
  OBVIOUS
<1> QED BY <1>1, <1>2

\* Appending to a sequence of three.
LEMMA AppendTo3 ==
    ASSUME NEW a, NEW b, NEW c, NEW m
    PROVE  Append(<<a, b, c>>, m) = <<a, b, c, m>>
<1> DEFINE S == {a, b, c, m}
<1>1. <<a, b, c>> \in Seq(S) /\ m \in S /\ <<a, b, c, m>> \in Seq(S)
  OBVIOUS
<1>2. Len(Append(<<a, b, c>>, m)) = 4 /\ Append(<<a, b, c>>, m) \in Seq(S)
  BY <1>1, Appending
<1>3. \A i \in 1..4 : Append(<<a, b, c>>, m)[i] = <<a, b, c, m>>[i]
  BY <1>1, Appending
<1> QED BY <1>1, <1>2, <1>3, SameSequence, Zenon

\* Appending to a sequence of four.
LEMMA AppendTo4 ==
    ASSUME NEW a, NEW b, NEW c, NEW d, NEW m
    PROVE  Append(<<a, b, c, d>>, m) = <<a, b, c, d, m>>
<1> DEFINE S == {a, b, c, d, m}
<1>1. <<a, b, c, d>> \in Seq(S) /\ m \in S /\ <<a, b, c, d, m>> \in Seq(S)
  OBVIOUS
<1>2. Len(Append(<<a, b, c, d>>, m)) = 5 /\ Append(<<a, b, c, d>>, m) \in Seq(S)
  BY <1>1, Appending
<1>3. \A i \in 1..5 : Append(<<a, b, c, d>>, m)[i] = <<a, b, c, d, m>>[i]
  BY <1>1, Appending
<1> QED BY <1>1, <1>2, <1>3, SameSequence, Zenon

-----------------------------------------------------------------------------
(* What registration returns *)

\* RegisterResources of cluster.go panics or adds the three RBAC objects and
\* the job.
LEMMA ClusterShape ==
    ASSUME NEW s, ClusterReconcilers(s) # Panic
    PROVE  /\ ClusterReconcilers(s).out = "ok"
           /\ ClusterReconcilers(s).val =
                <<RbacReconcilers[1], RbacReconcilers[2], RbacReconcilers[3],
                  NewJobInitScriptReconciler(s).val>>
           /\ NewJobInitScriptReconciler(s) # Panic
<1> DEFINE job == NewJobInitScriptReconciler(s)
<1>1. job # Panic /\ ClusterReconcilers(s) = Ok(Append(RbacReconcilers, job.val))
  BY DEF ClusterReconcilers, UnlessPanic
<1> HIDE DEF job
<1>2. Append(RbacReconcilers, job.val) =
        <<RbacReconcilers[1], RbacReconcilers[2], RbacReconcilers[3], job.val>>
  BY AppendTo3 DEF RbacReconcilers
<1> QED BY <1>1, <1>2 DEF Ok, job

\* The job runs the image of the servers and waits for the host that
\* GetDatabaseHost finds.
LEMMA JobShape ==
    ASSUME NEW s, NewJobInitScriptReconciler(s) # Panic
    PROVE  /\ s.clusterConfig # Nil
           /\ GetDatabaseHost(s.clusterConfig.database) # Panic
           /\ NewJobInitScriptReconciler(s).val =
                Resource("Job", <<>>,
                    [image   |-> GetImage(s),
                     waitFor |-> GetDatabaseHost(s.clusterConfig.database).val,
                     envFrom |-> RoleGroupEnvsConfigMapName])
<1>1. s.clusterConfig # Nil /\ GetDatabaseHost(s.clusterConfig.database) # Panic
  BY DEF NewJobInitScriptReconciler, UnlessPanic
<1> QED BY <1>1 DEF NewJobInitScriptReconciler, UnlessPanic, Ok

\* security.Authentication, as the API server calls it, returns, fails or panics.
LEMMA AuthenticationEnds ==
    ASSUME NEW s, NEW b, NEW d
    PROVE  \/ authentication(s, b, d).out = "ok"
           \/ authentication(s, b, d) \in {Error, Panic}
<1> DEFINE es == s.clusterConfig.authentication
           rs == resolveAuthentications(es, d.classes)
           cs == createAuthenticationConfig(rs.val)
           ls == LdapVolume(rs.val)
           au == AuthenticationOf(es, d.classes)
<1>1. rs.out = "ok" \/ rs = Panic
  BY Zenon DEF resolveAuthentications, Ok
<1>2. cs.out = "ok" \/ cs = Panic
  BY Zenon DEF createAuthenticationConfig, Ok
<1>3. ls.out = "ok" \/ ls = Error
  BY DEF LdapVolume, Ok
<1>4. au.out = "ok" \/ au \in {Error, Panic}
  <2> HIDE DEF rs
  <2>1. CASE rs = Panic
    BY <2>1 DEF AuthenticationOf, Then, Panic, rs
  <2>2. CASE rs.out = "ok" /\ cs = Panic
    BY <2>2 DEF AuthenticationOf, Then, Panic, rs
  <2>3. CASE rs.out = "ok" /\ cs.out = "ok" /\ ls.out = "ok"
    BY <2>3 DEF AuthenticationOf, Then, Ok, rs
  <2>4. CASE rs.out = "ok" /\ cs.out = "ok" /\ ls = Error
    BY <2>4 DEF AuthenticationOf, Then, Error, rs
  <2> QED BY <1>1, <1>2, <1>3, <2>1, <2>2, <2>3, <2>4
<1>5. CASE es = Nil
  BY <1>5, Zenon DEF authentication, Ok
<1>6. CASE es # Nil /\ au.out = "ok"
  BY <1>6 DEF authentication, Then, Ok
<1>7. CASE es # Nil /\ au.out # "ok"
  BY <1>4, <1>7 DEF authentication, Then
<1> QED BY <1>5, <1>6, <1>7

\* What GroupReconcilers adds to what ResourceReconcilers returns.
LEMMA GroupOfRole ==
    ASSUME NEW s, NEW r \in Roles, NEW g, NEW d, GroupReconcilers(s, r, g, d) # Panic
    PROVE  LET rs == ResourceReconcilers(s, r, g, ConfigOf(s, r, g), OverridesOf(s, r, g), d)
           IN  /\ rs # Panic
               /\ GroupReconcilers(s, r, g, d) =
                    Ok(Append(rs.val, NewRoleGroupMetricsService(r, g)))
  BY DEF GroupReconcilers, UnlessPanic, ConfigOf, OverridesOf

\* A master group: its config map, the shared one, the workload, the service and
\* the metrics service, in this order (master/role.go).
LEMMA MasterShape ==
    ASSUME NEW s, NEW g, NEW d, GroupReconcilers(s, "master", g, d) # Panic
    PROVE  /\ GroupConfigMap(s, "master", g, d) # Panic /\ GroupEnvMap(s, g, d) # Panic
           /\ GroupReconcilers(s, "master", g, d).out = "ok"
           /\ GroupReconcilers(s, "master", g, d).val =
                <<GroupConfigMap(s, "master", g, d).val, GroupEnvMap(s, g, d).val,
                  GroupWorkload(s, "master", g, d), GroupService("master", g),
                  NewRoleGroupMetricsService("master", g)>>
<1> DEFINE c == GroupConfigMap(s, "master", g, d)
           e == GroupEnvMap(s, g, d)
           w == GroupWorkload(s, "master", g, d)
           u == GroupService("master", g)
           m == NewRoleGroupMetricsService("master", g)
           rs == MasterResources(s, g, ConfigOf(s, "master", g), OverridesOf(s, "master", g), d)
<1>1. w = Workload("StatefulSet", s, "master", g, ConfigOf(s, "master", g),
                   OverridesOf(s, "master", g), RoleContainer("master"), EmptyMap, <<>>)
  BY DEF GroupWorkload, WorkloadKind, Stateful, ServerOf, ClaimsOf
<1>2. u = NewServiceReconciler("master", g, TRUE)
  BY DEF GroupService, Stateful
<1>3. rs # Panic /\ GroupReconcilers(s, "master", g, d) = Ok(Append(rs.val, m))
  BY GroupOfRole DEF ResourceReconcilers, Roles
<1> HIDE DEF w, u, m
<1>4. c # Panic /\ e # Panic /\ rs = Ok(<<c.val, e.val, w, u>>)
  BY <1>1, <1>2, <1>3 DEF MasterResources, UnlessPanic, GroupConfigMap, GroupEnvMap
<1> HIDE DEF rs, c, e
<1>5. Append(rs.val, m) = <<c.val, e.val, w, u, m>>
  BY <1>4, AppendTo4 DEF Ok
<1> QED BY <1>3, <1>4, <1>5 DEF Ok, c, e, w, u, m

\* A worker or alerter group: its config map, the workload, the service and the
\* metrics service (worker/role.go and alerter/role.go).
LEMMA PlainShape ==
    ASSUME NEW s, NEW r \in {"worker", "alert"}, NEW g, NEW d,
           GroupReconcilers(s, r, g, d) # Panic
    PROVE  /\ GroupConfigMap(s, r, g, d) # Panic
           /\ GroupReconcilers(s, r, g, d).out = "ok"
           /\ GroupReconcilers(s, r, g, d).val =
                <<GroupConfigMap(s, r, g, d).val, GroupWorkload(s, r, g, d),
                  GroupService(r, g), NewRoleGroupMetricsService(r, g)>>
<1> DEFINE c == GroupConfigMap(s, r, g, d)
           w == GroupWorkload(s, r, g, d)
           u == GroupService(r, g)
           m == NewRoleGroupMetricsService(r, g)
           rs == ResourceReconcilers(s, r, g, ConfigOf(s, r, g), OverridesOf(s, r, g), d)
<1>1. w = Workload(IF r = "worker" THEN "StatefulSet" ELSE "Deployment", s, r, g,
                   ConfigOf(s, r, g), OverridesOf(s, r, g), RoleContainer(r), EmptyMap,
                   IF r = "worker" THEN WithPvcTemplates(ConfigOf(s, r, g)) ELSE <<>>)
  BY DEF GroupWorkload, WorkloadKind, Stateful, ServerOf, ClaimsOf
<1>2. u = IF r = "worker" THEN NewServiceReconciler(r, g, TRUE)
                          ELSE NewServiceReconciler(r, g, FALSE)
  BY Zenon DEF GroupService, Stateful
<1>3. rs # Panic /\ GroupReconcilers(s, r, g, d) = Ok(Append(rs.val, m))
  BY GroupOfRole DEF Roles
<1> HIDE DEF w, u, m
<1>4. c # Panic /\ rs = Ok(<<c.val, w, u>>)
  <2>1. CASE r = "worker"
    BY <1>1, <1>2, <1>3, <2>1
       DEF ResourceReconcilers, WorkerResources, UnlessPanic, GroupConfigMap
  <2>2. CASE r = "alert"
    BY <1>1, <1>2, <1>3, <2>2
       DEF ResourceReconcilers, AlertResources, UnlessPanic, GroupConfigMap
  <2> QED BY <2>1, <2>2
<1> HIDE DEF rs, c
<1>5. Append(rs.val, m) = <<c.val, w, u, m>>
  BY <1>4, AppendTo3 DEF Ok
<1> QED BY <1>3, <1>4, <1>5 DEF Ok, c, w, u, m

\* A group of API servers: the same, or the metrics service alone when
\* authentication fails (api/role.go).
LEMMA ApiShape ==
    ASSUME NEW s, NEW g, NEW d, GroupReconcilers(s, "api", g, d) # Panic
    PROVE  /\ GroupConfigMap(s, "api", g, d) # Panic
           /\ GroupReconcilers(s, "api", g, d).out = "ok"
           /\ \/ /\ ApiServer(s, d).out = "ok"
                 /\ GroupReconcilers(s, "api", g, d).val =
                      <<GroupConfigMap(s, "api", g, d).val, GroupWorkload(s, "api", g, d),
                        GroupService("api", g), NewRoleGroupMetricsService("api", g)>>
              \/ /\ ApiServer(s, d) = Error
                 /\ GroupReconcilers(s, "api", g, d).val = <<NewRoleGroupMetricsService("api", g)>>
<1> DEFINE c == GroupConfigMap(s, "api", g, d)
           w == GroupWorkload(s, "api", g, d)
           u == GroupService("api", g)
           m == NewRoleGroupMetricsService("api", g)
           a == ApiServer(s, d)
           rs == ApiResources(s, g, ConfigOf(s, "api", g), OverridesOf(s, "api", g), d)
<1>1. w = Workload("Deployment", s, "api", g, ConfigOf(s, "api", g),
                   OverridesOf(s, "api", g), a.val.b, a.val.volumes, <<>>)
  BY DEF GroupWorkload, WorkloadKind, Stateful, ServerOf, ClaimsOf
<1>2. u = NewServiceReconciler("api", g, FALSE)
  BY DEF GroupService, Stateful
<1>3. rs # Panic /\ GroupReconcilers(s, "api", g, d) = Ok(Append(rs.val, m))
  BY GroupOfRole DEF ResourceReconcilers, Roles
<1>4. a.out = "ok" \/ a \in {Error, Panic}
  BY AuthenticationEnds DEF ApiServer
<1> HIDE DEF w, u, m, a
<1>5. c # Panic
  BY <1>3 DEF ApiResources, UnlessPanic, GroupConfigMap
<1>6. rs = OnError(Then(a, LAMBDA auth :
                          Ok(<<c.val, Workload("Deployment", s, "api", g, ConfigOf(s, "api", g),
                                               OverridesOf(s, "api", g), auth.b, auth.volumes, <<>>),
                               u>>)), <<>>)
  BY <1>2, <1>5 DEF ApiResources, UnlessPanic, GroupConfigMap, ApiServer, a
<1>7. CASE a.out = "ok"
  <2>1. rs = Ok(<<c.val, w, u>>)
    BY <1>1, <1>6, <1>7, Zenon DEF OnError, Then, Ok, Error
  <2> HIDE DEF rs, c
  <2>2. Append(rs.val, m) = <<c.val, w, u, m>>
    BY <2>1, AppendTo3 DEF Ok
  <2>3. GroupReconcilers(s, "api", g, d).out = "ok"
        /\ GroupReconcilers(s, "api", g, d).val = <<c.val, w, u, m>>
    BY <1>3, <2>2 DEF Ok
  <2> QED BY <1>5, <1>7, <2>3, Zenon DEF c, w, u, m, a
<1>8. CASE a = Error
  <2>1. rs = Ok(<<>>)
    BY <1>6, <1>8 DEF OnError, Then, Error
  <2> HIDE DEF rs, c
  <2>2. Append(rs.val, m) = <<m>>
    BY <2>1 DEF Ok
  <2> QED BY <1>3, <1>5, <1>8, <2>2 DEF Ok, c, m, a
<1>9. CASE a = Panic
  BY <1>3, <1>6, <1>9 DEF OnError, Then, Error, Panic
<1> QED BY <1>4, <1>7, <1>8, <1>9

\* ClusterReconcilers returns a sequence.
LEMMA ClusterSeq ==
    ASSUME NEW s, ClusterReconcilers(s) # Panic
    PROVE  /\ ClusterReconcilers(s).out = "ok"
           /\ \E S : ClusterReconcilers(s).val \in Seq(S)
<1> DEFINE j == NewJobInitScriptReconciler(s).val
           S == {RbacReconcilers[1], RbacReconcilers[2], RbacReconcilers[3], j}
<1>1. ClusterReconcilers(s).val = <<RbacReconcilers[1], RbacReconcilers[2], RbacReconcilers[3], j>>
      /\ ClusterReconcilers(s).out = "ok"
  BY ClusterShape
<1> HIDE DEF j
<1>2. <<RbacReconcilers[1], RbacReconcilers[2], RbacReconcilers[3], j>> \in Seq(S)
  OBVIOUS
<1> QED BY <1>1, <1>2, Zenon

\* So does GroupReconcilers, for every role.
LEMMA GroupSeq ==
    ASSUME NEW s, NEW r \in Roles, NEW g, NEW d, GroupReconcilers(s, r, g, d) # Panic
    PROVE  /\ GroupReconcilers(s, r, g, d).out = "ok"
           /\ \E S : GroupReconcilers(s, r, g, d).val \in Seq(S)
<1> DEFINE c == GroupConfigMap(s, r, g, d).val
           e == GroupEnvMap(s, g, d).val
           w == GroupWorkload(s, r, g, d)
           u == GroupService(r, g)
           m == NewRoleGroupMetricsService(r, g)
           o == GroupReconcilers(s, r, g, d)
<1>1. o.out = "ok" /\ (o.val = <<c, e, w, u, m>> \/ o.val = <<c, w, u, m>> \/ o.val = <<m>>)
  <2>1. CASE r = "master"
    BY <2>1, MasterShape
  <2>2. CASE r \in {"worker", "alert"}
    BY <2>2, PlainShape
  <2>3. CASE r = "api"
    BY <2>3, ApiShape
  <2> QED BY <2>1, <2>2, <2>3 DEF Roles
<1> DEFINE S == {c, e, w, u, m}
<1> HIDE DEF c, e, w, u, m, o
<1>2. <<c, e, w, u, m>> \in Seq(S) /\ <<c, w, u, m>> \in Seq(S) /\ <<m>> \in Seq(S)
  OBVIOUS
<1> QED BY <1>1, <1>2, Zenon DEF o

-----------------------------------------------------------------------------
(* The keys and contents of the resources *)

\* The files of a role group's config map.
ConfigFiles(s, r, g, d) ==
    MapsCopy(MapsCopy(CommonFile(s, OverridesOf(s, r, g), d).val,
                      VectorFile(s, ConfigOf(s, r, g), d)),
             [f \in {LogbackPropertiesFileName} |-> LogbackXmlGenerate(r, ConfigOf(s, r, g))])

\* The content of a workload that can be built.
WorkloadSpec(s, r, g, d) ==
    LET c == ConfigOf(s, r, g)
    IN  [replicas       |-> Replicas(s, r, g),
         containers     |-> VectorDecorator(<<BuildContainer(s, ServerOf(s, r, d).b, c)>>, c),
         volumes        |-> MapsCopy(commonVolumes(r, g), ServerOf(s, r, d).volumes),
         affinity       |-> ExtractAffinity(c).val,
         grace          |-> c["grace"],
         env            |-> OverridesOf(s, r, g).env,
         serviceAccount |-> <<"dolphinscheduler">>,
         pvcs           |-> ClaimsOf(s, r, g)]

\* The config map of a role group has the group's full name and, apart from a
\* file that could not be generated and vector's, the logging configuration.
LEMMA ConfigMapShape ==
    ASSUME NEW s, NEW r, NEW g, NEW d, GroupConfigMap(s, r, g, d) # Panic
    PROVE  /\ CommonFile(s, OverridesOf(s, r, g), d) # Panic
           /\ IsVectorEnable(ConfigOf(s, r, g)) # Panic
           /\ GroupConfigMap(s, r, g, d).val =
                Resource("ConfigMap", FullName(r, g),
                         [labels |-> <<r, g>>, data |-> ConfigFiles(s, r, g, d)])
<1> DEFINE file == CommonFile(s, OverridesOf(s, r, g), d)
           enabled == IsVectorEnable(ConfigOf(s, r, g))
<1>1. file # Panic /\ enabled # Panic
  BY DEF GroupConfigMap, NewConfigMapReconciler, UnlessPanic
<1> HIDE DEF file, enabled
<1> QED BY <1>1 DEF GroupConfigMap, NewConfigMapReconciler, UnlessPanic, Ok, ConfigFiles,
                  file, enabled

\* The key of an object.
Key(kind, name) == [kind |-> kind, name |-> name]

\* Keys are told apart by kind and name.
LEMMA KeyFields ==
    ASSUME NEW k, NEW n
    PROVE  /\ Key(k, n).kind = k /\ Key(k, n).name = n
           /\ \A l, m : Key(k, n) = Key(l, m) <=> k = l /\ n = m
<1>1. Key(k, n).kind = k /\ Key(k, n).name = n
  BY DEF Key
<1>2. \A l, m : Key(l, m).kind = l /\ Key(l, m).name = m
  BY DEF Key
<1> QED BY <1>1, <1>2

\* The key of a role group's config map.
LEMMA ConfigMapKey ==
    ASSUME NEW s, NEW r, NEW g, NEW d, GroupConfigMap(s, r, g, d) # Panic
    PROVE  GroupConfigMap(s, r, g, d).val.key = Key("ConfigMap", FullName(r, g))
<1>1. GroupConfigMap(s, r, g, d).val =
        Resource("ConfigMap", FullName(r, g), [labels |-> <<r, g>>, data |-> ConfigFiles(s, r, g, d)])
  BY ConfigMapShape
<1> QED BY <1>1 DEF Resource, Key

\* The key of the config map with the environment, the same for every group.
LEMMA EnvMapKey ==
    ASSUME NEW s, NEW g, NEW d, GroupEnvMap(s, g, d) # Panic
    PROVE  GroupEnvMap(s, g, d).val.key = Key("ConfigMap", RoleGroupEnvsConfigMapName)
  BY Zenon DEF GroupEnvMap, NewEnvConfigMapReconciler, UnlessPanic, Ok, Resource, Key

\* The key of a workload: StatefulSets and Deployments have the group's name.
LEMMA WorkloadKey ==
    ASSUME NEW s, NEW r, NEW g, NEW d
    PROVE  GroupWorkload(s, r, g, d).key = Key(WorkloadKind(r), FullName(r, g))
  BY DEF GroupWorkload, Workload, Resource, Key

\* The keys of a group's two services.
LEMMA ServiceKeys ==
    ASSUME NEW r, NEW g
    PROVE  /\ GroupService(r, g).key = Key("Service", FullName(r, g))
           /\ NewRoleGroupMetricsService(r, g).key = Key("Service", CreateServiceMetricsName(r, g))
<1>1. GroupService(r, g).key = Key("Service", FullName(r, g))
  BY DEF GroupService, NewServiceReconciler, Resource, Key
<1>2. NewRoleGroupMetricsService(r, g).key = Key("Service", CreateServiceMetricsName(r, g))
  BY DEF NewRoleGroupMetricsService, Resource, Key
<1> QED BY <1>1, <1>2

\* A workload that can be built: the fields of StatefulSet and Deployment.
LEMMA WorkloadShape ==
    ASSUME NEW s, NEW r, NEW g, NEW d, GroupWorkload(s, r, g, d).obj # Error
    PROVE  /\ ExtractAffinity(ConfigOf(s, r, g)) # Error
           /\ GroupWorkload(s, r, g, d).obj = WorkloadSpec(s, r, g, d)
<1> DEFINE a == ExtractAffinity(ConfigOf(s, r, g))
<1>1. a # Error
  BY DEF GroupWorkload, Workload, Resource
<1> HIDE DEF a
<1> QED BY <1>1 DEF GroupWorkload, Workload, Resource, WorkloadSpec, a

\* The first container of a workload is the server's.
LEMMA ServerContainer ==
    ASSUME NEW s, NEW r, NEW g, NEW d, GroupWorkload(s, r, g, d).obj # Error
    PROVE  GroupWorkload(s, r, g, d).obj.containers[1] =
             BuildContainer(s, ServerOf(s, r, d).b, ConfigOf(s, r, g))
<1> DEFINE b == BuildContainer(s, ServerOf(s, r, d).b, ConfigOf(s, r, g))
           c == ConfigOf(s, r, g)
<1>1. GroupWorkload(s, r, g, d).obj.containers = VectorDecorator(<<b>>, c)
  <2>1. GroupWorkload(s, r, g, d).obj = WorkloadSpec(s, r, g, d)
    BY WorkloadShape
  <2> QED BY <2>1 DEF WorkloadSpec
<1> HIDE DEF b
<1>2. VectorDecorator(<<b>>, c)[1] = b
  BY DEF VectorDecorator
<1> QED BY <1>1, <1>2 DEF b

\* Servers and schema job run the image of the CR.
LEMMA WorkloadImage ==
    ASSUME NEW s, NEW r, NEW g, NEW d, GroupWorkload(s, r, g, d).obj # Error
    PROVE  GroupWorkload(s, r, g, d).obj.containers[1].image = GetImage(s)
<1>1. GroupWorkload(s, r, g, d).obj.containers[1] =
        BuildContainer(s, ServerOf(s, r, d).b, ConfigOf(s, r, g))
  BY ServerContainer
<1> QED BY <1>1 DEF BuildContainer
=============================================================================
