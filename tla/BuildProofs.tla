---------------------------- MODULE BuildProofs -----------------------------
(***************************************************************************)
(* What one pass builds, for every CR and everything the operator reads.   *)
(*                                                                         *)
(* The inductive invariant says where in the list the resources of each    *)
(* registered role group stand; the properties follow from it and from     *)
(* what GroupReconcilers returns for one role group (GroupProofs).         *)
(***************************************************************************)
EXTENDS Build, GroupProofs

-----------------------------------------------------------------------------
(* The inductive invariant *)

\* The role groups that are registered.
Done == RoleGroups(input) \ todo

\* Either nothing panicked and the list is laid out as the role groups that are
\* done left it, or what was registered for the cluster or for a group panicked.
BuildInv ==
    /\ input \in Inputs /\ world \in Reads /\ todo \subseteq RoleGroups(input)
    /\ list # Panic =>
          /\ ClusterReconcilers(input) # Panic
          /\ list.out = "ok" /\ \E S : list.val \in Seq(S)
          /\ \A w \in Done : GroupReconcilers(input, w[1], w[2], world) # Panic
          /\ \E off : Laid(input, world, Done, list.val, off)
    /\ list = Panic =>
          \/ ClusterReconcilers(input) = Panic
          \/ \E w \in RoleGroups(input) : GroupReconcilers(input, w[1], w[2], world) = Panic

\* BuildInv is inductive.
LEMMA BuildStep == BuildInv /\ [RegisterGroup]_vars => BuildInv'
<1> SUFFICES ASSUME BuildInv, [RegisterGroup]_vars PROVE BuildInv'
  OBVIOUS
<1>1. CASE UNCHANGED vars
  BY <1>1, Zenon DEF BuildInv, Done, vars
<1>2. CASE RegisterGroup
  <2>1. PICK w \in FirstGroups(todo) :
          LET rs == GroupReconcilers(input, w[1], w[2], world)
          IN  \/ rs = Panic /\ list' = Panic /\ todo' = {}
              \/ rs # Panic /\ list' = Ok(list.val \o rs.val) /\ todo' = todo \ {w}
    BY <1>2, Zenon DEF RegisterGroup
  <2>2. /\ list # Panic /\ input' = input /\ world' = world
        /\ w \in todo /\ w \in RoleGroups(input) /\ todo \subseteq RoleGroups(input)
        /\ input \in Inputs /\ world \in Reads
    BY <1>2, <2>1, Zenon DEF RegisterGroup, FirstGroups, BuildInv
  <2>3. w[1] \in Roles
    BY <2>2, RoleGroupParts, Zenon
  <2>4. /\ ClusterReconcilers(input) # Panic
        /\ list.out = "ok" /\ \E S : list.val \in Seq(S)
        /\ \A v \in Done : GroupReconcilers(input, v[1], v[2], world) # Panic
        /\ \E off : Laid(input, world, Done, list.val, off)
    BY <2>2, Zenon DEF BuildInv
  <2> DEFINE rs == GroupReconcilers(input, w[1], w[2], world)
  <2>5. CASE rs = Panic /\ list' = Panic /\ todo' = {}
    BY <2>2, <2>5, Zenon DEF BuildInv
  <2>6. CASE rs # Panic /\ list' = Ok(list.val \o rs.val) /\ todo' = todo \ {w}
    <3>1. rs.out = "ok" /\ \E T : rs.val \in Seq(T)
      BY <2>3, <2>6, GroupSeq, Zenon
    <3>2. PICK S, T : list.val \in Seq(S) /\ rs.val \in Seq(T)
      BY <2>4, <3>1, Zenon
    <3>3. list' # Panic /\ list'.out = "ok" /\ list'.val = list.val \o rs.val
      BY <2>6, Zenon DEF Ok, Panic
    <3>4. list.val \o rs.val \in Seq(S \cup T)
      <4> HIDE DEF rs
      <4>1. list.val \in Seq(S \cup T) /\ rs.val \in Seq(S \cup T)
        BY <3>2
      <4> QED BY <4>1, Concatenation, Zenon
    <3>5. Done' = Done \cup {w} /\ w \notin Done
      BY <2>2, <2>6, OneLess, Zenon DEF Done
    <3>6. rs.val = BlockOf(input, world, w)
      BY Zenon DEF BlockOf
    <3> HIDE DEF rs
    <3>7. PICK off : Laid(input, world, Done, list.val, off)
      BY <2>4, Zenon
    <3>8. \E o : Laid(input, world, Done \cup {w}, list.val \o BlockOf(input, world, w), o)
      BY <3>2, <3>5, <3>6, <3>7, LaidMore, Zenon
    <3>9. \E o : Laid(input', world', Done', list'.val, o)
      BY <2>2, <3>3, <3>5, <3>6, <3>8, Zenon
    <3>10. \A v \in Done' : GroupReconcilers(input', v[1], v[2], world') # Panic
      BY <2>2, <2>4, <2>6, <3>5, Zenon DEF rs
    <3>11. todo' \subseteq RoleGroups(input')
      BY <2>2, <2>6, Zenon
    <3>12. \E U : list'.val \in Seq(U)
      BY <3>3, <3>4, Zenon
    <3> QED BY <2>2, <2>4, <3>3, <3>9, <3>10, <3>11, <3>12, ZenonT(30) DEF BuildInv
  <2> QED BY <2>1, <2>5, <2>6, Zenon
<1> QED BY <1>1, <1>2, Zenon

\* It holds before the loop.
LEMMA BuildStart == Init => BuildInv
<1> SUFFICES ASSUME Init PROVE BuildInv
  OBVIOUS
<1>1. CASE list = Panic
  BY <1>1, Zenon DEF Init, BuildInv
<1>2. CASE list # Panic
  <2>1. /\ list = ClusterReconcilers(input) /\ input \in Inputs /\ world \in Reads
        /\ Done = {} /\ todo = RoleGroups(input)
    BY <1>2, Zenon DEF Init, Done
  <2>2. list.out = "ok" /\ \E S : list.val \in Seq(S)
    BY <1>2, <2>1, ClusterSeq, Zenon
  <2>3. \E off : Laid(input, world, Done, list.val, off)
    BY <1>2, <2>1, LaidNone, Zenon
  <2> QED BY <1>2, <2>1, <2>2, <2>3, Zenon DEF BuildInv
<1> QED BY <1>1, <1>2, Zenon

\* RegisterResources lays the groups' resources one behind the other, and panics
\* only when building the resources of the cluster or of a role group does.
THEOREM BuildInvariant == Spec => []BuildInv
  BY BuildStart, BuildStep, PTL DEF Spec

-----------------------------------------------------------------------------
(* Where the objects of a role group stand *)

\* Role groups of a CR are told apart by the names of their objects, which are
\* never that of the shared config map.
LEMMA NamesTell ==
    ASSUME NEW s \in Inputs, NEW v \in RoleGroups(s)
    PROVE  /\ NameOf(v)[1] = v[1] /\ Tail(NameOf(v)) = v[2] /\ NameOf(v) # <<"envs">>
           /\ \A w \in RoleGroups(s) : NameOf(v) = NameOf(w) => v = w
<1>1. ASSUME NEW w \in RoleGroups(s)
      PROVE  w = <<w[1], w[2]>> /\ w[1] \in Roles /\ NameOf(w)[1] = w[1] /\ Tail(NameOf(w)) = w[2]
  <2>1. w = <<w[1], w[2]>> /\ w[1] \in Roles /\ w[2] \in GroupsOf(s, w[1])
    BY <1>1, RoleGroupParts, Zenon
  <2>2. w[2] \in Seq(TokensOf(w[2]))
    BY <2>1, InputsAssumption, Zenon
  <2>3. FullName(w[1], w[2])[1] = w[1] /\ Tail(FullName(w[1], w[2])) = w[2]
    <3>1. PICK r, g, S : r = w[1] /\ g = w[2] /\ S = TokensOf(w[2])
      OBVIOUS
    <3>2. g \in Seq(S)
      BY <2>2, <3>1, Zenon
    <3>3. FullName(r, g)[1] = r /\ Tail(FullName(r, g)) = g
      BY <3>2, FullNameParts, Zenon
    <3> QED BY <3>1, <3>3, Zenon
  <2> QED BY <2>1, <2>3, Zenon DEF NameOf
<1>2. NameOf(v) # <<"envs">>
  <2>1. v[1] # "envs" /\ NameOf(v)[1] = v[1]
    BY <1>1, Zenon DEF Roles
  <2> QED BY <2>1
<1> QED BY <1>1, <1>2, ZenonT(30)

\* A workload of the list is that of a registered role group, and its config map
\* stands before it.
LEMMA WorkloadAt ==
    ASSUME BuildInv, list # Panic, NEW i \in Workloads
    PROVE  \E w \in RoleGroups(input) :
             /\ list.val[i] = WorkloadOf(input, world, w) /\ list.val[i].obj # Error
             /\ GroupReconcilers(input, w[1], w[2], world) # Panic
             /\ w[1] = "api" => ApiServer(input, world).out = "ok"
             /\ \E j \in DOMAIN list.val : j < i /\ list.val[j] = ConfigMapOf(input, world, w)
<1>1. /\ ClusterReconcilers(input) # Panic
      /\ \A w \in Done : GroupReconcilers(input, w[1], w[2], world) # Panic
  BY Zenon DEF BuildInv
<1>2. PICK off : Laid(input, world, Done, list.val, off)
  BY Zenon DEF BuildInv
<1>3. i \in DOMAIN list.val /\ list.val[i].key.kind \in WorkloadKinds /\ list.val[i].obj # Error
  BY Zenon DEF Workloads, WorkloadKinds
<1>4. ~(i \in 1..4 /\ list.val[i] = ClusterReconcilers(input).val[i])
  BY <1>1, <1>3, ClusterKinds, Zenon
<1>5. PICK w \in Done : \E k \in DOMAIN BlockOf(input, world, w) : i = off[w] + k
  BY <1>2, <1>3, <1>4, Zenon DEF Laid
<1>5k. PICK k \in DOMAIN BlockOf(input, world, w) : i = off[w] + k
  BY <1>5, Zenon
<1>6. w \in RoleGroups(input) /\ w[1] \in Roles /\ off[w] \in Nat
  BY <1>2, <1>5, <1>5k, RoleGroupParts, Zenon DEF Done, Laid
<1>7. list.val[i] = BlockOf(input, world, w)[k]
  BY <1>2, <1>5, <1>5k, Zenon DEF Laid
<1>8. /\ k \in Nat /\ k > 1 /\ 1 \in DOMAIN BlockOf(input, world, w)
      /\ BlockOf(input, world, w)[k] = WorkloadOf(input, world, w)
      /\ BlockOf(input, world, w)[1] = ConfigMapOf(input, world, w)
      /\ w[1] = "api" => ApiServer(input, world).out = "ok"
  BY <1>1, <1>3, <1>5, <1>5k, <1>6, <1>7, BlockPlaces, SMTT(30)
<1>9. off[w] + 1 \in DOMAIN list.val /\ list.val[off[w] + 1] = ConfigMapOf(input, world, w)
  BY <1>2, <1>5, <1>5k, <1>8, Zenon DEF Laid
<1>10. off[w] + 1 < i
  BY <1>5, <1>5k, <1>6, <1>8, SMTT(30)
<1> QED BY <1>1, <1>3, <1>5, <1>5k, <1>6, <1>7, <1>8, <1>9, <1>10, Zenon

\* A config map of the list that has the name of a role group is that of the group.
LEMMA ConfigMapAt ==
    ASSUME BuildInv, list # Panic, NEW i \in DOMAIN list.val, NEW w \in RoleGroups(input),
           list.val[i].key = Key("ConfigMap", NameOf(w))
    PROVE  list.val[i] = ConfigMapOf(input, world, w)
<1>1. /\ ClusterReconcilers(input) # Panic /\ input \in Inputs
      /\ \A v \in Done : GroupReconcilers(input, v[1], v[2], world) # Panic
  BY Zenon DEF BuildInv
<1>2. PICK off : Laid(input, world, Done, list.val, off)
  BY Zenon DEF BuildInv
<1>3. list.val[i].key.kind = "ConfigMap" /\ list.val[i].key.name = NameOf(w)
  BY KeyFields, SMTT(30)
<1>4. ~(i \in 1..4 /\ list.val[i] = ClusterReconcilers(input).val[i])
  BY <1>1, <1>3, ClusterKinds, Zenon
<1>5. PICK v \in Done : \E k \in DOMAIN BlockOf(input, world, v) : i = off[v] + k
  BY <1>2, <1>4, Zenon DEF Laid
<1>5k. PICK k \in DOMAIN BlockOf(input, world, v) : i = off[v] + k
  BY <1>5, Zenon
<1>6. v \in RoleGroups(input) /\ v[1] \in Roles
  BY <1>5, <1>5k, RoleGroupParts, Zenon DEF Done
<1>7. list.val[i] = BlockOf(input, world, v)[k]
  BY <1>2, <1>5, <1>5k, Zenon DEF Laid
<1>8. BlockOf(input, world, v)[k] = ConfigMapOf(input, world, v) \/ NameOf(w) = <<"envs">>
  <2>1. GroupReconcilers(input, v[1], v[2], world) # Panic
    BY <1>1, <1>5, Zenon
  <2>2. BlockOf(input, world, v)[k].key.kind = "ConfigMap" =>
          \/ BlockOf(input, world, v)[k] = ConfigMapOf(input, world, v)
          \/ BlockOf(input, world, v)[k].key.name = <<"envs">>
    BY <1>6, <2>1, BlockPlaces, ZenonT(30)
  <2> QED BY <1>3, <1>7, <2>2, Zenon
<1>9. NameOf(w) # <<"envs">>
  BY <1>1, NamesTell, Zenon
<1>10. ConfigMapOf(input, world, v).key = Key("ConfigMap", NameOf(v))
  <2>1. GroupConfigMap(input, v[1], v[2], world) # Panic
    BY <1>1, <1>5, <1>5k, <1>6, BlockShape, Zenon
  <2> QED BY <2>1, BlockKeys, Zenon
<1>11. NameOf(v) = NameOf(w)
  BY <1>7, <1>8, <1>9, <1>10, KeyFields, SMTT(30)
<1> QED BY <1>1, <1>6, <1>7, <1>8, <1>9, <1>11, NamesTell, Zenon

-----------------------------------------------------------------------------
(* The script and the settings of a server *)

\* CommonCommandArgs replaces the script, so that calling it twice starts the
\* server once.
LEMMA ScriptHolds == BuildInv => ScriptRunsOnce
<1> SUFFICES ASSUME BuildInv, list # Panic, NEW i \in Workloads,
                    LdapVolumeName \notin DOMAIN list.val[i].obj.volumes
             PROVE  list.val[i].obj.containers[1].script = RoleScript
  <2>1. /\ \E n \in DOMAIN RoleScript : {m \in DOMAIN RoleScript : RoleScript[m] = "start"} = {n}
        /\ RoleScript[1] = "trap" /\ RoleScript[Len(RoleScript)] = "createShutdownFile"
    BY ScriptOnce, Zenon
  <2> QED BY <2>1, Zenon DEF ScriptRunsOnce
<1>1. PICK w \in RoleGroups(input) :
        /\ list.val[i] = WorkloadOf(input, world, w) /\ list.val[i].obj # Error
        /\ w[1] = "api" => ApiServer(input, world).out = "ok"
  BY WorkloadAt, Zenon
<1> DEFINE r == w[1]
           g == w[2]
           v == ServerOf(input, r, world).volumes
<1>2. list.val[i].obj = GroupWorkload(input, r, g, world).obj /\ GroupWorkload(input, r, g, world).obj # Error
  BY <1>1, Zenon DEF WorkloadOf
<1>3. /\ list.val[i].obj.containers[1].script = ServerOf(input, r, world).b.argsScript
      /\ list.val[i].obj.volumes = MapsCopy(commonVolumes(r, g), v)
  BY <1>2, WorkloadFields, SMTT(30)
<1>4. LdapVolumeName \notin DOMAIN v
  <2> HIDE DEF v
  <2> QED BY <1>3, Zenon DEF MapsCopy
<1> QED BY <1>1, <1>3, <1>4, PlainServer, Zenon

\* Every server that does not export LDAP credentials is started once, in every
\* list a pass can build.
THEOREM ServerStartsOnce == Spec => []ScriptRunsOnce
  BY BuildInvariant, ScriptHolds, PTL

\* The merge of RoleReconciler takes each field from the group, else from the
\* role, else from the defaults.
LEMMA SettingIs ==
    ASSUME input \in Inputs, NEW r \in Roles, NEW g \in GroupsOf(input, r), NEW f \in ConfigFields
    PROVE  ConfigOf(input, r, g)[f] = Setting(r, g, f)
<1> DEFINE rc == input.roles[r].config
           gc == input.roles[r].roleGroups[g].config
           mc == MergeObject(rc, gc)
           x  == IF mc = Nil THEN EmptyMap ELSE mc
<1>1. ConfigOf(input, r, g) = MapsCopy(DefaultConfig(r), x)
  BY Zenon DEF ConfigOf, GroupConfig, MergeDefaultConfig
<1>2. mc = Nil => rc = Nil /\ gc = Nil
  BY NilAssumption, Zenon
<1>3. mc = IF rc = Nil \/ gc = Nil THEN (IF gc = Nil THEN rc ELSE gc) ELSE MapsCopy(rc, gc)
  BY Zenon DEF MergeObject
<1>4. Setting(r, g, f) = IF gc # Nil /\ f \in DOMAIN gc THEN gc[f]
                         ELSE IF rc # Nil /\ f \in DOMAIN rc THEN rc[f] ELSE "default"
  BY Zenon DEF Setting
<1> HIDE DEF rc, gc, mc, x
<1>5. MapsCopy(DefaultConfig(r), x)[f] = IF f \in DOMAIN x THEN x[f] ELSE "default"
  BY Zenon DEF MapsCopy, DefaultConfig
<1>6. CASE rc = Nil /\ gc = Nil
  <2>1. mc = Nil
    BY <1>3, <1>6, Zenon
  <2>2. x = EmptyMap
    BY <2>1, Zenon DEF x
  <2>3. f \notin DOMAIN x
    BY <2>2, Zenon DEF EmptyMap
  <2> QED BY <1>1, <1>4, <1>5, <1>6, <2>3, Zenon
<1>7. CASE ~(rc = Nil /\ gc = Nil) /\ (rc = Nil \/ gc = Nil)
  BY <1>1, <1>2, <1>3, <1>4, <1>5, <1>7, SMTT(30) DEF x
<1>8. CASE rc # Nil /\ gc # Nil
  <2>1. x = MapsCopy(rc, gc)
    BY <1>2, <1>3, <1>8, Zenon DEF x
  <2>2. /\ f \in DOMAIN x <=> f \in DOMAIN rc \/ f \in DOMAIN gc
        /\ f \in DOMAIN x => x[f] = IF f \in DOMAIN gc THEN gc[f] ELSE rc[f]
    BY <2>1, Zenon DEF MapsCopy
  <2> QED BY <1>1, <1>4, <1>5, <1>8, <2>2, SMTT(30)
<1> QED BY <1>6, <1>7, <1>8, Zenon

\* What a workload of the list is set to is what the group, the role and the
\* defaults say.
LEMMA SettingsHold == BuildInv => GroupOverRole
<1> SUFFICES ASSUME BuildInv, list # Panic, NEW i \in Workloads
             PROVE  LET role  == list.val[i].key.name[1]
                        group == Tail(list.val[i].key.name)
                    IN  /\ list.val[i].obj.containers[1].resources =
                             <<Setting(role, group, "cpu"), Setting(role, group, "memory")>>
                        /\ list.val[i].obj.grace = Setting(role, group, "grace")
                        /\ role = "worker" => list.val[i].obj.pvcs = <<Setting(role, group, "storage")>>
  BY Zenon DEF GroupOverRole
<1>1. PICK w \in RoleGroups(input) :
        /\ list.val[i] = WorkloadOf(input, world, w) /\ list.val[i].obj # Error
        /\ GroupReconcilers(input, w[1], w[2], world) # Panic
  BY WorkloadAt, Zenon
<1> DEFINE r == w[1]
           g == w[2]
<1>2. list.val[i].obj = GroupWorkload(input, r, g, world).obj /\ GroupWorkload(input, r, g, world).obj # Error
  BY <1>1, Zenon DEF WorkloadOf
<1>3. input \in Inputs /\ r \in Roles /\ g \in GroupsOf(input, r)
  BY RoleGroupParts, Zenon DEF BuildInv
<1>4. list.val[i].key.name[1] = r /\ Tail(list.val[i].key.name) = g
  <2>1. list.val[i].key = Key(WorkloadKind(r), NameOf(w))
    BY <1>1, WorkloadKey DEF WorkloadOf, NameOf
  <2>2. list.val[i].key.name = NameOf(w)
    BY <2>1, KeyFields, SMTT(30)
  <2> QED BY <1>3, <2>2, NamesTell, SMTT(30)
<1>5. /\ list.val[i].obj.containers[1].resources =
           <<ConfigOf(input, r, g)["cpu"], ConfigOf(input, r, g)["memory"]>>
      /\ list.val[i].obj.grace = ConfigOf(input, r, g)["grace"]
      /\ list.val[i].obj.pvcs = ClaimsOf(input, r, g)
  BY <1>2, WorkloadFields
<1>6. r = "worker" => ClaimsOf(input, r, g) = <<ConfigOf(input, r, g)["storage"]>>
  BY Zenon DEF ClaimsOf, WithPvcTemplates
<1>7. \A f \in ConfigFields : ConfigOf(input, r, g)[f] = Setting(r, g, f)
  BY <1>3, SettingIs, Zenon
<1>8. {"cpu", "memory", "grace", "storage"} \subseteq ConfigFields
  BY Zenon DEF ConfigFields
<1>9. /\ ConfigOf(input, r, g)["cpu"] = Setting(r, g, "cpu")
      /\ ConfigOf(input, r, g)["memory"] = Setting(r, g, "memory")
      /\ ConfigOf(input, r, g)["grace"] = Setting(r, g, "grace")
      /\ ConfigOf(input, r, g)["storage"] = Setting(r, g, "storage")
  BY <1>7, <1>8, Zenon
<1> QED BY <1>4, <1>5, <1>6, <1>9, Zenon

\* A group's setting holds against its role's, and that against the default, for
\* every CR.
THEOREM GroupSettingsWin == Spec => []GroupOverRole
  BY BuildInvariant, SettingsHold, PTL

-----------------------------------------------------------------------------
(* What the resources of a role group depend on *)

\* Editing one role leaves what is built for the others as it is.
LEMMA EditsHold == BuildInv => EditIsLocal
<1> SUFFICES ASSUME BuildInv, NEW t \in Inputs, NEW r \in Roles, Unedited(input, t, r),
                    NEW w \in RoleGroups(input), w[1] # r
             PROVE  GroupReconcilers(t, w[1], w[2], world) = GroupReconcilers(input, w[1], w[2], world)
  BY Zenon DEF EditIsLocal
<1>1. /\ DOMAIN input = {"productVersion", "stopped", "clusterConfig", "roles"}
      /\ DOMAIN input.roles = Roles /\ w[1] \in Roles
  BY InputsAssumption, RoleGroupParts, Zenon DEF BuildInv
<1>2. t = [input EXCEPT !.roles[r] = t.roles[r]]
  BY Zenon DEF Unedited
<1>3. /\ t.productVersion = input.productVersion /\ t.stopped = input.stopped
      /\ t.clusterConfig = input.clusterConfig /\ t.roles[w[1]] = input.roles[w[1]]
  BY <1>1, <1>2, Zenon
<1> QED BY <1>1, <1>3, SameGroup DEF SameFor

\* A role is rolled out again only when it is edited, for every pair of CRs.
THEOREM EditsStayLocal == Spec => []EditIsLocal
  BY BuildInvariant, EditsHold, PTL

\* Stopping scales the workload of a role group and leaves the rest of its block.
LEMMA StoppedBlock ==
    ASSUME NEW s, NEW t, NEW d, NEW w, w[1] \in Roles, SameFor(s, t, w[1]), t.stopped,
           GroupReconcilers(s, w[1], w[2], d) # Panic
    PROVE  /\ Len(BlockOf(s, d, w)) = Len(BlockOf(t, d, w))
           /\ \A i \in DOMAIN BlockOf(s, d, w) : Scaled(BlockOf(s, d, w)[i], 0) = BlockOf(t, d, w)[i]
<1> DEFINE c == ConfigMapOf(s, d, w)
           e == EnvMapOf(s, d, w)
           l == WorkloadOf(s, d, w)
           h == WorkloadOf(t, d, w)
           u == ServiceOf(w)
           m == MetricsOf(w)
           b == BlockOf(s, d, w)
           a == BlockOf(t, d, w)
<1>1. /\ GroupConfigMap(s, w[1], w[2], d) = GroupConfigMap(t, w[1], w[2], d)
      /\ w[1] = "master" => GroupEnvMap(s, w[2], d) = GroupEnvMap(t, w[2], d)
      /\ ApiServer(s, d) = ApiServer(t, d)
  BY SameParts
<1>2. GroupReconcilers(t, w[1], w[2], d) # Panic
  BY <1>1, GroupPanics
<1>3. h = IF l.obj # Error THEN [l EXCEPT !.obj.replicas = 0] ELSE l
  BY SameWorkload DEF WorkloadOf
<1>4. /\ \/ /\ w[1] = "master" /\ GroupEnvMap(s, w[2], d) # Panic
            /\ b = <<c, e, l, u, m>> /\ a = <<c, e, h, u, m>>
         \/ b = <<c, l, u, m>> /\ a = <<c, h, u, m>>
         \/ b = <<m>> /\ a = <<m>>
      /\ GroupConfigMap(s, w[1], w[2], d) # Panic
  <2>1. c = ConfigMapOf(t, d, w) /\ (w[1] = "master" => e = EnvMapOf(t, d, w))
    BY <1>1, Zenon DEF ConfigMapOf, EnvMapOf
  <2>2. /\ \/ w[1] = "master" /\ GroupEnvMap(s, w[2], d) # Panic /\ b = <<c, e, l, u, m>>
           \/ w[1] # "master" /\ (w[1] = "api" => ApiServer(s, d).out = "ok") /\ b = <<c, l, u, m>>
           \/ w[1] = "api" /\ ApiServer(s, d) = Error /\ b = <<m>>
        /\ GroupConfigMap(s, w[1], w[2], d) # Panic
    BY BlockShape, Zenon
  <2>3. \/ w[1] = "master" /\ a = <<ConfigMapOf(t, d, w), EnvMapOf(t, d, w), h, u, m>>
        \/ w[1] # "master" /\ (w[1] = "api" => ApiServer(t, d).out = "ok")
           /\ a = <<ConfigMapOf(t, d, w), h, u, m>>
        \/ w[1] = "api" /\ ApiServer(t, d) = Error /\ a = <<m>>
    BY <1>2, BlockShape, Zenon
  <2> HIDE DEF c, e, l, h, u, m, b, a
  <2>4. ApiServer(t, d) = Error => ApiServer(t, d).out # "ok"
    BY DEF Error
  <2>5. CASE w[1] = "master"
    BY <2>1, <2>2, <2>3, <2>5, Zenon
  <2>6. CASE w[1] # "master"
    BY <1>1, <2>1, <2>2, <2>3, <2>4, <2>6, ZenonT(30)
  <2> QED BY <2>5, <2>6, Zenon
<1>5. /\ c.key.kind = "ConfigMap" /\ u.key.kind = "Service" /\ m.key.kind = "Service"
      /\ GroupEnvMap(s, w[2], d) # Panic => e.key.kind = "ConfigMap"
      /\ l.key.kind \in WorkloadKinds
  BY <1>4, BlockKeys, KeyFields
<1> HIDE DEF c, e, l, h, u, m, b, a
<1>6. /\ Scaled(c, 0) = c /\ Scaled(u, 0) = u /\ Scaled(m, 0) = m /\ Scaled(l, 0) = h
      /\ GroupEnvMap(s, w[2], d) # Panic => Scaled(e, 0) = e
  BY <1>3, <1>5, Zenon DEF Scaled, WorkloadKinds
<1>7. Len(b) = Len(a) /\ \A i \in DOMAIN b : Scaled(b[i], 0) = a[i]
  <2>1. CASE w[1] = "master" /\ GroupEnvMap(s, w[2], d) # Panic
             /\ b = <<c, e, l, u, m>> /\ a = <<c, e, h, u, m>>
    <3>1. /\ DOMAIN b = 1..5 /\ b[1] = c /\ b[2] = e /\ b[3] = l /\ b[4] = u /\ b[5] = m
          /\ Len(b) = 5
      BY <2>1
    <3>2. a[1] = c /\ a[2] = e /\ a[3] = h /\ a[4] = u /\ a[5] = m /\ Len(a) = 5
      BY <2>1, Zenon
    <3> QED BY <1>6, <2>1, <3>1, <3>2, SMTT(30)
  <2>2. CASE b = <<c, l, u, m>> /\ a = <<c, h, u, m>>
    <3>1. DOMAIN b = 1..4 /\ b[1] = c /\ b[2] = l /\ b[3] = u /\ b[4] = m /\ Len(b) = 4
      BY <2>2
    <3>2. a[1] = c /\ a[2] = h /\ a[3] = u /\ a[4] = m /\ Len(a) = 4
      BY <2>2, Zenon
    <3> QED BY <1>6, <3>1, <3>2
  <2>3. CASE b = <<m>> /\ a = <<m>>
    <3>1. DOMAIN b = {1} /\ b[1] = m /\ Len(b) = 1 /\ a[1] = m /\ Len(a) = 1
      BY <2>3
    <3> QED BY <1>6, <3>1, Zenon
  <2> QED BY <1>4, <2>1, <2>2, <2>3, Zenon
<1> QED BY <1>7, Zenon DEF a, b

\* A stopped cluster is what was built before, scaled to zero.
LEMMA StopsHold == BuildInv => StopOnlyScales
<1> SUFFICES ASSUME BuildInv, Complete, NEW w \in RoleGroups(input)
             PROVE  LET on  == GroupReconcilers(input, w[1], w[2], world).val
                        off == GroupReconcilers([input EXCEPT !.stopped = TRUE], w[1], w[2], world).val
                    IN  Len(on) = Len(off) /\ \A i \in DOMAIN on : Scaled(on[i], 0) = off[i]
  BY Zenon DEF StopOnlyScales
<1>1. GroupReconcilers(input, w[1], w[2], world) # Panic /\ w[1] \in Roles
  BY RoleGroupParts, Zenon DEF BuildInv, Complete, Done
<1>2. PICK t : t = [input EXCEPT !.stopped = TRUE]
  BY ZenonT(30)
<1>3. t.stopped /\ SameFor(input, t, w[1])
  <2>1. DOMAIN input = {"productVersion", "stopped", "clusterConfig", "roles"}
    BY InputsAssumption, Zenon DEF BuildInv
  <2> QED BY <1>2, <2>1, Zenon DEF SameFor
<1>4. /\ Len(BlockOf(input, world, w)) = Len(BlockOf(t, world, w))
      /\ \A i \in DOMAIN BlockOf(input, world, w) :
            Scaled(BlockOf(input, world, w)[i], 0) = BlockOf(t, world, w)[i]
  BY <1>1, <1>3, StoppedBlock
<1> QED BY <1>2, <1>4, Zenon DEF BlockOf

\* Stopping a cluster changes nothing but the number of its pods, for every CR.
THEOREM StoppingOnlyScales == Spec => []StopOnlyScales
  BY BuildInvariant, StopsHold, PTL

-----------------------------------------------------------------------------
(* The files of the config maps *)

\* Every mount of a workload of the list finds its volume and its file.
LEMMA FilesHold == BuildInv => PodsFindTheirFiles
<1> SUFFICES ASSUME BuildInv, list # Panic, NEW i \in Workloads,
                    NEW m \in Range(list.val[i].obj.containers[1].volumeMounts)
             PROVE  LET w == list.val[i].obj
                    IN  /\ m.name \in DOMAIN w.volumes
                        /\ "configMap" \in DOMAIN w.volumes[m.name] =>
                             LET maps == {j \in Built("ConfigMap", w.volumes[m.name].configMap) : j < i}
                             IN  /\ maps # {}
                                 /\ \A j \in maps :
                                      LET files == DOMAIN list.val[j].obj.data
                                      IN  /\ w.volumes[m.name].items \subseteq files
                                          /\ \/ m.subPath \in files
                                             \/ m.subPath = CommonProperties /\ ~S3Readable(input)
                                          /\ Len(w.containers) = 2 =>
                                               ("vector.yaml" \in files
                                                  <=> input.clusterConfig.vectorAggregator \in world.aggregators)
  BY Zenon DEF PodsFindTheirFiles
<1>1. PICK w \in RoleGroups(input) :
        /\ list.val[i] = WorkloadOf(input, world, w) /\ list.val[i].obj # Error
        /\ GroupReconcilers(input, w[1], w[2], world) # Panic
        /\ w[1] = "api" => ApiServer(input, world).out = "ok"
        /\ \E j \in DOMAIN list.val : j < i /\ list.val[j] = ConfigMapOf(input, world, w)
  BY WorkloadAt, Zenon
<1> DEFINE r == w[1]
           g == w[2]
           o == list.val[i].obj
           v == ServerOf(input, r, world).volumes
           n == FullName(r, g)
           files == DOMAIN ConfigFiles(input, r, g, world)
           vector == IsVectorEnable(ConfigOf(input, r, g)) = Ok(TRUE)
<1>2. o = GroupWorkload(input, r, g, world).obj /\ GroupWorkload(input, r, g, world).obj # Error
  BY <1>1, Zenon DEF WorkloadOf
<1>3. /\ o.containers[1].volumeMounts = ServerOf(input, r, world).b.volumeMounts
      /\ o.volumes = MapsCopy(commonVolumes(r, g), v)
  BY <1>2, WorkloadFields, SMTT(30)
<1>4. /\ v = EmptyMap \/ DOMAIN v = {LdapVolumeName}
      /\ \/ m.name = "common-config" /\ m.subPath = CommonProperties
         \/ m.name = "logback" /\ m.subPath = LogbackPropertiesFileName
         \/ /\ m.name = LdapVolumeName /\ m.name \in DOMAIN v
            /\ "configMap" \notin DOMAIN v[m.name]
  BY <1>1, <1>3, MountsAre, Zenon
<1>5. /\ "common-config" \in DOMAIN o.volumes /\ "logback" \in DOMAIN o.volumes
      /\ o.volumes["common-config"].configMap = n /\ o.volumes["common-config"].items = {}
      /\ o.volumes["logback"].configMap = n
      /\ o.volumes["logback"].items = {LogbackPropertiesFileName}
      /\ LdapVolumeName \in DOMAIN v =>
           LdapVolumeName \in DOMAIN o.volumes /\ o.volumes[LdapVolumeName] = v[LdapVolumeName]
  <2>1. HasConfigVolumes(o.volumes, n, v)
    BY <1>3, <1>4, ConfigVolumes, Zenon
  <2> QED BY <2>1, Zenon DEF HasConfigVolumes
<1>6. r \in Roles /\ GroupConfigMap(input, r, g, world) # Panic
  BY <1>1, RoleGroupParts, BlockShape, Zenon
<1>7. /\ ConfigMapOf(input, world, w).key = Key("ConfigMap", n)
      /\ ConfigMapOf(input, world, w).obj.data = ConfigFiles(input, r, g, world)
  <2>1. ConfigMapOf(input, world, w).key = Key("ConfigMap", n)
    BY <1>6, ConfigMapKey, SMTT(30) DEF ConfigMapOf
  <2>2. ConfigMapOf(input, world, w) =
          Resource("ConfigMap", n, [labels |-> <<r, g>>, data |-> ConfigFiles(input, r, g, world)])
    BY <1>6, ConfigMapShape, SMTT(30) DEF ConfigMapOf
  <2> QED BY <2>1, <2>2 DEF Resource
<1>8. files = (IF S3Resolves(input, world) THEN {CommonProperties} ELSE {})
              \cup (IF vector /\ input.clusterConfig.vectorAggregator \in world.aggregators
                    THEN {"vector.yaml"} ELSE {})
              \cup {LogbackPropertiesFileName}
  BY FilesAre, Zenon
<1>9. S3Resolves(input, world) <=> S3Readable(input)
  BY Zenon DEF S3Resolves, S3Readable
<1>10. Len(o.containers) = 2 => vector
  BY <1>2, SecondContainer, Zenon
<1>11. PICK j \in DOMAIN list.val : j < i /\ list.val[j] = ConfigMapOf(input, world, w)
  BY <1>1, Zenon
<1>12. j \in {k \in Built("ConfigMap", n) : k < i}
  BY <1>7, <1>11, Zenon DEF Built, Key
<1>13. ASSUME NEW k \in Built("ConfigMap", n)
       PROVE  DOMAIN list.val[k].obj.data = files
  <2>1. k \in DOMAIN list.val /\ list.val[k].key = Key("ConfigMap", NameOf(w))
    BY <1>13, Zenon DEF Built, Key, NameOf
  <2>2. list.val[k] = ConfigMapOf(input, world, w)
    BY <2>1, ConfigMapAt, Zenon
  <2> QED BY <1>7, <2>2, Zenon
<1> HIDE DEF r, g, o, v, n, files, vector
<1>14. /\ LogbackPropertiesFileName \in files
       /\ CommonProperties \in files \/ ~S3Readable(input)
       /\ Len(o.containers) = 2 =>
            ("vector.yaml" \in files <=> input.clusterConfig.vectorAggregator \in world.aggregators)
  BY <1>8, <1>9, <1>10, Zenon DEF CommonProperties, LogbackPropertiesFileName
<1>15. CASE m.name = "common-config" /\ m.subPath = CommonProperties
  BY <1>5, <1>12, <1>13, <1>14, <1>15, ZenonT(30) DEF o
<1>16. CASE m.name = "logback" /\ m.subPath = LogbackPropertiesFileName
  BY <1>5, <1>12, <1>13, <1>14, <1>16, ZenonT(30) DEF o
<1>17. CASE m.name = LdapVolumeName /\ m.name \in DOMAIN v /\ "configMap" \notin DOMAIN v[m.name]
  BY <1>5, <1>17, Zenon DEF o
<1> QED BY <1>4, <1>15, <1>16, <1>17, ZenonT(30)

\* In every list a pass can build, a pod finds the files it mounts.
THEOREM MountedFilesExist == Spec => []PodsFindTheirFiles
  BY BuildInvariant, FilesHold, PTL

-----------------------------------------------------------------------------
(* No two reconcilers for one object *)

\* Metrics services are told apart by their names, from each other and, in a CR
\* without a group named like one, from the services.
LEMMA MetricsTell ==
    ASSUME NEW s \in Inputs, NEW v \in RoleGroups(s), NEW w \in RoleGroups(s)
    PROVE  /\ MetricsNameOf(v) = MetricsNameOf(w) => v = w
           /\ Distinguishable(s) => MetricsNameOf(v) # NameOf(w)
<1>1. ASSUME NEW x \in RoleGroups(s)
      PROVE  /\ x = <<x[1], x[2]>> /\ x[1] \in Roles /\ x[2] \in GroupsOf(s, x[1])
             /\ x[2] \in Seq(TokensOf(x[2]))
             /\ NameOf(x)[1] = x[1] /\ Tail(NameOf(x)) = x[2]
             /\ MetricsNameOf(x)[1] = x[1] /\ Tail(MetricsNameOf(x)) = x[2] \o MetricsSuffix
  <2>1. x = <<x[1], x[2]>> /\ x[1] \in Roles /\ x[2] \in GroupsOf(s, x[1])
    BY <1>1, RoleGroupParts, Zenon
  <2>2. x[2] \in Seq(TokensOf(x[2]))
    BY <2>1, InputsAssumption, Zenon
  <2>3. NameOf(x)[1] = x[1] /\ Tail(NameOf(x)) = x[2]
    BY <1>1, NamesTell, Zenon
  <2>4. PICK r, g, S : r = x[1] /\ g = x[2] /\ S = TokensOf(x[2])
    OBVIOUS
  <2>5. g \in Seq(S)
    BY <2>2, <2>4, Zenon
  <2>6. CreateServiceMetricsName(r, g)[1] = r /\ Tail(CreateServiceMetricsName(r, g)) = g \o MetricsSuffix
    BY <2>5, MetricsNameParts, Zenon
  <2> QED BY <2>1, <2>2, <2>3, <2>4, <2>6, ZenonT(30) DEF MetricsNameOf
<1>2. ASSUME MetricsNameOf(v) = MetricsNameOf(w) PROVE v = w
  <2>1. v[1] = w[1] /\ v[2] \o MetricsSuffix = w[2] \o MetricsSuffix
    <3>1. /\ MetricsNameOf(v)[1] = v[1] /\ Tail(MetricsNameOf(v)) = v[2] \o MetricsSuffix
          /\ MetricsNameOf(w)[1] = w[1] /\ Tail(MetricsNameOf(w)) = w[2] \o MetricsSuffix
      BY <1>1, Zenon
    <3> QED BY <1>2, <3>1, Zenon
  <2> DEFINE T == TokensOf(v[2]) \cup TokensOf(w[2]) \cup {"metrics"}
  <2>2. v[2] \in Seq(T) /\ w[2] \in Seq(T) /\ MetricsSuffix \in Seq(T)
    <3>1. v[2] \in Seq(TokensOf(v[2])) /\ w[2] \in Seq(TokensOf(w[2]))
      BY <1>1, Zenon
    <3> QED BY <3>1 DEF MetricsSuffix
  <2> HIDE DEF T
  <2>3. v[2] = w[2]
    <3>1. \A x, y, z \in Seq(T) : x \o z = y \o z => x = y
      BY SameEnd, Zenon
    <3> QED BY <2>1, <2>2, <3>1, Zenon
  <2>4. v = <<v[1], v[2]>> /\ w = <<w[1], w[2]>>
    BY <1>1, Zenon
  <2> QED BY <2>1, <2>3, <2>4, Zenon
<1>3. ASSUME Distinguishable(s), MetricsNameOf(v) = NameOf(w) PROVE FALSE
  <2>1. v[1] = w[1] /\ w[2] = v[2] \o MetricsSuffix
    <3>1. /\ MetricsNameOf(v)[1] = v[1] /\ Tail(MetricsNameOf(v)) = v[2] \o MetricsSuffix
          /\ NameOf(w)[1] = w[1] /\ Tail(NameOf(w)) = w[2]
      BY <1>1, Zenon
    <3> QED BY <1>3, <3>1, Zenon
  <2>2. v[1] \in Roles /\ v[2] \in GroupsOf(s, v[1]) /\ w[2] \in GroupsOf(s, v[1])
    BY <1>1, <2>1, Zenon
  <2> QED BY <1>3, <2>1, <2>2, Zenon DEF Distinguishable, MetricsSuffix
<1> QED BY <1>2, <1>3, Zenon

\* Two resources of role groups with one key are the same one.
LEMMA KeysTell ==
    ASSUME NEW s \in Inputs, NEW d, Distinguishable(s),
           NEW v \in RoleGroups(s), GroupReconcilers(s, v[1], v[2], d) # Panic,
           NEW w \in RoleGroups(s), GroupReconcilers(s, w[1], w[2], d) # Panic,
           NEW k \in DOMAIN BlockOf(s, d, v), NEW l \in DOMAIN BlockOf(s, d, w),
           BlockOf(s, d, v)[k].key = BlockOf(s, d, w)[l].key
    PROVE  v = w /\ k = l
<1> DEFINE x == BlockOf(s, d, v)[k].key
           n == Len(BlockOf(s, d, v))
           y == BlockOf(s, d, w)[l].key
           m == Len(BlockOf(s, d, w))
<1>1. v[1] \in Roles /\ w[1] \in Roles /\ v = <<v[1], v[2]>> /\ w = <<w[1], w[2]>>
      /\ v[2] \in GroupsOf(s, v[1]) /\ w[2] \in GroupsOf(s, w[1])
  BY RoleGroupParts, Zenon
<1>2. \/ x = Key("ConfigMap", NameOf(v)) /\ k = 1
      \/ x = Key("ConfigMap", <<"envs">>) /\ k = 2 /\ v[1] = "master"
      \/ x = Key(WorkloadKind(v[1]), NameOf(v)) /\ k = n - 2
      \/ x = Key("Service", NameOf(v)) /\ k = n - 1
      \/ x = Key("Service", MetricsNameOf(v)) /\ k = n
  BY <1>1, KeysInBlock, ZenonT(30)
<1>3. \/ y = Key("ConfigMap", NameOf(w)) /\ l = 1
      \/ y = Key("ConfigMap", <<"envs">>) /\ l = 2 /\ w[1] = "master"
      \/ y = Key(WorkloadKind(w[1]), NameOf(w)) /\ l = m - 2
      \/ y = Key("Service", NameOf(w)) /\ l = m - 1
      \/ y = Key("Service", MetricsNameOf(w)) /\ l = m
  BY <1>1, KeysInBlock
<1>4. /\ NameOf(v) # <<"envs">> /\ NameOf(w) # <<"envs">>
      /\ NameOf(v) = NameOf(w) => v = w
  BY NamesTell, Zenon
<1>5. /\ MetricsNameOf(v) = MetricsNameOf(w) => v = w
      /\ MetricsNameOf(v) # NameOf(w) /\ MetricsNameOf(w) # NameOf(v)
  BY MetricsTell, Zenon
<1>6. v[1] = "master" /\ w[1] = "master" => v = w
  BY <1>1 DEF Distinguishable
<1>7. WorkloadKind(v[1]) \in WorkloadKinds /\ WorkloadKind(w[1]) \in WorkloadKinds
  BY Zenon DEF WorkloadKind, WorkloadKinds
<1>8. v = w => n = m
  OBVIOUS
<1>9. PICK p, q : p = x.kind /\ q = x.name
  OBVIOUS
<1>10. /\ \/ p = "ConfigMap" /\ q = NameOf(v) /\ k = 1
          \/ p = "ConfigMap" /\ q = <<"envs">> /\ k = 2 /\ v[1] = "master"
          \/ p \in WorkloadKinds /\ q = NameOf(v) /\ k = n - 2
          \/ p = "Service" /\ q = NameOf(v) /\ k = n - 1
          \/ p = "Service" /\ q = MetricsNameOf(v) /\ k = n
       /\ \/ p = "ConfigMap" /\ q = NameOf(w) /\ l = 1
          \/ p = "ConfigMap" /\ q = <<"envs">> /\ l = 2 /\ w[1] = "master"
          \/ p \in WorkloadKinds /\ q = NameOf(w) /\ l = m - 2
          \/ p = "Service" /\ q = NameOf(w) /\ l = m - 1
          \/ p = "Service" /\ q = MetricsNameOf(w) /\ l = m
  <2>1. x = y
    OBVIOUS
  <2> HIDE DEF x, y, n, m
  <2> QED BY <1>2, <1>3, <1>7, <1>9, <2>1, KeyFields, SMTT(30)
<1> HIDE DEF x, y, n, m
<1>11. v = w
  BY <1>4, <1>5, <1>6, <1>10, Zenon DEF WorkloadKinds
<1> QED BY <1>4, <1>5, <1>8, <1>10, <1>11, Zenon DEF WorkloadKinds

\* No two elements of the list have one key.
LEMMA DistinctHold == BuildInv => OneReconcilerPerObject
<1> SUFFICES ASSUME BuildInv, list # Panic, Distinguishable(input),
                    NEW i \in DOMAIN list.val, NEW j \in DOMAIN list.val,
                    list.val[i].key = list.val[j].key
             PROVE  i = j
  BY Zenon DEF OneReconcilerPerObject
<1>1. /\ ClusterReconcilers(input) # Panic /\ input \in Inputs
      /\ \A w \in Done : GroupReconcilers(input, w[1], w[2], world) # Panic
  BY Zenon DEF BuildInv
<1>2. PICK off : Laid(input, world, Done, list.val, off)
  BY Zenon DEF BuildInv
<1> DEFINE Own(h) == h \in 1..4 /\ list.val[h] = ClusterReconcilers(input).val[h]
           Of(h, w, k) == /\ w \in Done /\ k \in DOMAIN BlockOf(input, world, w) /\ h = off[w] + k
                          /\ list.val[h] = BlockOf(input, world, w)[k]
<1>3. ASSUME NEW h \in DOMAIN list.val
      PROVE  Own(h) \/ \E w, k : Of(h, w, k)
  BY <1>2, <1>3, SMTT(30) DEF Laid
<1>4. ASSUME NEW h \in DOMAIN list.val, Own(h)
      PROVE  list.val[h].key.kind \notin WorkloadKinds \cup {"ConfigMap", "Service"}
  BY <1>1, <1>4, ClusterKinds, Zenon
<1>5. ASSUME NEW h \in DOMAIN list.val, NEW w, NEW k, Of(h, w, k)
      PROVE  list.val[h].key.kind \in WorkloadKinds \cup {"ConfigMap", "Service"}
  <2>1. w[1] \in Roles /\ GroupReconcilers(input, w[1], w[2], world) # Panic
    BY <1>1, <1>5, RoleGroupParts, Zenon DEF Done
  <2> DEFINE x == BlockOf(input, world, w)[k].key
  <2>2. \/ x = Key("ConfigMap", NameOf(w)) \/ x = Key("ConfigMap", <<"envs">>)
        \/ x = Key(WorkloadKind(w[1]), NameOf(w)) \/ x = Key("Service", NameOf(w))
        \/ x = Key("Service", MetricsNameOf(w))
    BY <1>5, <2>1, KeysInBlock, ZenonT(30)
  <2>3. WorkloadKind(w[1]) \in WorkloadKinds
    BY Zenon DEF WorkloadKind, WorkloadKinds
  <2>4. x.kind \in WorkloadKinds \cup {"ConfigMap", "Service"}
    <3> HIDE DEF x
    <3> QED BY <2>2, <2>3, KeyFields, SMTT(30)
  <2> QED BY <1>5, <2>4, Zenon
<1>6. CASE Own(i) /\ Own(j)
  BY <1>1, <1>6, ClusterKinds, Zenon
<1>7. CASE (Own(i) /\ \E w, k : Of(j, w, k)) \/ (Own(j) /\ \E w, k : Of(i, w, k))
  <2> HIDE DEF Own, Of
  <2> QED BY <1>4, <1>5, <1>7, Zenon
<1>8. CASE (\E w, k : Of(i, w, k)) /\ (\E w, k : Of(j, w, k))
  <2>1. PICK v, k : Of(i, v, k)
    BY <1>8, Zenon
  <2>2. PICK w, l : Of(j, w, l)
    BY <1>8, Zenon
  <2>3. /\ v \in RoleGroups(input) /\ w \in RoleGroups(input)
        /\ GroupReconcilers(input, v[1], v[2], world) # Panic
        /\ GroupReconcilers(input, w[1], w[2], world) # Panic
    BY <1>1, <2>1, <2>2, ZenonT(30) DEF Done
  <2>4. v = w /\ k = l
    BY <1>1, <2>1, <2>2, <2>3, KeysTell, SMTT(30)
  <2> QED BY <2>1, <2>2, <2>4, Zenon
<1> QED BY <1>3, <1>6, <1>7, <1>8, Zenon

\* No pass has two reconcilers for one object, so that it cannot undo its own
\* writes: for every CR with distinguishable groups.
THEOREM ObjectsHaveOneReconciler == Spec => []OneReconcilerPerObject
  BY BuildInvariant, DistinctHold, PTL

-----------------------------------------------------------------------------
(* Why a pass fails *)

\* The group's config map: logging settings that do not say whether vector is
\* enabled, of the group or of its role.
LEMMA VectorPanics ==
    ASSUME input \in Inputs, NEW r \in Roles, NEW g \in GroupsOf(input, r),
           NEW d, GroupConfigMap(input, r, g, d) = Panic
    PROVE  \/ VectorUnsaid(input.roles[r].config)
           \/ VectorUnsaid(input.roles[r].roleGroups[g].config)
<1> DEFINE rc == input.roles[r].config
           gc == input.roles[r].roleGroups[g].config
           mc == MergeObject(rc, gc)
           x  == IF mc = Nil THEN EmptyMap ELSE mc
           c  == ConfigOf(input, r, g)
           f  == CommonFile(input, OverridesOf(input, r, g), d)
<1>1. f # Panic
  <2>1. f.out = "ok"
    BY CommonFileIs, Zenon
  <2> QED BY <2>1 DEF Panic
<1>2. IsVectorEnable(c) = Panic
  <2> HIDE DEF c, f
  <2> QED BY <1>1, Zenon DEF GroupConfigMap, NewConfigMapReconciler, UnlessPanic, Ok, Panic, c, f
<1>3. "logging" \in DOMAIN c /\ c.logging.vector = "nil"
  <2> HIDE DEF c
  <2> QED BY <1>2, Zenon DEF IsVectorEnable, Ok, Panic
<1>4. c = MapsCopy(DefaultConfig(r), x)
  BY Zenon DEF ConfigOf, GroupConfig, MergeDefaultConfig
<1>5. mc = Nil => rc = Nil /\ gc = Nil
  BY NilAssumption, Zenon
<1>6. mc = IF rc = Nil \/ gc = Nil THEN (IF gc = Nil THEN rc ELSE gc) ELSE MapsCopy(rc, gc)
  BY Zenon DEF MergeObject
<1> HIDE DEF rc, gc, mc, x, c
<1>7. "logging" \in DOMAIN x /\ x.logging.vector = "nil"
  <2>1. "logging" \notin DOMAIN DefaultConfig(r)
    BY Zenon DEF DefaultConfig, ConfigFields
  <2>2. "logging" \in DOMAIN x
    BY <1>3, <1>4, <2>1, Zenon DEF MapsCopy
  <2>3. c["logging"] = x["logging"]
    BY <1>4, <2>2, Zenon DEF MapsCopy
  <2> QED BY <1>3, <2>2, <2>3, Zenon
<1>8. x = mc /\ mc # Nil
  <2>1. "logging" \notin DOMAIN EmptyMap
    BY Zenon DEF EmptyMap
  <2> QED BY <1>7, <2>1, Zenon DEF x
<1>9. CASE rc # Nil /\ gc # Nil
  <2>1. x = MapsCopy(rc, gc)
    BY <1>6, <1>8, <1>9, Zenon
  <2>2. \/ "logging" \in DOMAIN gc /\ x["logging"] = gc["logging"]
        \/ "logging" \in DOMAIN rc /\ x["logging"] = rc["logging"]
    BY <1>7, <2>1, Zenon DEF MapsCopy
  <2>3. VectorUnsaid(gc) \/ VectorUnsaid(rc)
    BY <1>7, <1>9, <2>2, ZenonT(30) DEF VectorUnsaid
  <2> QED BY <2>3, Zenon DEF rc, gc
<1>10. CASE rc = Nil \/ gc = Nil
  <2>1. (gc # Nil /\ x = gc) \/ (rc # Nil /\ x = rc)
    BY <1>6, <1>8, <1>10, Zenon
  <2>2. VectorUnsaid(gc) \/ VectorUnsaid(rc)
    BY <1>7, <2>1, Zenon DEF VectorUnsaid
  <2> QED BY <2>2, Zenon DEF rc, gc
<1> QED BY <1>9, <1>10, Zenon

\* The entries of the CR whose class can be read.
LEMMA EntriesAre ==
    ASSUME input \in Inputs, world \in Reads, input.clusterConfig # Nil,
           input.clusterConfig.authentication # Nil
    PROVE  LET es == input.clusterConfig.authentication
           IN  /\ DOMAIN es \subseteq Nat
               /\ \E n \in Nat : DOMAIN es = 1..n
               /\ \A i \in FoundAt(es, world.classes) :
                    /\ es[i] \in Resolved
                    /\ LdapProvider(world.classes[es[i].class]) # Nil
                    /\ \A h \in {"keycloak", "github"} :
                         OidcProvider(world.classes[es[i].class], es[i], h) # Nil
<1> DEFINE es == input.clusterConfig.authentication
<1>1. EntriesOf(input) = es
  BY Zenon DEF EntriesOf
<1>2. es \in Seq(TokensOf(es))
  BY <1>1, InputsAssumption, Zenon
<1>3. /\ DOMAIN es \subseteq Nat
      /\ \E n \in Nat : DOMAIN es = 1..n
  BY <1>2, SMTT(30)
<1>4. \A e \in TokensOf(es) : e.class \in DOMAIN world.classes =>
         /\ LdapProvider(world.classes[e.class]) # Nil
         /\ \A h \in {"keycloak", "github"} : OidcProvider(world.classes[e.class], e, h) # Nil
  BY <1>1, NilAssumption, Zenon
<1>5. ASSUME NEW i \in FoundAt(es, world.classes)
      PROVE  es[i] \in TokensOf(es) /\ es[i] \in Resolved /\ es[i].class \in DOMAIN world.classes
  BY <1>5, Zenon DEF FoundAt, TokensOf, Resolved, Range
<1> HIDE DEF es
<1>6. \A i \in FoundAt(es, world.classes) :
         /\ es[i] \in Resolved
         /\ LdapProvider(world.classes[es[i].class]) # Nil
         /\ \A h \in {"keycloak", "github"} : OidcProvider(world.classes[es[i].class], es[i], h) # Nil
  BY <1>4, <1>5, Zenon
<1> QED BY <1>3, <1>6, Zenon DEF es

\* The API server's settings panic only for an entry that is not usable.
LEMMA ApiPanics ==
    ASSUME input \in Inputs, world \in Reads, input.clusterConfig # Nil,
           ApiServer(input, world) = Panic
    PROVE  \E e \in Resolved : ~Usable(e)
<1> DEFINE es == input.clusterConfig.authentication
           cl == world.classes
           rs == resolveAuthentications(es, cl)
<1>1. es # Nil /\ AuthenticationOf(es, cl) = Panic
  BY ApiServerFails, Zenon DEF SettingsOf
<1>2. rs = Panic \/ (rs.out = "ok" /\ createAuthenticationConfig(rs.val) = Panic)
  BY <1>1, AuthenticationFails, Zenon
<1>3. \A i \in FoundAt(es, cl) :
        /\ es[i] \in Resolved
        /\ LdapProvider(cl[es[i].class]) # Nil
        /\ \A h \in {"keycloak", "github"} : OidcProvider(cl[es[i].class], es[i], h) # Nil
  BY <1>1, EntriesAre, ZenonT(30)
<1>4. CASE rs = Panic
  <2>1. PICK i \in FoundAt(es, cl) : ~HasProvider(cl[es[i].class])
    <3>1. \A i \in FoundAt(es, cl) :
            /\ LdapProvider(cl[es[i].class]) # Nil
            /\ \A h \in {"keycloak", "github"} : OidcProvider(cl[es[i].class], es[i], h) # Nil
      BY <1>3, Zenon
    <3> QED BY <1>4, <3>1, ResolvePanics, Zenon
  <2>2. ~Usable(es[i])
    BY <2>1, ZenonT(30) DEF Usable, HasProvider, KnownHints
  <2> QED BY <1>3, <2>1, <2>2, ZenonT(30)
<1>5. CASE rs.out = "ok" /\ createAuthenticationConfig(rs.val) = Panic
  <2>1. PICK i \in DOMAIN rs.val : rs.val[i].type = "oidc" /\ rs.val[i].secret = Nil
    BY <1>5, ConfigPanics, Zenon
  <2>2. i \in FoundAt(es, cl) /\ IsProvider(rs.val[i], cl[es[i].class], es[i])
    BY <1>5, <2>1, ProvidersAre, Zenon
  <2>3. cl[es[i].class].type = "oidc" /\ es[i].secret = Nil
    <3>1. PICK p, c, e : p = rs.val[i] /\ c = cl[es[i].class] /\ e = es[i]
      BY Zenon
    <3>2. IsProvider(p, c, e) /\ p.type = "oidc" /\ p.secret = Nil
      BY <2>1, <2>2, <3>1, Zenon
    <3>3. c.type = "oidc" /\ e.secret = Nil
      BY <3>2, ProviderFields
    <3> QED BY <3>1, <3>3, Zenon
  <2>4. ~Usable(es[i])
    BY <2>3, Zenon DEF Usable
  <2> QED BY <1>3, <2>2, <2>4, ZenonT(30)
<1> QED BY <1>2, <1>4, <1>5, Zenon

\* They fail only for an LDAP class without bind credentials.
LEMMA ApiErrors ==
    ASSUME input \in Inputs, world \in Reads, input.clusterConfig # Nil,
           ApiServer(input, world) = Error
    PROVE  \E e \in Resolved : world.classes[e.class].bind = Nil /\ world.classes[e.class].type = "ldap"
<1> DEFINE es == input.clusterConfig.authentication
           cl == world.classes
           rs == resolveAuthentications(es, cl)
           f  == FirstLdap(rs.val)
<1>1. es # Nil /\ AuthenticationOf(es, cl) = Error
  BY ApiServerFails, Zenon DEF SettingsOf
<1>2. rs.out = "ok" /\ LdapVolume(rs.val) = Error
  BY <1>1, AuthenticationFails, Zenon
<1>3. LdapAt(rs.val) # {} /\ rs.val[f].spec.bind = Nil
  BY <1>2, Zenon DEF LdapVolume, Ok, Error
<1>4. /\ DOMAIN rs.val = FoundAt(es, cl)
      /\ \A i \in FoundAt(es, cl) : IsProvider(rs.val[i], cl[es[i].class], es[i])
  BY <1>2, ProvidersAre, Zenon
<1>5. DOMAIN rs.val \subseteq Nat
  <2>1. DOMAIN es \subseteq Nat
    BY <1>1, EntriesAre, Zenon
  <2> QED BY <1>4, <2>1, Zenon DEF FoundAt
<1>6. f \in FoundAt(es, cl) /\ rs.val[f].type = "ldap"
  BY <1>3, <1>4, <1>5, FirstLdapIs, Zenon
<1>7. IsProvider(rs.val[f], cl[es[f].class], es[f])
  BY <1>4, <1>6, ZenonT(30)
<1>8. cl[es[f].class].type = "ldap" /\ cl[es[f].class].bind = Nil
  BY <1>3, <1>6, <1>7, ProviderFields, ZenonT(30)
<1>9. es[f] \in Resolved
  BY <1>1, <1>6, EntriesAre, Zenon
<1> QED BY <1>8, <1>9, Zenon

\* A pass that panicked has one of the causes.
LEMMA PanicHolds == BuildInv /\ list = Panic => PanicExplained
<1> SUFFICES ASSUME BuildInv, list = Panic, input.clusterConfig # Nil PROVE PanicExplained
  BY Zenon DEF PanicExplained
<1>1. input \in Inputs /\ world \in Reads
  BY Zenon DEF BuildInv
<1>2. CASE ClusterReconcilers(input) = Panic
  BY <1>2, ClusterPanics, Zenon DEF PanicExplained
<1>3. CASE \E w \in RoleGroups(input) : GroupReconcilers(input, w[1], w[2], world) = Panic
  <2>1. PICK w \in RoleGroups(input) : GroupReconcilers(input, w[1], w[2], world) = Panic
    BY <1>3, Zenon
  <2>2. w[1] \in Roles /\ w[2] \in GroupsOf(input, w[1])
    BY <2>1, RoleGroupParts, Zenon
  <2>3. \/ GroupConfigMap(input, w[1], w[2], world) = Panic
        \/ GroupEnvMap(input, w[2], world) = Panic
        \/ w[1] = "api" /\ ApiServer(input, world) = Panic
    BY <2>1, <2>2, GroupPanics, Zenon
  <2>4. CASE GroupConfigMap(input, w[1], w[2], world) = Panic
    BY <1>1, <2>1, <2>2, <2>4, VectorPanics, Zenon DEF PanicExplained
  <2>5. CASE GroupEnvMap(input, w[2], world) = Panic
    BY <2>5, EnvPanics, Zenon DEF PanicExplained
  <2>6. CASE w[1] = "api" /\ ApiServer(input, world) = Panic
    <3>1. GroupsOf(input, "api") # {}
      BY <2>2, <2>6, Zenon
    <3>2. \E e \in Resolved : ~Usable(e)
      BY <1>1, <2>6, ApiPanics, Zenon
    <3> QED BY <3>1, <3>2, Zenon DEF PanicExplained
  <2> QED BY <2>3, <2>4, <2>5, <2>6, ZenonT(30)
<1> QED BY <1>2, <1>3, Zenon DEF BuildInv

\* An element of the block of a done role group is in the list.
LEMMA BlockBuilt ==
    ASSUME BuildInv, list # Panic, NEW w \in Done,
           NEW k \in DOMAIN BlockOf(input, world, w)
    PROVE  \E i \in DOMAIN list.val : list.val[i] = BlockOf(input, world, w)[k]
<1>1. PICK off : Laid(input, world, Done, list.val, off)
  BY Zenon DEF BuildInv
<1> QED BY <1>1, Zenon DEF Laid

\* A pass that is complete has built everything, or there is a reason.
LEMMA CompleteHolds ==
    ASSUME BuildInv, Complete, NEW w \in RoleGroups(input)
    PROVE  LET name == FullName(w[1], w[2])
           IN  \/ /\ Built("ConfigMap", name) # {} /\ Built("Service", name) # {}
                  /\ Built("Service", CreateServiceMetricsName(w[1], w[2])) # {}
                  /\ \/ \E i \in Workloads : list.val[i].key.name = name
                     \/ Setting(w[1], w[2], "affinity") = "malformed"
               \/ /\ w[1] = "api"
                  /\ \E e \in Resolved : world.classes[e.class].bind = Nil
                                         /\ world.classes[e.class].type = "ldap"
<1> DEFINE c == ConfigMapOf(input, world, w)
           e == EnvMapOf(input, world, w)
           l == WorkloadOf(input, world, w)
           u == ServiceOf(w)
           m == MetricsOf(w)
           b == BlockOf(input, world, w)
<1>1. /\ input \in Inputs /\ world \in Reads /\ list # Panic /\ w \in Done
      /\ w[1] \in Roles /\ w[2] \in GroupsOf(input, w[1])
      /\ GroupReconcilers(input, w[1], w[2], world) # Panic /\ ClusterReconcilers(input) # Panic
  BY RoleGroupParts, Zenon DEF BuildInv, Complete, Done
<1>2. input.clusterConfig # Nil
  BY <1>1, ClusterShape, JobShape, ZenonT(30)
<1>3. /\ \/ b = <<c, e, l, u, m>>
         \/ b = <<c, l, u, m>>
         \/ w[1] = "api" /\ ApiServer(input, world) = Error
      /\ GroupConfigMap(input, w[1], w[2], world) # Panic
  BY <1>1, BlockShape, Zenon
<1>4. CASE w[1] = "api" /\ ApiServer(input, world) = Error
  BY <1>1, <1>2, <1>4, ApiErrors, ZenonT(30)
<1>5. CASE b = <<c, e, l, u, m>> \/ b = <<c, l, u, m>>
  <2>1. /\ c.key = Key("ConfigMap", NameOf(w)) /\ l.key = Key(WorkloadKind(w[1]), NameOf(w))
        /\ u.key = Key("Service", NameOf(w)) /\ m.key = Key("Service", MetricsNameOf(w))
        /\ WorkloadKind(w[1]) \in WorkloadKinds
    BY <1>3, BlockKeys, ZenonT(30) DEF MetricsNameOf
  <2>2. ASSUME NEW x \in {c, l, u, m} PROVE \E i \in DOMAIN list.val : list.val[i] = x
    <3>1. \E k \in DOMAIN b : b[k] = x
      <4> HIDE DEF b, c, e, l, u, m
      <4>1. CASE b = <<c, e, l, u, m>>
        BY <2>2, <4>1, SMTT(30)
      <4>2. CASE b = <<c, l, u, m>>
        BY <2>2, <4>2, SMTT(30)
      <4> QED BY <1>5, <4>1, <4>2, Zenon
    <3> QED BY <1>1, <3>1, BlockBuilt, Zenon
  <2>3. ASSUME NEW x \in {c, l, u, m}, NEW k, NEW n, x.key = Key(k, n) PROVE Built(k, n) # {}
    BY <2>2, <2>3, Zenon DEF Built, Key
  <2>4. /\ Built("ConfigMap", NameOf(w)) # {} /\ Built("Service", NameOf(w)) # {}
        /\ Built("Service", MetricsNameOf(w)) # {}
    <3> HIDE DEF c, l, u, m
    <3> QED BY <2>1, <2>3, Zenon
  <2>5. l.obj # Error => \E i \in Workloads : list.val[i].key.name = NameOf(w)
    <3>1. PICK i \in DOMAIN list.val : list.val[i] = l
      BY <2>2, Zenon
    <3>2. l.key.kind \in WorkloadKinds /\ l.key.name = NameOf(w)
      BY <2>1, KeyFields, SMTT(30)
    <3> HIDE DEF l
    <3> QED BY <3>1, <3>2, Zenon DEF Workloads, WorkloadKinds
  <2>6. l.obj = Error => Setting(w[1], w[2], "affinity") = "malformed"
    <3>1. l.obj = Error => ConfigOf(input, w[1], w[2])["affinity"] = "malformed"
      BY WorkloadFails, Zenon DEF WorkloadOf
    <3>2. "affinity" \in ConfigFields
      BY Zenon DEF ConfigFields
    <3>3. ConfigOf(input, w[1], w[2])["affinity"] = Setting(w[1], w[2], "affinity")
      BY <1>1, <3>2, SettingIs, Zenon
    <3> QED BY <3>1, <3>3, Zenon
  <2> QED BY <2>4, <2>5, <2>6, Zenon DEF NameOf, MetricsNameOf
<1> QED BY <1>3, <1>4, <1>5, ZenonT(30)

\* Every failure to build is one of the known ones, for every CR and everything
\* the operator reads.
THEOREM FailuresAreExplained == Spec => []BuildsAllOrExplained
<1>1. BuildInv => BuildsAllOrExplained
  BY PanicHolds, CompleteHolds, Zenon DEF BuildsAllOrExplained
<1> QED BY <1>1, BuildInvariant, PTL

-----------------------------------------------------------------------------
(* Settings that come from one entry *)

\* The providers of the API server are those of the entries that can be read.
LEMMA ApiProviders ==
    ASSUME input \in Inputs, world \in Reads, input.clusterConfig # Nil,
           input.clusterConfig.authentication # Nil, SettingsOf(input, world).out = "ok"
    PROVE  LET es == input.clusterConfig.authentication
               ps == resolveAuthentications(es, world.classes).val
           IN  /\ \E n : ProvidersOf(ps, n)
               /\ \A i \in DOMAIN ps :
                    es[i] \in Resolved /\ IsProvider(ps[i], world.classes[es[i].class], es[i])
<1> DEFINE es == input.clusterConfig.authentication
           ps == resolveAuthentications(es, world.classes).val
<1>1. resolveAuthentications(es, world.classes).out = "ok"
  BY SettingsShape, SMTT(30) DEF SettingsOf
<1>2. /\ DOMAIN ps = FoundAt(es, world.classes)
      /\ \A i \in FoundAt(es, world.classes) : IsProvider(ps[i], world.classes[es[i].class], es[i])
  BY <1>1, ProvidersAre, Zenon
<1>3. PICK n \in Nat : DOMAIN es = 1..n
  BY EntriesAre, Zenon
<1>4. \A i \in FoundAt(es, world.classes) : es[i] \in Resolved
  BY EntriesAre, Zenon
<1>5. ProvidersOf(ps, n)
  <2>1. DOMAIN ps \subseteq 1..n
    BY <1>2, <1>3, Zenon DEF FoundAt
  <2>2. ASSUME NEW i \in DOMAIN ps
        PROVE  \/ ps[i].type = "ldap"
               \/ ps[i].type = "oidc" /\ ps[i].hint \in {"keycloak", "github"}
    BY <1>2, <2>2, ProviderFields, Zenon
  <2> QED BY <2>1, <2>2, Zenon DEF ProvidersOf
<1> QED BY <1>2, <1>4, <1>5, Zenon

\* What the API server is told about an LDAP server or an OIDC provider comes from
\* one entry.
LEMMA EntriesHold == BuildInv => SettingsFromOneEntry
<1> SUFFICES ASSUME BuildInv, list # Panic, NEW i \in Workloads,
                    Len(list.val[i].obj.containers[1].envs) > 2
             PROVE  LET w     == list.val[i].obj
                        env   == w.containers[1].envs[3]
                        hints == {v[1] : v \in {x \in DOMAIN env : Len(x) = 2}} \ {"ldap"}
                    IN  /\ LdapVolumeName \in DOMAIN w.volumes =>
                             \E e \in Resolved : LET c == world.classes[e.class] IN
                                /\ c.type = "ldap" /\ c.bind # Nil
                                /\ env[<<"ldap", "URLS">>] = <<"ldap", c.host>>
                                /\ w.volumes[LdapVolumeName].secretClass = c.bind.secretClass
                        /\ \A h \in hints :
                             \E e \in Resolved : LET c == world.classes[e.class] IN
                                /\ c.type = "oidc" /\ getOidcProviderHint(c.hint) = Ok(h)
                                /\ h = "keycloak" =>
                                     \A u \in OidcUris : env[<<h, u>>] = getIssuer(c) \o <<u>>
                                /\ \A s \in OidcCredentials : env[<<h, s>>] = <<"secret", e.secret, s>>
  BY Zenon DEF SettingsFromOneEntry
<1>1. PICK w \in RoleGroups(input) :
        /\ list.val[i] = WorkloadOf(input, world, w) /\ list.val[i].obj # Error
        /\ w[1] = "api" => ApiServer(input, world).out = "ok"
  BY WorkloadAt, Zenon
<1> DEFINE r  == w[1]
           g  == w[2]
           o  == list.val[i].obj
           es == input.clusterConfig.authentication
           cl == world.classes
           ps == resolveAuthentications(es, cl).val
           env == o.containers[1].envs[3]
           f  == FirstLdap(ps)
           volume == SettingsOf(input, world).val.ldapVolume
<1>2. /\ o.containers[1].envs = ServerOf(input, r, world).b.envs
      /\ o.volumes = MapsCopy(commonVolumes(r, g), ServerOf(input, r, world).volumes)
  <2>1. PICK q : q = GroupWorkload(input, r, g, world).obj
    BY Zenon
  <2>2. q # Error /\ o = q
    BY <1>1, <2>1, ZenonT(30) DEF WorkloadOf
  <2>3. /\ q.containers[1].envs = ServerOf(input, r, world).b.envs
        /\ q.volumes = MapsCopy(commonVolumes(r, g), ServerOf(input, r, world).volumes)
    BY <2>1, <2>2, WorkloadFields, SMTT(30)
  <2> QED BY <2>2, <2>3, Zenon
<1>3. r = "api" /\ ~PlainApi(input, world)
  <2>1. \A x : Len(<<x, "REGISTRY_ZOOKEEPER_CONNECT_STRING">>) = 2
    OBVIOUS
  <2>2. RoleContainer(r).envs = <<r, "REGISTRY_ZOOKEEPER_CONNECT_STRING">>
    BY RoleContainerFields, Zenon
  <2>3. r # "api" => ServerOf(input, r, world).b = RoleContainer(r)
    BY Zenon DEF ServerOf
  <2>4. r = "api" /\ PlainApi(input, world) => ServerOf(input, r, world).b = RoleContainer(r)
    BY Zenon DEF ServerOf, PlainApi
  <2>5. ServerOf(input, r, world).b = RoleContainer(r) => Len(o.containers[1].envs) = 2
    BY <1>2, <2>1, <2>2, Zenon
  <2>6. Len(o.containers[1].envs) # 2
    <3>1. Len(o.containers[1].envs) > 2
      OBVIOUS
    <3>2. ~(2 > 2)
      OBVIOUS
    <3> HIDE DEF o
    <3> QED BY <3>1, <3>2, Zenon
  <2> HIDE DEF o, r
  <2> QED BY <2>3, <2>4, <2>5, <2>6, Zenon
<1>4. OidcApi(input, world) \/ LdapApi(input, world)
  BY <1>1, <1>3, ApiServerFields, Zenon
<1>5. /\ es # Nil /\ SettingsOf(input, world).out = "ok"
      /\ ServerOf(input, r, world).b.envs =
           <<"api", "REGISTRY_ZOOKEEPER_CONNECT_STRING">>
             \o <<SettingsOf(input, world).val.config, "REGISTRY_ZOOKEEPER_CONNECT_STRING">>
  BY <1>3, <1>4, ZenonT(30) DEF OidcApi, LdapApi, ApiEnvs, ServerOf
<1>6. /\ input \in Inputs /\ world \in Reads /\ input.clusterConfig # Nil
  <2>1. input \in Inputs /\ world \in Reads /\ ClusterReconcilers(input) # Panic
    BY Zenon DEF BuildInv
  <2> QED BY <2>1, ClusterShape, JobShape, ZenonT(30)
<1>7. /\ createAuthenticationConfig(ps).out = "ok"
      /\ SettingsOf(input, world).val.config = createAuthenticationConfig(ps).val
      /\ LdapVolume(ps).out = "ok" /\ volume = LdapVolume(ps).val
  BY <1>5, SettingsShape, SMTT(30) DEF SettingsOf
<1>8. env = createAuthenticationConfig(ps).val
  <2>1. PICK a, b, c, d : a = "api" /\ b = "REGISTRY_ZOOKEEPER_CONNECT_STRING"
           /\ c = SettingsOf(input, world).val.config /\ d = "REGISTRY_ZOOKEEPER_CONNECT_STRING"
    BY Zenon
  <2>2. (<<a, b>> \o <<c, d>>)[3] = c
    <3>1. <<a, b>> \in Seq({a, b, c, d}) /\ <<c, d>> \in Seq({a, b, c, d})
      OBVIOUS
    <3>2. Len(<<a, b>>) = 2 /\ Len(<<c, d>>) = 2 /\ <<c, d>>[1] = c
      OBVIOUS
    <3>3. (<<a, b>> \o <<c, d>>)[3] = IF 3 <= Len(<<a, b>>) THEN <<a, b>>[3] ELSE <<c, d>>[3 - Len(<<a, b>>)]
      BY <3>1, <3>2, Concatenation, SMTT(30)
    <3> QED BY <3>2, <3>3
  <2>3. o.containers[1].envs = <<a, b>> \o <<c, d>>
    BY <1>2, <1>5, <2>1, ZenonT(30)
  <2> QED BY <1>7, <2>1, <2>2, <2>3, ZenonT(30)
<1>9. PICK n : ProvidersOf(ps, n)
  BY <1>5, <1>6, ApiProviders, ZenonT(30)
<1>10. \A j \in DOMAIN ps : es[j] \in Resolved /\ IsProvider(ps[j], cl[es[j].class], es[j])
  BY <1>5, <1>6, ApiProviders, ZenonT(30)
<1> HIDE DEF o, es, cl, ps, env, f, volume
<1>11. ASSUME LdapVolumeName \in DOMAIN o.volumes
       PROVE  \E e \in Resolved : LET c == cl[e.class] IN
                 /\ c.type = "ldap" /\ c.bind # Nil
                 /\ env[<<"ldap", "URLS">>] = <<"ldap", c.host>>
                 /\ o.volumes[LdapVolumeName].secretClass = c.bind.secretClass
  <2>1. LdapVolumeName \notin DOMAIN commonVolumes(r, g)
    BY Zenon DEF commonVolumes, LdapVolumeName
  <2>2. LdapApi(input, world)
    <3>1. OidcApi(input, world) => DOMAIN ServerOf(input, r, world).volumes = {}
      BY <1>3, Zenon DEF OidcApi, ServerOf, EmptyMap
    <3> QED BY <1>2, <1>4, <1>11, <2>1, <3>1, ZenonT(30) DEF MapsCopy, o
  <2>3. ServerOf(input, r, world).volumes = [x \in {LdapVolumeName} |-> volume] /\ volume # Nil
    BY <1>3, <2>2, Zenon DEF LdapApi, ServerOf, volume
  <2>4. o.volumes[LdapVolumeName] = volume
    BY <1>2, <1>11, <2>3, Zenon DEF MapsCopy, o
  <2>5. LdapAt(ps) # {} /\ ps[f].spec.bind # Nil /\ volume.secretClass = ps[f].spec.bind.secretClass
    BY <1>7, <2>3, VolumeIs, Zenon DEF ps, f, volume
  <2>6. f \in DOMAIN ps /\ ps[f].type = "ldap"
    <3>1. DOMAIN ps \subseteq Nat
      BY <1>9, SMTT(30) DEF ProvidersOf
    <3> QED BY <2>5, <3>1, FirstLdapIs, ZenonT(30) DEF f
  <2>7. env[<<"ldap", "URLS">>] = <<"ldap", ps[f].spec.host>>
    BY <1>7, <1>8, <1>9, <2>5, OneLdap, ZenonT(30) DEF f, env, ps
  <2>8. es[f] \in Resolved /\ ps[f].spec = cl[es[f].class] /\ cl[es[f].class].type = "ldap"
    BY <1>10, <2>6, ProviderFields, Zenon
  <2> QED BY <2>4, <2>5, <2>7, <2>8, ZenonT(30)
<1>12. ASSUME NEW x \in DOMAIN env, Len(x) = 2, x[1] # "ldap"
       PROVE  \E e \in Resolved : LET c == cl[e.class] IN
                 /\ c.type = "oidc" /\ getOidcProviderHint(c.hint) = Ok(x[1])
                 /\ x[1] = "keycloak" =>
                      \A u \in OidcUris : env[<<x[1], u>>] = getIssuer(c) \o <<u>>
                 /\ \A s \in OidcCredentials : env[<<x[1], s>>] = <<"secret", e.secret, s>>
  <2> DEFINE h == x[1]
  <2>1. PICK j \in WithHint(ps, h) :
           /\ \A u \in OidcUris : env[<<h, u>>] = OidcUri(ps[j], u)
           /\ \A u \in OidcCredentials : env[<<h, u>>] = <<"secret", ps[j].secret, u>>
    BY <1>7, <1>8, <1>9, <1>12, OneHint, SMTT(30) DEF env
  <2>2. j \in DOMAIN ps /\ ps[j].type = "oidc" /\ ps[j].hint = h
    BY <2>1, Zenon DEF WithHint
  <2>3. es[j] \in Resolved /\ IsProvider(ps[j], cl[es[j].class], es[j])
    BY <1>10, <2>2, ZenonT(30)
  <2>4. /\ ps[j].spec = cl[es[j].class] /\ cl[es[j].class].type = "oidc"
        /\ ps[j].secret = es[j].secret /\ getOidcProviderHint(cl[es[j].class].hint) = Ok(h)
    BY <2>2, <2>3, ProviderFields, SMTT(30)
  <2>5. h = "keycloak" => \A u \in OidcUris : OidcUri(ps[j], u) = getIssuer(cl[es[j].class]) \o <<u>>
    BY <2>2, <2>4, Zenon DEF OidcUri
  <2>6. h = "keycloak" => \A u \in OidcUris : env[<<h, u>>] = getIssuer(cl[es[j].class]) \o <<u>>
    BY <2>1, <2>5, ZenonT(30)
  <2>7. \A u \in OidcCredentials : env[<<h, u>>] = <<"secret", es[j].secret, u>>
    BY <2>1, <2>4, Zenon
  <2> HIDE DEF h
  <2> QED BY <2>3, <2>4, <2>6, <2>7, ZenonT(30) DEF h
<1>13. ASSUME NEW h \in {v[1] : v \in {x \in DOMAIN env : Len(x) = 2}} \ {"ldap"}
       PROVE  \E e \in Resolved : LET c == cl[e.class] IN
                 /\ c.type = "oidc" /\ getOidcProviderHint(c.hint) = Ok(h)
                 /\ h = "keycloak" => \A u \in OidcUris : env[<<h, u>>] = getIssuer(c) \o <<u>>
                 /\ \A s \in OidcCredentials : env[<<h, s>>] = <<"secret", e.secret, s>>
  <2>1. PICK x \in DOMAIN env : Len(x) = 2 /\ h = x[1] /\ h # "ldap"
    BY <1>13, Zenon
  <2> QED BY <1>12, <2>1, Zenon
<1> QED BY <1>11, <1>13, Zenon DEF o, env, cl

\* The API server's settings for LDAP, and for each OIDC provider, come from one
\* class of one entry, for every CR and every content of the classes.
THEOREM OneEntryPerProvider == Spec => []SettingsFromOneEntry
  BY EntriesHold, BuildInvariant, PTL
=============================================================================
