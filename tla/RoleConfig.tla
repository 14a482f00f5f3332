----------------------------- MODULE RoleConfig -----------------------------
(***************************************************************************)
(* The configuration of one role group: what internal/common/role.go and   *)
(* internal/common/config.go make of the role's settings, the group's      *)
(* settings and the built-in defaults.                                     *)
(*                                                                         *)
(* Values are strings.  The 34 built-in keys of common.properties are      *)
(* represented by two: one that the S3 settings replace later and one that *)
(* they do not.                                                            *)
(***************************************************************************)
EXTENDS GoValues

Roles == {"master", "alert", "api", "worker"}

CommonProperties == "common.properties"

\* operator-go's MergeObject (external): right over left; configOverrides, a
\* map of maps, is merged file by file.
MergeObject(left, right) ==
    IF left = Nil \/ right = Nil
    THEN IF right = Nil THEN left ELSE right
    ELSE MapsCopy(left, right)

MergeFiles(left, right) ==
    [f \in DOMAIN left \cup DOMAIN right |->
        IF f \in DOMAIN left \cap DOMAIN right
        THEN MapsCopy(left[f], right[f])
        ELSE IF f \in DOMAIN left THEN left[f] ELSE right[f]]

MergeOverrides(left, right) ==
    IF left = Nil \/ right = Nil
    THEN MergeObject(left, right)
    ELSE [config |-> MergeFiles(left.config, right.config),
          env    |-> MapsCopy(left.env, right.env)]

\* The schema of the CRD: a config that leaves gracefulShutdownTimeout out is
\* admitted with 30s.
Admitted(config) ==
    IF config = Nil THEN Nil ELSE MapsCopy([f \in {"grace"} |-> "30s"], config)

-----------------------------------------------------------------------------
(* The built-in defaults. *)

ConfigFields == {"cpu", "memory", "storage", "affinity", "grace"}

DefaultConfig(role) == [f \in ConfigFields |-> "default"]

ComputeEnv ==
    [v \in {"TZ", "SPRING_JACKSON_TIME_ZONE"} |-> "default"]

\* The branch `c.role == Api`, which would add application.yaml, is never
\* taken: DefaultConfig leaves the field role empty for every role.
ComputeFile ==
    [f \in {CommonProperties} |->
        [p \in {"resource.storage.type", "data.basedir.path"} |-> "default"]]

-----------------------------------------------------------------------------
\* The overrides after MergeDefaultConfig.  Both branches on common.properties
\* end with the defaults alone: the first copies the (absent) CR entry over
\* them, the second ignores the CR's entry.
MergeDefaultOverrides(overrides) ==
    LET o == IF overrides = Nil THEN [config |-> EmptyMap, env |-> EmptyMap]
                                ELSE overrides
    IN  [config |-> MapsCopy(o.config, ComputeFile),
         env    |-> MapsCopy(o.env, ComputeEnv)]

\* The config after MergeDefaultConfig: a default fills each field left unset.
MergeDefaultConfig(role, mergedCfg) ==
    MapsCopy(DefaultConfig(role), IF mergedCfg = Nil THEN EmptyMap ELSE mergedCfg)

\* Mutant: the arguments of the merge are swapped.
RoleOverGroup(role, roleSpec, group) ==
    MergeDefaultConfig(role,
        MergeObject(roleSpec.roleGroups[group].config, roleSpec.config))

\* The body of the loop of RoleReconciler.RegisterResources before it builds
\* the resources: role settings, then group settings, then defaults.
GroupConfig(role, roleSpec, group) ==
    MergeDefaultConfig(role,
        MergeObject(roleSpec.config, roleSpec.roleGroups[group].config))

GroupOverrides(roleSpec, group) ==
    MergeDefaultOverrides(
        MergeOverrides(roleSpec.overrides, roleSpec.roleGroups[group].overrides))
=============================================================================
