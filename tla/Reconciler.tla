----------------------------- MODULE Reconciler -----------------------------
(***************************************************************************)
(* The controller of one DolphinschedulerCluster, between the API server   *)
(* and its own caches: internal/controller/dolphinschedulercluster_        *)
(* controller.go, cluster/cluster.go, common/role.go, and what they use of *)
(* controller-runtime and operator-go (external).                          *)
(*                                                                         *)
(* One pass of Reconcile reads the CR from the cache, registers the        *)
(* resources of the cluster and of every role group, applies them in the   *)
(* order of registration and ends at the first one that had to be written, *)
(* that failed or, once all are as they should be, that is not ready.      *)
(* Between two steps of a pass anything else may happen: the user edits    *)
(* the CR, a cache catches up, a workload changes its status, an object is *)
(* deleted, the operator crashes.                                          *)
(***************************************************************************)
EXTENDS Manifests, Functions

CONSTANTS
    Specs,          \* the CR specs the user may apply
    DepStates,      \* the contents the objects the operator reads may have
    ReadyKinds,     \* the kinds whose status operator-go's Ready looks at
    MaxEdits,       \* bound on changes of the CR and of deps
    MaxDeletes,     \* bound on deletions of the CR: 0 or 1
    MaxFaults       \* bound on deletions by others, failures and crashes

VARIABLES
    cr,         \* the CR in the API server: a spec, or Nil once deleted
    crSeen,     \* the CR in the operator's cache
    store,      \* the objects in the API server: [Keys -> object or Nil]
    view,       \* the operator's cache of them
    stale,      \* the keys whose last change has not reached the cache
    deps,       \* the Secrets, AuthenticationClasses... the operator reads
    queue,      \* the CR's key is in the work queue
    later,      \* it will be added again after a delay
    phase,      \* what the worker does: "idle", "register" or "apply"
    seen,       \* the spec of the current pass or, when idle, of the last one
    todo,       \* the role groups it has not registered
    list,       \* the resources registered, in order
    at,         \* the position in list of the next one to apply
    done,       \* the last pass returned an empty result and no error
    depsMoved,  \* history: deps changed since the current or last pass began
    missed,     \* history: objects nobody watches that changed behind the
                \* back of the current or last pass
    edits, faults

crVars   == <<cr, crSeen>>
objVars  == <<store, view, stale>>
depVars  == <<deps, depsMoved>>
qVars    == <<queue, later>>
passVars == <<phase, seen, todo, list, at, done>>
vars     == <<crVars, objVars, depVars, qVars, passVars, missed, edits, faults>>

-----------------------------------------------------------------------------
\* Everything some pass may register, and the keys and contents of it.
Registrations ==
    {ClusterReconcilers(s) : s \in Specs}
    \cup UNION {{GroupReconcilers(s, w[1], w[2], d) : w \in RoleGroups(s), d \in DepStates} :
                    s \in {t \in Specs : ClusterReconcilers(t) # Panic}}

Resources == UNION {Range(o.val) : o \in {o \in Registrations : o.out = "ok"}}

Keys == {r.key : r \in Resources}

Objects == [spec : {r.obj : r \in Resources}, ready : BOOLEAN]

\* SetupWithManager: the controller owns StatefulSets and Deployments only.
Watched(k) == k.kind \in {"StatefulSet", "Deployment"}

\* Mutant: a Job's template can be updated.
JobsChange(k, old, new) == k.kind = "StatefulSet" /\ old.pvcs # new.pvcs

\* Changes the API server refuses: a Job's template and a StatefulSet's
\* volume claim templates cannot be updated.
Immutable(k, old, new) ==
    \/ k.kind = "Job"
    \/ k.kind = "StatefulSet" /\ old.pvcs # new.pvcs

Matches(obj, r) == obj # Nil /\ obj.spec = r.obj

\* operator-go's Ready knows the workloads; Nil is no object.
ASSUME WorkloadsHaveStatus == {"StatefulSet", "Deployment"} \subseteq ReadyKinds
ASSUME NilIsNoObject == Nil \notin Objects
ASSUME BoundsAreNat == MaxEdits \in Nat /\ MaxFaults \in Nat

-----------------------------------------------------------------------------
Init ==
    /\ cr \in Specs /\ crSeen = Nil
    /\ store = [k \in Keys |-> Nil] /\ view = store /\ stale = {}
    /\ deps \in DepStates
    /\ queue = FALSE /\ later = FALSE
    /\ phase = "idle" /\ seen = Nil /\ todo = {} /\ list = <<>> /\ at = 1
    /\ done = TRUE
    /\ depsMoved = FALSE /\ missed = {} /\ edits = 0 /\ faults = 0

-----------------------------------------------------------------------------
(* Users and the API server (external) *)

EditCR ==
    /\ cr # Nil /\ edits < MaxEdits
    /\ cr' \in Specs \ {cr}
    /\ edits' = edits + 1
    /\ UNCHANGED <<crSeen, objVars, depVars, qVars, passVars, missed, faults>>

DeleteCR ==
    /\ cr # Nil /\ MaxDeletes > 0
    /\ cr' = Nil
    /\ UNCHANGED <<crSeen, objVars, depVars, qVars, passVars, missed, edits, faults>>

EditDeps ==
    /\ edits < MaxEdits
    /\ deps' \in DepStates \ {deps}
    /\ depsMoved' = TRUE
    /\ edits' = edits + 1
    /\ UNCHANGED <<crVars, objVars, qVars, passVars, missed, faults>>

\* The pods of a workload become ready, or stop being ready.
ChangeStatus(k) ==
    /\ k.kind \in ReadyKinds /\ store[k] # Nil
    /\ store[k].ready => faults < MaxFaults
    /\ store' = [store EXCEPT ![k].ready = ~@]
    /\ stale' = stale \cup {k}
    /\ faults' = IF store[k].ready THEN faults + 1 ELSE faults
    /\ UNCHANGED <<crVars, view, depVars, qVars, passVars, missed, edits>>

\* The keys the current or last pass has found to be as they should be.
Compared == {list[i].key : i \in 1..(at - 1)}

Remove(k) ==
    /\ store[k] # Nil
    /\ store' = [store EXCEPT ![k] = Nil]
    /\ stale' = stale \cup {k}
    /\ missed' = IF ~Watched(k) /\ k \in Compared THEN missed \cup {k} ELSE missed
    /\ UNCHANGED <<crVars, view, depVars, qVars, passVars, edits>>

\* Somebody else deletes an object of the cluster.
DeleteObject(k) ==
    /\ faults < MaxFaults /\ faults' = faults + 1
    /\ Remove(k)

\* The garbage collector deletes what the deleted CR owned.
CollectGarbage(k) ==
    /\ cr = Nil
    /\ Remove(k)
    /\ UNCHANGED faults

-----------------------------------------------------------------------------
(* Caches and the work queue (external: controller-runtime) *)

\* Mutant: only the creation of the CR is an event.
SyncNewCR ==
    /\ crSeen # cr
    /\ crSeen' = cr
    /\ queue' = (queue \/ crSeen = Nil)
    /\ UNCHANGED <<cr, objVars, depVars, later, passVars, missed, edits, faults>>

\* For(CR): every change of the CR puts its key in the queue.
SyncCR ==
    /\ crSeen # cr
    /\ crSeen' = cr
    /\ queue' = TRUE
    /\ UNCHANGED <<cr, objVars, depVars, later, passVars, missed, edits, faults>>

\* Mutant: the changes of owned objects are no events.
SyncUnowned(k) ==
    /\ k \in stale
    /\ view' = [view EXCEPT ![k] = store[k]]
    /\ stale' = stale \ {k}
    /\ UNCHANGED <<crVars, store, depVars, qVars, passVars, missed, edits, faults>>

\* Owns(...): so does every change of a watched object.
SyncObject(k) ==
    /\ k \in stale
    /\ view' = [view EXCEPT ![k] = store[k]]
    /\ stale' = stale \ {k}
    /\ queue' = (queue \/ Watched(k))
    /\ UNCHANGED <<crVars, store, depVars, later, passVars, missed, edits, faults>>

Fire ==
    /\ later
    /\ later' = FALSE /\ queue' = TRUE
    /\ UNCHANGED <<crVars, objVars, depVars, passVars, missed, edits, faults>>

\* A delayed add of a key that is added now may be dropped.
Coalesce ==
    /\ later /\ queue
    /\ later' = FALSE
    /\ UNCHANGED <<crVars, objVars, depVars, queue, passVars, missed, edits, faults>>

-----------------------------------------------------------------------------
(* One pass of Reconcile *)

\* Mutant: the pass ends without asking for another one.
EndForGood ==
    /\ phase' = "idle"
    /\ done' = FALSE
    /\ UNCHANGED later

\* The pass returns an error, or RequeueAfter; a panic is recovered and made
\* an error.
EndPass ==
    /\ phase' = "idle"
    /\ later' = TRUE
    /\ done' = FALSE

\* Mutant: the reconciler of the last pass is used again.
ReuseReconciler == UNCHANGED at

\* Every pass makes a new reconciler.
NewClusterReconciler == at' = 1

\* Mutant: a CR that is not found is taken for the last one.
ApplyLast ==
    /\ crSeen = Nil
    /\ phase' = "apply" /\ todo' = {} /\ done' = FALSE
    /\ UNCHANGED <<list, later>>

\* The CR is not found: there is nothing to do.
NotFound ==
    /\ crSeen = Nil
    /\ list' = <<>> /\ todo' = {} /\ done' = TRUE
    /\ UNCHANGED <<phase, later>>

\* RegisterResources up to the roles, which may panic.
RegisterCluster ==
    /\ crSeen # Nil
    /\ LET rs == ClusterReconcilers(crSeen)
       IN  \/ /\ rs = Panic
              /\ list' = <<>> /\ todo' = {}
              /\ EndPass
           \/ /\ rs # Panic
              /\ list' = rs.val
              /\ todo' = RoleGroups(crSeen)
              /\ phase' = IF todo' = {} THEN "apply" ELSE "register"
              /\ done' = FALSE
              /\ UNCHANGED later

\* Reconcile up to the roles of RegisterResources.
BeginPass ==
    /\ phase = "idle" /\ queue
    /\ queue' = FALSE
    /\ seen' = crSeen
    /\ NewClusterReconciler
    /\ depsMoved' = FALSE /\ missed' = {}
    /\ NotFound \/ RegisterCluster
    /\ UNCHANGED <<crVars, objVars, deps, edits, faults>>

\* One turn of the loop of RoleReconciler.RegisterResources.
RegisterGroup ==
    /\ phase = "register"
    /\ \E w \in FirstGroups(todo) :
         LET rs == GroupReconcilers(seen, w[1], w[2], deps)
         IN  \/ /\ rs = Panic
                /\ EndPass
                /\ UNCHANGED <<todo, list>>
             \/ /\ rs # Panic
                /\ todo' = todo \ {w}
                /\ list' = list \o rs.val
                /\ phase' = IF todo' = {} THEN "apply" ELSE "register"
                /\ UNCHANGED <<later, done>>
    /\ UNCHANGED <<crVars, objVars, depVars, queue, seen, at, missed, edits, faults>>

\* What the cache shows is what was built: go on to the next resource.
ApplyUnchanged ==
    /\ phase = "apply" /\ at <= Len(list)
    /\ LET k == list[at].key
       IN  /\ list[at].obj # Error
           /\ Matches(view[k], list[at])
           /\ missed' = IF k \in stale /\ ~Watched(k) THEN missed \cup {k} ELSE missed
    /\ at' = at + 1
    /\ UNCHANGED <<crVars, objVars, depVars, qVars, phase, seen, todo, list, done,
                   edits, faults>>

\* The object is created or updated, and the pass ends to come back later.
ApplyWrite ==
    /\ phase = "apply" /\ at <= Len(list)
    /\ LET k == list[at].key
           o == list[at].obj
       IN  /\ o # Error
           /\ ~Matches(view[k], list[at])
           /\ IF view[k] = Nil THEN store[k] = Nil
              ELSE k \notin stale /\ ~Immutable(k, view[k].spec, o)
           /\ store' = [store EXCEPT ![k] =
                          [spec |-> o, ready |-> IF @ = Nil THEN FALSE ELSE @.ready]]
           /\ stale' = stale \cup {k}
    /\ EndPass
    /\ UNCHANGED <<crVars, view, depVars, queue, seen, todo, list, at, missed, edits, faults>>

\* The object cannot be built, or the API server refuses it: it already
\* exists, its version is newer than the cache's, or it cannot be changed so.
ApplyRefused ==
    /\ phase = "apply" /\ at <= Len(list)
    /\ LET k == list[at].key
           o == list[at].obj
       IN  \/ o = Error
           \/ /\ ~Matches(view[k], list[at])
              /\ IF view[k] = Nil THEN store[k] # Nil
                 ELSE k \in stale \/ Immutable(k, view[k].spec, o)
    /\ EndPass
    /\ UNCHANGED <<crVars, objVars, depVars, queue, seen, todo, list, at, missed, edits, faults>>

\* A write fails for a reason of its own.
ApplyFailed ==
    /\ phase = "apply" /\ at <= Len(list)
    /\ ~Matches(view[list[at].key], list[at])
    /\ faults < MaxFaults /\ faults' = faults + 1
    /\ EndPass
    /\ UNCHANGED <<crVars, objVars, depVars, queue, seen, todo, list, at, missed, edits>>

\* Ready, once everything is applied.
IsReady(i) ==
    list[i].key.kind \in ReadyKinds =>
        view[list[i].key] # Nil /\ view[list[i].key].ready

\* Mutant: a pass that succeeds asks for another one.
RequeueAlways ==
    /\ phase = "apply" /\ at > Len(list)
    /\ EndPass
    /\ UNCHANGED <<crVars, objVars, depVars, queue, seen, todo, list, at, missed, edits, faults>>

Ready ==
    /\ phase = "apply" /\ at > Len(list)
    /\ \/ /\ \A i \in 1..Len(list) : IsReady(i)
          /\ phase' = "idle" /\ done' = TRUE
          /\ UNCHANGED later
       \/ /\ \E i \in 1..Len(list) : ~IsReady(i)
          /\ EndPass
    /\ UNCHANGED <<crVars, objVars, depVars, queue, seen, todo, list, at, missed, edits, faults>>

\* The operator stops and starts again: its queue is lost, its caches are
\* filled anew and every cached object counts as a change.
Crash ==
    /\ faults < MaxFaults /\ faults' = faults + 1
    /\ crSeen' = cr /\ view' = store /\ stale' = {}
    /\ queue' = (cr # Nil \/ \E k \in Keys : Watched(k) /\ store[k] # Nil)
    /\ later' = FALSE
    /\ phase' = "idle" /\ seen' = Nil /\ todo' = {} /\ list' = <<>> /\ at' = 1
    /\ done' = TRUE
    /\ depsMoved' = FALSE /\ missed' = {}
    /\ UNCHANGED <<cr, store, deps, edits>>

Pass == BeginPass \/ RegisterGroup \/ ApplyUnchanged \/ ApplyWrite \/ ApplyRefused \/ Ready

Next ==
    \/ EditCR \/ DeleteCR \/ EditDeps
    \/ \E k \in Keys : \/ ChangeStatus(k) \/ DeleteObject(k) \/ CollectGarbage(k)
                       \/ SyncObject(k)
    \/ SyncCR \/ Fire \/ Coalesce
    \/ Pass \/ ApplyFailed \/ Crash

Spec == Init /\ [][Next]_vars

-----------------------------------------------------------------------------
(* Properties *)

TypeOK ==
    /\ cr \in Specs \cup {Nil} /\ crSeen \in Specs \cup {Nil}
    /\ seen \in Specs \cup {Nil}
    /\ store \in [Keys -> Objects \cup {Nil}] /\ view \in [Keys -> Objects \cup {Nil}]
    /\ stale \subseteq Keys /\ missed \subseteq Keys
    /\ deps \in DepStates /\ depsMoved \in BOOLEAN
    /\ queue \in BOOLEAN /\ later \in BOOLEAN /\ done \in BOOLEAN
    /\ phase \in {"idle", "register", "apply"}
    /\ todo \subseteq (IF seen = Nil THEN {} ELSE RoleGroups(seen))
    /\ list \in Seq(Resources) /\ at \in 1..(Len(list) + 1)
    /\ edits \in 0..MaxEdits /\ faults \in 0..MaxFaults

\* Nothing is left to do for the operator: no work, no timer, no event.
AtRest ==
    /\ phase = "idle" /\ ~queue /\ ~later
    /\ stale = {} /\ crSeen = cr

\* What registering a spec yields, given what can be read.
AskedBy(spec, d) ==
    {ClusterReconcilers(spec)} \cup
    {GroupReconcilers(spec, w[1], w[2], d) : w \in RoleGroups(spec)}

\* When the operator rests, the cluster is what the CR in the API server asks
\* for: no registration panics, and every object exists with the content built
\* for it.  Not covered are changes of what the operator reads (Secrets,
\* AuthenticationClasses...) and of objects of kinds that SetupWithManager
\* does not watch, when they come after the last pass has looked at them.
RestMatches ==
    AtRest /\ cr # Nil /\ ~depsMoved =>
        \A o \in AskedBy(cr, deps) :
            o # Panic /\ \A r \in Range(o.val) : r.key \in missed \/ Matches(store[r.key], r)

\* When the operator rests, every StatefulSet and Deployment of the current CR
\* is there as built and is ready, whatever was deleted or restarted meanwhile:
\* what Reconcile returns without requeueing relies on the two Owns watches.
RestReady ==
    AtRest /\ cr # Nil /\ ~depsMoved =>
        \A o \in AskedBy(cr, deps) : \A r \in Range(o.val) :
            Watched(r.key) => Matches(store[r.key], r) /\ store[r.key].ready

\* A workload's pods mount the config map of their role group, take their
\* environment from the shared one and run under the service account: while
\* nobody deletes anything, no workload exists before these do.  It takes a
\* master group: no other role registers the shared config map.
ReferencesExist ==
    faults = 0 /\ cr # Nil /\ (\A s \in Specs : GroupsOf(s, "master") # {}) =>
        \A k \in Keys : Watched(k) /\ store[k] # Nil =>
            \A ref \in {[kind |-> "ServiceAccount", name |-> <<"dolphinscheduler">>],
                        [kind |-> "ConfigMap", name |-> k.name],
                        [kind |-> "ConfigMap", name |-> RoleGroupEnvsConfigMapName]} :
                ref \in Keys /\ store[ref] # Nil

\* A server of one version does not run against the schema of another: while
\* nobody deletes anything, a workload's pods have the image of the init job
\* that exists, also when productVersion is edited at any moment.  The job is
\* registered before the roles and cannot be changed, so that an edit after
\* it exists stops there, with the roles as they were.
SchemaFirst ==
    faults = 0 /\ cr # Nil =>
        \A k \in Keys : Watched(k) /\ store[k] # Nil =>
            LET job == store[[kind |-> "Job", name |-> <<>>]]
            IN  job # Nil /\ job.spec.image = store[k].spec.containers[1].image

-----------------------------------------------------------------------------
(* What the operator promises about its writes: the abstract specification *)
(* Rollout.                                                                *)

\* k, with the content obj, stands in the registration o behind nothing that is
\* not found.
InTurn(o, found, k, obj) ==
    /\ o # Panic
    /\ \E i \in DOMAIN o.val :
          /\ o.val[i].key = k /\ o.val[i].obj = obj
          /\ \A j \in 1..(i - 1) : o.val[j].key \in found

AllFound(o, found) == o # Panic /\ \A i \in DOMAIN o.val : o.val[i].key \in found

\* What a spec registers: the objects of the cluster and, by role group, what
\* the group may ask for.
ClusterTurns == [s \in Specs |-> ClusterReconcilers(s)]

GroupTurns ==
    [s \in {t \in Specs : ClusterReconcilers(t) # Panic} |->
        [w \in RoleGroups(s) |-> {GroupReconcilers(s, w[1], w[2], d) : d \in DepStates}]]

\* The order of RegisterResources: the objects of the cluster one by one, then
\* the roles in their order, and within a role group one by one.  The groups
\* of one role have no order.
Due(spec, found, k, obj) ==
    \/ InTurn(ClusterTurns[spec], found, k, obj)
    \/ /\ AllFound(ClusterTurns[spec], found)
       /\ \E w \in RoleGroups(spec) :
            /\ \E o \in GroupTurns[spec][w] : InTurn(o, found, k, obj)
            /\ \A v \in RoleGroups(spec) : RoleIndex(v[1]) < RoleIndex(w[1]) =>
                 \E o \in GroupTurns[spec][v] : AllFound(o, found)

\* Objects without their status.
Contents(objs) == [k \in Keys |-> IF objs[k] = Nil THEN Nil ELSE objs[k].spec]

Abstract ==
    INSTANCE Rollout WITH wanted <- cr, known <- crSeen, goal <- seen,
                          have <- Contents(store), cached <- Contents(view),
                          found <- Compared

\* Every write of the operator follows the order in which RegisterResources
\* adds the resources, however the passes are cut short and restarted, whatever
\* the caches miss and however the CR changes meanwhile: an object is written
\* only to what the CR of the pass asks for, once everything before it was
\* found to be right, over its newest content, if that can be changed so, and
\* never twice the same.  A job or volume claims that cannot be changed stop
\* all that comes behind them.
ImplementsRollout == Abstract!Spec

-----------------------------------------------------------------------------
(* The inductive invariant behind RestMatches and RestReady *)

\* list belongs to a pass that is under way or has run to its end.
Valid == phase # "idle" \/ done

\* The pass knows the CR the cache shows, or another pass is coming; and there
\* is a reason to be idle.
WorkRemembered ==
    /\ seen = crSeen \/ queue
    /\ phase = "idle" => done \/ later \/ queue
    /\ \A k \in Keys \ stale : view[k] = store[k]

\* How far the pass is.
Progress ==
    /\ phase # "idle" => seen \in Specs /\ ClusterReconcilers(seen) # Panic
    /\ phase = "register" => at = 1
    /\ phase = "apply" => todo = {}
    /\ phase = "idle" /\ done => todo = {} /\ at = Len(list) + 1

\* Everything asked for by the groups registered so far is in the list.
Registered(o) == o # Panic /\ Range(o.val) \subseteq Range(list)

ListComplete ==
    Valid /\ seen # Nil /\ ~depsMoved =>
        /\ Registered(ClusterReconcilers(seen))
        /\ \A w \in RoleGroups(seen) \ todo :
              Registered(GroupReconcilers(seen, w[1], w[2], deps))

\* What the pass found to be right still is, or the change will be seen: it is
\* of a watched kind and its event is on its way.
ComparedHolds ==
    /\ \A k \in missed : ~Watched(k)
    /\ Valid => \A i \in 1..(at - 1) :
         LET k == list[i].key
         IN  \/ k \in missed
             \/ Matches(store[k], list[i])
             \/ Watched(k) /\ (k \in stale \/ queue)

\* What the pass found to be ready still is, or the change will be seen.
ReadyHolds ==
    phase = "idle" /\ done => \A i \in 1..Len(list) :
        LET k == list[i].key
        IN  Watched(k) => \/ store[k] # Nil /\ store[k].ready
                          \/ k \in stale \/ queue

\* The six together are preserved by every step: what makes the operator rest
\* only when there is nothing left to do.
Inv ==
    /\ TypeOK /\ WorkRemembered /\ Progress
    /\ ListComplete /\ ComparedHolds /\ ReadyHolds

\* Behind ReferencesExist and SchemaFirst: while nobody deletes anything, what
\* the cache shows and what the pass has found exists, however old the cache
\* is, and a job is still the one that was seen.
FoundExists ==
    faults = 0 /\ cr # Nil =>
        /\ \A k \in Keys : view[k] # Nil =>
              store[k] # Nil /\ (k.kind = "Job" => store[k].spec = view[k].spec)
        /\ phase = "apply" => \A i \in 1..(at - 1) :
              LET k == list[i].key
              IN  store[k] # Nil /\ (k.kind = "Job" => store[k].spec = list[i].obj)

-----------------------------------------------------------------------------
(* Liveness.  The caches are filled, timers fire, the worker works, pods   *)
(* start and the garbage collector collects; nobody has to edit or fail.   *)

\* WF_vars(Pass), with its ENABLED spelled out: the worker has something to do.
WorkerRuns == <>[](phase # "idle" \/ queue) => []<><<Pass>>_vars

Fairness ==
    /\ WorkerRuns /\ WF_vars(SyncCR) /\ WF_vars(Fire)
    /\ \A k \in Keys : WF_vars(SyncObject(k)) /\ WF_vars(CollectGarbage(k))
    /\ \A k \in {k \in Keys : k.kind \in ReadyKinds} :
         WF_vars(ChangeStatus(k) /\ ~store[k].ready)

FairSpec == Spec /\ Fairness

\* Whatever can be read, the spec can be built, asks for one content per object
\* and, compared with any other spec, for no change the API server refuses.
Reconcilable(s) ==
    /\ ClusterReconcilers(s) # Panic
    /\ \A d \in DepStates :
         LET asked == UNION {Range(o.val) : o \in AskedBy(s, d)}
         IN  /\ Panic \notin AskedBy(s, d)
             /\ \A r \in asked :
                  /\ r.obj # Error
                  /\ \A q \in asked : q.key = r.key => q = r
                  /\ \A q \in Resources : q.key = r.key /\ q.obj \notin {r.obj, Error} =>
                        ~Immutable(r.key, q.obj, r.obj)

\* However it came to the spec it now has, also over specs that cannot be
\* built, and whatever failed before, the operator comes to rest once the CR
\* keeps a spec that can be reconciled; RestMatches says what it left behind.
Settles == \A s \in Specs : Reconcilable(s) /\ <>[](cr = s) => <>[]AtRest

\* Once the CR is deleted, everything it owned is gone for good, also what a
\* pass that had not yet noticed creates meanwhile.
DeletedIsGone == (cr = Nil) ~> [](\A k \in Keys : store[k] = Nil)

\* RegisterResources registers "roles: alerter, api, master,worker server": the
\* workload of every role group is deployed in the end.
EveryRoleDeployed == \A k \in Keys : Watched(k) => <>(store[k] # Nil)
=============================================================================
