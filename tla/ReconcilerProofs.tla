-------------------------- MODULE ReconcilerProofs --------------------------
(***************************************************************************)
(* Proofs about Reconciler, for every set of CR specs, every set of states *)
(* of the objects the operator reads, and every bound: what it does of     *)
(* itself, and that it implements Rollout.                                 *)
(***************************************************************************)
EXTENDS Reconciler, ManifestsProofs

-----------------------------------------------------------------------------
(* What registration returns *)

\* A sequence whose elements lie in T is a sequence over T.
LEMMA SeqOverRange ==
    ASSUME NEW S, NEW T, NEW s \in Seq(S), Range(s) \subseteq T
    PROVE  s \in Seq(T)
  BY DEF Range

\* What is registered for the cluster are resources.
LEMMA ClusterTyped ==
    ASSUME NEW s \in Specs, ClusterReconcilers(s) # Panic
    PROVE  /\ ClusterReconcilers(s).val \in Seq(Resources)
           /\ Range(ClusterReconcilers(s).val) \subseteq Resources
<1>1. ClusterReconcilers(s) \in Registrations
  BY DEF Registrations
<1>2. Range(ClusterReconcilers(s).val) \subseteq Resources
  BY <1>1, ClusterSeq, Zenon DEF Resources
<1>3. PICK S : ClusterReconcilers(s).val \in Seq(S)
  BY ClusterSeq, Zenon
<1> QED BY <1>2, <1>3, SeqOverRange, Zenon

\* What is registered for a role group are resources.
LEMMA GroupTyped ==
    ASSUME NEW s \in Specs, ClusterReconcilers(s) # Panic, NEW w \in RoleGroups(s),
           NEW d \in DepStates, GroupReconcilers(s, w[1], w[2], d) # Panic
    PROVE  GroupReconcilers(s, w[1], w[2], d).val \in Seq(Resources)
<1> DEFINE o == GroupReconcilers(s, w[1], w[2], d)
<1>0. w[1] \in Roles
  BY DEF RoleGroups
<1>1. o \in Registrations
  <2> DEFINE Of(t) == {GroupReconcilers(t, v[1], v[2], x) : v \in RoleGroups(t), x \in DepStates}
  <2>1. o \in Of(s)
    OBVIOUS
  <2>2. Of(s) \in {Of(t) : t \in {t \in Specs : ClusterReconcilers(t) # Panic}}
    OBVIOUS
  <2> HIDE DEF o
  <2> QED BY <2>1, <2>2 DEF Registrations
<1>2. o.out = "ok" /\ \E S : o.val \in Seq(S)
  BY <1>0, GroupSeq, Zenon
<1> HIDE DEF o
<1>3. Range(o.val) \subseteq Resources
  BY <1>1, <1>2, Zenon DEF Resources
<1>4. PICK S : o.val \in Seq(S)
  BY <1>2, Zenon
<1>5. o.val \in Seq(Resources)
  BY <1>3, <1>4, SeqOverRange, Zenon
<1> QED BY <1>5, Zenon DEF o

\* A registered resource has one of the keys, and its content can be stored.
LEMMA ResourceTyped ==
    ASSUME NEW r \in Resources, NEW b \in BOOLEAN
    PROVE  r.key \in Keys /\ [spec |-> r.obj, ready |-> b] \in Objects
  BY Zenon DEF Keys, Objects

-----------------------------------------------------------------------------
(* The invariant holds initially *)

\* Before the first pass of Reconcile nothing is registered, compared or missed.
LEMMA InitInv == Init => Inv
<1> SUFFICES ASSUME Init PROVE Inv
  OBVIOUS
<1>1. TypeOK
  <2>1. list \in Seq(Resources) /\ at \in 1..(Len(list) + 1)
    BY DEF Init
  <2>2. store \in [Keys -> Objects \cup {Nil}] /\ view \in [Keys -> Objects \cup {Nil}]
    BY Zenon DEF Init
  <2>3. edits \in 0..MaxEdits /\ faults \in 0..MaxFaults
    BY BoundsAreNat DEF Init
  <2> QED BY <2>1, <2>2, <2>3, Zenon DEF Init, TypeOK
<1>2. WorkRemembered /\ Progress /\ ListComplete /\ ComparedHolds /\ ReadyHolds
  BY DEF Init, WorkRemembered, Progress, ListComplete, ComparedHolds, ReadyHolds, Valid
<1> QED BY <1>1, <1>2, Zenon DEF Inv

-----------------------------------------------------------------------------
(* Every step preserves the invariant *)

\* No step of the controller or around it leaves the types: what Reconcile
\* registers, writes and caches are resources of some registration.
LEMMA TypeStep == Inv /\ [Next]_vars => TypeOK'
<1> SUFFICES ASSUME TypeOK, Progress, [Next]_vars PROVE TypeOK'
  BY Zenon DEF Inv
<1> USE DEF crVars, objVars, depVars, qVars, passVars
<1>1. CASE EditCR
  BY <1>1, BoundsAreNat DEF TypeOK, EditCR
<1>2. CASE DeleteCR
  BY <1>2, Zenon DEF TypeOK, DeleteCR
<1>3. CASE EditDeps
  BY <1>3, BoundsAreNat DEF TypeOK, EditDeps
<1>4. ASSUME NEW k \in Keys, ChangeStatus(k)
      PROVE  TypeOK'
  <2>1. store[k] \in Objects
    BY <1>4, Zenon DEF TypeOK, ChangeStatus
  <2>2. [store[k] EXCEPT !.ready = ~@] \in Objects
    BY <2>1, Zenon DEF Objects
  <2>3. store' \in [Keys -> Objects \cup {Nil}]
    BY <1>4, <2>2, Zenon DEF TypeOK, ChangeStatus
  <2> QED BY <1>4, <2>3, BoundsAreNat DEF TypeOK, ChangeStatus
<1>5. ASSUME NEW k \in Keys, Remove(k), faults' \in 0..MaxFaults
      PROVE  TypeOK'
  BY <1>5, Zenon DEF TypeOK, Remove
<1>6. ASSUME NEW k \in Keys, DeleteObject(k)
      PROVE  TypeOK'
  BY <1>5, <1>6, BoundsAreNat DEF TypeOK, DeleteObject
<1>7. ASSUME NEW k \in Keys, CollectGarbage(k)
      PROVE  TypeOK'
  BY <1>5, <1>7, Zenon DEF TypeOK, CollectGarbage
<1>8. ASSUME NEW k \in Keys, SyncObject(k)
      PROVE  TypeOK'
  BY <1>8, Zenon DEF TypeOK, SyncObject
<1>9. CASE SyncCR
  BY <1>9, Zenon DEF TypeOK, SyncCR
<1>10. CASE Fire \/ Coalesce
  BY <1>10, Zenon DEF TypeOK, Fire, Coalesce
<1>11. CASE BeginPass
  <2>1. list' \in Seq(Resources)
    <3>1. crSeen # Nil /\ ClusterReconcilers(crSeen) # Panic =>
            ClusterReconcilers(crSeen).val \in Seq(Resources)
      BY ClusterTyped, Zenon DEF TypeOK
    <3>2. <<>> \in Seq(Resources)
      OBVIOUS
    <3>3. list' = <<>> \/ (/\ crSeen # Nil /\ ClusterReconcilers(crSeen) # Panic
                            /\ list' = ClusterReconcilers(crSeen).val)
      BY <1>11, Zenon DEF BeginPass, NewClusterReconciler, NotFound, RegisterCluster
    <3> QED BY <3>1, <3>2, <3>3, Zenon
  <2>2. todo' \subseteq (IF seen' = Nil THEN {} ELSE RoleGroups(seen'))
    BY <1>11, Zenon DEF TypeOK, BeginPass, NewClusterReconciler, NotFound, RegisterCluster
  <2>3. at' \in 1..(Len(list') + 1)
    BY <1>11, <2>1 DEF BeginPass, NewClusterReconciler, NotFound, RegisterCluster
  <2> QED BY <1>11, <2>1, <2>2, <2>3, Zenon DEF TypeOK, BeginPass, NewClusterReconciler,
      NotFound, RegisterCluster, EndPass
<1>12. CASE RegisterGroup
  <2>1. PICK w \in FirstGroups(todo) :
          LET rs == GroupReconcilers(seen, w[1], w[2], deps)
          IN  \/ /\ rs = Panic
                 /\ EndPass
                 /\ UNCHANGED <<todo, list>>
              \/ /\ rs # Panic
                 /\ todo' = todo \ {w}
                 /\ list' = list \o rs.val
                 /\ phase' = IF todo' = {} THEN "apply" ELSE "register"
                 /\ UNCHANGED <<later, done>>
    BY <1>12, Zenon DEF RegisterGroup
  <2>2. seen \in Specs /\ ClusterReconcilers(seen) # Panic /\ at = 1 /\ w \in todo
    BY <1>12, <2>1, Zenon DEF RegisterGroup, Progress, FirstGroups
  <2>3. seen # Nil => w \in RoleGroups(seen)
    BY <2>2, Zenon DEF TypeOK
  <2>4. w \in RoleGroups(seen)
    BY <2>2, Zenon DEF TypeOK
  <2> DEFINE rs == GroupReconcilers(seen, w[1], w[2], deps)
  <2>5. rs # Panic => rs.val \in Seq(Resources)
    BY <2>2, <2>4, GroupTyped, Zenon DEF TypeOK
  <2>6. list' \in Seq(Resources) /\ todo' \subseteq todo
    <3>1. CASE rs = Panic
      BY <2>1, <3>1, Zenon DEF TypeOK
    <3>2. CASE rs # Panic
      <4>1. list' = list \o rs.val /\ todo' = todo \ {w}
        BY <2>1, <3>2, Zenon
      <4> HIDE DEF rs
      <4> QED BY <4>1, <3>2, <2>5 DEF TypeOK
    <3> QED BY <3>1, <3>2, Zenon
  <2>7. at' \in 1..(Len(list') + 1)
    BY <1>12, <2>2, <2>6 DEF RegisterGroup
  <2>8. phase' \in {"idle", "register", "apply"} /\ later' \in BOOLEAN /\ done' \in BOOLEAN
    BY <2>1, Zenon DEF TypeOK, EndPass
  <2> QED BY <1>12, <2>6, <2>7, <2>8, Zenon DEF TypeOK, RegisterGroup
<1>13. CASE ApplyUnchanged
  <2>1. list[at] \in Resources
    BY <1>13 DEF ApplyUnchanged, TypeOK
  <2>2. list[at].key \in Keys
    BY <2>1, ResourceTyped, Zenon
  <2>3. at' \in 1..(Len(list') + 1) /\ missed' \subseteq Keys
    BY <1>13, <2>2 DEF ApplyUnchanged, TypeOK
  <2> QED BY <1>13, <2>3, Zenon DEF ApplyUnchanged, TypeOK
<1>14. CASE ApplyWrite
  <2> DEFINE k == list[at].key
             o == [spec |-> list[at].obj,
                   ready |-> IF store[k] = Nil THEN FALSE ELSE store[k].ready]
  <2>1. list[at] \in Resources
    BY <1>14 DEF ApplyWrite, TypeOK
  <2>2. k \in Keys
    BY <2>1, ResourceTyped, Zenon
  <2>3. store[k] # Nil => store[k].ready \in BOOLEAN
    BY <2>2, Zenon DEF TypeOK, Objects
  <2>4. o \in Objects
    BY <2>1, <2>3, ResourceTyped, Zenon
  <2>5. store' = [store EXCEPT ![k] = o] /\ stale' = stale \cup {k}
    BY <1>14, <2>2, Zenon DEF ApplyWrite, TypeOK
  <2>6. store' \in [Keys -> Objects \cup {Nil}] /\ stale' \subseteq Keys
    BY <2>2, <2>4, <2>5, Zenon DEF TypeOK
  <2> QED BY <1>14, <2>6, Zenon DEF ApplyWrite, EndPass, TypeOK
<1>15. CASE ApplyRefused
  BY <1>15, Zenon DEF ApplyRefused, EndPass, TypeOK
<1>16. CASE ApplyFailed
  <2>1. faults' \in 0..MaxFaults
    BY <1>16, BoundsAreNat DEF ApplyFailed, TypeOK
  <2> QED BY <1>16, <2>1, Zenon DEF ApplyFailed, EndPass, TypeOK
<1>17. CASE Ready
  BY <1>17, Zenon DEF Ready, EndPass, TypeOK
<1>18. CASE Crash
  <2>1. list' \in Seq(Resources) /\ at' \in 1..(Len(list') + 1)
    BY <1>18 DEF Crash
  <2>2. faults' \in 0..MaxFaults
    BY <1>18, BoundsAreNat DEF Crash, TypeOK
  <2>3. queue' \in BOOLEAN
    BY <1>18, Zenon DEF Crash
  <2> QED BY <1>18, <2>1, <2>2, <2>3, Zenon DEF Crash, TypeOK
<1>19. CASE UNCHANGED vars
  BY <1>19, Zenon DEF vars, TypeOK
<1> QED
  BY <1>1, <1>2, <1>3, <1>4, <1>6, <1>7, <1>8, <1>9, <1>10, <1>11, <1>12, <1>13,
     <1>14, <1>15, <1>16, <1>17, <1>18, <1>19, Zenon DEF Next, Pass

\* No step makes Reconcile forget work: whenever it stops short, or the cached
\* CR changes, the key is in the queue or on its way there.
LEMMA WorkRememberedStep == Inv /\ [Next]_vars => WorkRemembered'
<1> SUFFICES ASSUME TypeOK, WorkRemembered, [Next]_vars PROVE WorkRemembered'
  BY Zenon DEF Inv
<1> USE DEF crVars, objVars, depVars, qVars, passVars
<1>1. CASE EditCR \/ DeleteCR \/ EditDeps
  BY <1>1, Zenon DEF WorkRemembered, EditCR, DeleteCR, EditDeps
<1>2. ASSUME NEW k \in Keys, ChangeStatus(k)
      PROVE  WorkRemembered'
  BY <1>2, Zenon DEF TypeOK, WorkRemembered, ChangeStatus
<1>3. ASSUME NEW k \in Keys, DeleteObject(k) \/ CollectGarbage(k)
      PROVE  WorkRemembered'
  BY <1>3, Zenon DEF TypeOK, WorkRemembered, DeleteObject, CollectGarbage, Remove
<1>4. ASSUME NEW k \in Keys, SyncObject(k)
      PROVE  WorkRemembered'
  BY <1>4, Zenon DEF TypeOK, WorkRemembered, SyncObject
<1>5. CASE SyncCR \/ Fire \/ Coalesce
  BY <1>5, Zenon DEF WorkRemembered, SyncCR, Fire, Coalesce
<1>6. CASE BeginPass
  BY <1>6, Zenon DEF WorkRemembered, BeginPass, NewClusterReconciler, NotFound,
      RegisterCluster, EndPass
<1>7. CASE RegisterGroup
  <2>1. phase' # "idle" \/ later'
    BY <1>7, Zenon DEF RegisterGroup, EndPass
  <2> QED BY <1>7, <2>1, Zenon DEF WorkRemembered, RegisterGroup
<1>8. CASE ApplyUnchanged
  BY <1>8, Zenon DEF WorkRemembered, ApplyUnchanged
<1>9. CASE ApplyWrite
  <2>1. \A k \in Keys \ stale' : view'[k] = store'[k]
    BY <1>9, Zenon DEF TypeOK, WorkRemembered, ApplyWrite
  <2> QED BY <1>9, <2>1, Zenon DEF WorkRemembered, ApplyWrite, EndPass
<1>10. CASE ApplyRefused \/ ApplyFailed
  BY <1>10, Zenon DEF WorkRemembered, ApplyRefused, ApplyFailed, EndPass
<1>11. CASE Ready
  BY <1>11, Zenon DEF WorkRemembered, Ready, EndPass
<1>12. CASE Crash
  BY <1>12, Zenon DEF WorkRemembered, Crash
<1>13. CASE UNCHANGED vars
  BY <1>13, Zenon DEF vars, WorkRemembered
<1> QED
  BY <1>1, <1>2, <1>3, <1>4, <1>5, <1>6, <1>7, <1>8, <1>9, <1>10, <1>11, <1>12, <1>13, Zenon
  DEF Next, Pass

\* A pass registers before it applies and applies everything before it is done.
LEMMA ProgressStep == Inv /\ [Next]_vars => Progress'
<1> SUFFICES ASSUME TypeOK, Progress, [Next]_vars PROVE Progress'
  BY Zenon DEF Inv
<1> USE DEF crVars, objVars, depVars, qVars, passVars
<1>1. CASE UNCHANGED passVars
  BY <1>1, Zenon DEF Progress
<1>2. CASE BeginPass
  BY <1>2 DEF TypeOK, Progress, BeginPass, NewClusterReconciler, NotFound,
      RegisterCluster, EndPass
<1>3. CASE RegisterGroup
  <2>1. phase' = (IF todo' = {} THEN "apply" ELSE "register") \/ (phase' = "idle" /\ ~done')
    BY <1>3, Zenon DEF RegisterGroup, EndPass
  <2> QED BY <1>3, <2>1, Zenon DEF Progress, RegisterGroup
<1>4. CASE ApplyUnchanged
  BY <1>4, Zenon DEF Progress, ApplyUnchanged
<1>5. CASE ApplyWrite \/ ApplyRefused \/ ApplyFailed
  BY <1>5, Zenon DEF Progress, ApplyWrite, ApplyRefused, ApplyFailed, EndPass
<1>6. CASE Ready
  <2>1. at = Len(list) + 1
    BY <1>6 DEF TypeOK, Ready
  <2> QED BY <1>6, <2>1, Zenon DEF Progress, Ready, EndPass
<1>7. CASE Crash
  BY <1>7 DEF Progress, Crash
<1>8. UNCHANGED passVars \/ BeginPass \/ RegisterGroup \/ ApplyUnchanged \/ ApplyWrite
        \/ ApplyRefused \/ ApplyFailed \/ Ready \/ Crash
  BY Zenon DEF Next, Pass, vars, EditCR, DeleteCR, EditDeps, ChangeStatus, DeleteObject,
         CollectGarbage, Remove, SyncObject, SyncCR, Fire, Coalesce
<1> QED BY <1>1, <1>2, <1>3, <1>4, <1>5, <1>6, <1>7, <1>8, Zenon

\* A concatenation keeps the elements of both sequences.
LEMMA RangeConcat ==
    ASSUME NEW S, NEW s \in Seq(S), NEW t \in Seq(S)
    PROVE  Range(s) \subseteq Range(s \o t) /\ Range(t) \subseteq Range(s \o t)
<1>1. \A i \in 1..Len(s) : i \in 1..Len(s \o t) /\ (s \o t)[i] = s[i]
  OBVIOUS
<1>2. \A i \in 1..Len(t) : Len(s) + i \in 1..Len(s \o t) /\ (s \o t)[Len(s) + i] = t[i]
  OBVIOUS
<1>3. DOMAIN s = 1..Len(s) /\ DOMAIN t = 1..Len(t) /\ DOMAIN (s \o t) = 1..Len(s \o t)
  OBVIOUS
<1>4. Range(s) \subseteq Range(s \o t)
  BY <1>1, <1>3, Zenon DEF Range
<1>5. Range(t) \subseteq Range(s \o t)
  BY <1>2, <1>3, Zenon DEF Range
<1> QED BY <1>4, <1>5, Zenon

\* The list of a pass holds what RegisterResources has asked for so far, for the
\* spec the pass has seen.
LEMMA ListCompleteStep == Inv /\ [Next]_vars => ListComplete'
<1> SUFFICES ASSUME TypeOK, Progress, ListComplete, [Next]_vars PROVE ListComplete'
  BY Zenon DEF Inv
<1> USE DEF crVars, objVars, depVars, qVars, passVars
<1>1. CASE UNCHANGED <<passVars, depVars>>
  BY <1>1, Zenon DEF ListComplete, Registered, Valid
<1>2. CASE EditDeps
  BY <1>2, Zenon DEF EditDeps, ListComplete
<1>3. CASE BeginPass
  BY <1>3, Zenon DEF BeginPass, NewClusterReconciler, NotFound, RegisterCluster, EndPass,
      ListComplete, Registered, Valid
<1>4. CASE RegisterGroup
  <2> SUFFICES ASSUME Valid', seen' # Nil, ~depsMoved'
               PROVE  /\ Registered(ClusterReconcilers(seen))'
                      /\ \A w \in RoleGroups(seen') \ todo' :
                           Registered(GroupReconcilers(seen, w[1], w[2], deps))'
    BY Zenon DEF ListComplete
  <2>1. /\ Valid /\ seen # Nil /\ ~depsMoved /\ seen' = seen /\ deps' = deps
        /\ ~(phase' = "idle" /\ ~done')
    BY <1>4, Zenon DEF RegisterGroup, Valid
  <2>2. PICK w \in FirstGroups(todo) :
          LET rs == GroupReconcilers(seen, w[1], w[2], deps)
          IN  /\ rs # Panic
              /\ todo' = todo \ {w}
              /\ list' = list \o rs.val
    BY <1>4, <2>1, Zenon DEF RegisterGroup, EndPass
  <2> DEFINE rs == GroupReconcilers(seen, w[1], w[2], deps)
  <2>3. seen \in Specs /\ ClusterReconcilers(seen) # Panic /\ w \in todo
    BY <1>4, <2>2, Zenon DEF RegisterGroup, Progress, FirstGroups
  <2>4. w \in RoleGroups(seen)
    BY <2>1, <2>3, Zenon DEF TypeOK
  <2>5. rs.val \in Seq(Resources)
    BY <2>2, <2>3, <2>4, GroupTyped, Zenon DEF TypeOK
  <2>6. rs # Panic /\ todo' = todo \ {w} /\ list' = list \o rs.val
    BY <2>2, Zenon
  <2> HIDE DEF rs
  <2>7. Range(list) \subseteq Range(list') /\ Range(rs.val) \subseteq Range(list')
    BY <2>5, <2>6, RangeConcat, Zenon DEF TypeOK
  <2>8. Registered(rs)'
    BY <2>6, <2>7, <2>1, Zenon DEF Registered, rs
  <2> QED
    BY <2>1, <2>6, <2>7, <2>8, Zenon DEF ListComplete, Registered, rs
<1>5. CASE ApplyUnchanged \/ Ready
  BY <1>5, Zenon DEF ApplyUnchanged, Ready, EndPass, ListComplete, Registered, Valid
<1>6. CASE ApplyWrite \/ ApplyRefused \/ ApplyFailed
  BY <1>6, Zenon DEF ApplyWrite, ApplyRefused, ApplyFailed, EndPass, ListComplete, Valid
<1>7. CASE Crash
  BY <1>7, Zenon DEF Crash, ListComplete
<1>8. UNCHANGED <<passVars, depVars>> \/ EditDeps \/ BeginPass \/ RegisterGroup
        \/ ApplyUnchanged \/ ApplyWrite \/ ApplyRefused \/ ApplyFailed \/ Ready \/ Crash
  BY Zenon DEF Next, Pass, vars, EditCR, DeleteCR, ChangeStatus, DeleteObject,
         CollectGarbage, Remove, SyncObject, SyncCR, Fire, Coalesce
<1> QED BY <1>1, <1>2, <1>3, <1>4, <1>5, <1>6, <1>7, <1>8, Zenon

\* The entries of the list are resources.
LEMMA ListKeys ==
    ASSUME TypeOK
    PROVE  \A i \in 1..Len(list) : list[i] \in Resources /\ list[i].key \in Keys
<1>1. \A i \in 1..Len(list) : list[i] \in Resources
  BY DEF TypeOK
<1> QED BY <1>1, Zenon DEF Keys

\* Users who edit, the caches of the CR and the queue leave the pass and the
\* objects alone.
LEMMA QuietSteps ==
    ASSUME EditCR \/ DeleteCR \/ EditDeps \/ SyncCR \/ Fire \/ Coalesce \/ UNCHANGED vars
    PROVE  UNCHANGED <<passVars, store, stale, missed>> /\ (queue => queue')
<1> USE DEF crVars, objVars, depVars, qVars, passVars
<1>1. CASE EditCR
  BY <1>1, Zenon DEF EditCR
<1>2. CASE DeleteCR
  BY <1>2, Zenon DEF DeleteCR
<1>3. CASE EditDeps
  BY <1>3, Zenon DEF EditDeps
<1>4. CASE SyncCR
  BY <1>4, Zenon DEF SyncCR
<1>5. CASE Fire
  BY <1>5, Zenon DEF Fire
<1>6. CASE Coalesce
  BY <1>6, Zenon DEF Coalesce
<1>7. CASE UNCHANGED vars
  BY <1>7, Zenon DEF vars
<1> QED BY <1>1, <1>2, <1>3, <1>4, <1>5, <1>6, <1>7, Zenon

\* What CreateOrUpdate found to be right stays so, or its watch will wake the
\* operator, or nobody watches it.
LEMMA ComparedHoldsStep == Inv /\ [Next]_vars => ComparedHolds'
<1> SUFFICES ASSUME TypeOK, WorkRemembered, Progress, ComparedHolds, [Next]_vars
             PROVE  ComparedHolds'
  BY Zenon DEF Inv
<1> USE DEF crVars, objVars, depVars, qVars, passVars
<1>0. \A i \in 1..(at - 1) : list[i].key \in Keys
  <2>1. \A i \in 1..(at - 1) : i \in 1..Len(list)
    BY DEF TypeOK
  <2> QED BY <2>1, ListKeys, Zenon
<1>1. CASE UNCHANGED <<passVars, store, missed>> /\ stale \subseteq stale' /\ (queue => queue')
  BY <1>1, Zenon DEF ComparedHolds, Valid, Matches
<1>2. ASSUME NEW k \in Keys, ChangeStatus(k)
      PROVE  ComparedHolds'
  <2>1. store[k] \in Objects /\ store' = [store EXCEPT ![k] = [store[k] EXCEPT !.ready = ~@]]
    BY <1>2, Zenon DEF ChangeStatus, TypeOK
  <2>2. [store[k] EXCEPT !.ready = ~@] \in Objects /\ store'[k].spec = store[k].spec
    BY <2>1, Zenon DEF Objects, TypeOK
  <2>3. \A j \in Keys : \A r : Matches(store[j], r) => Matches(store'[j], r)
    BY <2>1, <2>2, NilIsNoObject, Zenon DEF Matches, TypeOK
  <2> QED BY <1>0, <1>2, <2>3, Zenon DEF ComparedHolds, ChangeStatus, Valid
<1>3. ASSUME NEW k \in Keys, DeleteObject(k) \/ CollectGarbage(k)
      PROVE  ComparedHolds'
  <2>1. Remove(k)
    BY <1>3, Zenon DEF DeleteObject, CollectGarbage
  <2>2. \A j \in missed' : ~Watched(j)
    BY <2>1, Zenon DEF Remove, ComparedHolds
  <2>3. ASSUME Valid', NEW i \in 1..(at' - 1)
        PROVE  LET j == list'[i].key
               IN  \/ j \in missed'
                   \/ Matches(store'[j], list'[i])
                   \/ Watched(j) /\ (j \in stale' \/ queue')
    <3> DEFINE j == list[i].key
    <3>1. Valid /\ list' = list /\ at' = at /\ queue' = queue /\ i \in 1..(at - 1) /\ j \in Keys
      BY <1>0, <2>1, <2>3, Zenon DEF Remove, Valid
    <3>2. j \in missed \/ Matches(store[j], list[i]) \/ (Watched(j) /\ (j \in stale \/ queue))
      BY <3>1, Zenon DEF ComparedHolds
    <3>3. CASE j = k
      BY <2>1, <3>1, <3>3, Zenon DEF Remove, Compared
    <3>4. CASE j # k
      <4>1. store'[j] = store[j] /\ missed \subseteq missed' /\ stale \subseteq stale'
        BY <2>1, <3>1, <3>4, Zenon DEF Remove, TypeOK
      <4> QED BY <3>1, <3>2, <4>1, Zenon
    <3> QED BY <3>3, <3>4, Zenon
  <2> QED BY <2>2, <2>3, Zenon DEF ComparedHolds
<1>4. ASSUME NEW k \in Keys, SyncObject(k)
      PROVE  ComparedHolds'
  BY <1>0, <1>4, Zenon DEF ComparedHolds, SyncObject, Valid, Matches
<1>5. CASE BeginPass
  <2>1. at' = 1 /\ missed' = {}
    BY <1>5, Zenon DEF BeginPass, NewClusterReconciler, NotFound, RegisterCluster
  <2>2. 1..(at' - 1) = {}
    BY <2>1
  <2> QED BY <2>1, <2>2, Zenon DEF ComparedHolds
<1>6. CASE RegisterGroup
  <2>1. at' = 1 /\ missed' = missed
    BY <1>6, Zenon DEF RegisterGroup, Progress
  <2>2. 1..(at' - 1) = {}
    BY <2>1, SMTT(30)
  <2> QED BY <2>1, <2>2, Zenon DEF ComparedHolds
<1>7. CASE ApplyUnchanged
  <2> DEFINE k == list[at].key
  <2>1. k \in Keys
    <3>1. at \in 1..Len(list)
      BY <1>7 DEF ApplyUnchanged, TypeOK
    <3> QED BY <3>1, ListKeys, Zenon
  <2>2. k \notin stale => Matches(store[k], list[at])
    BY <1>7, <2>1, Zenon DEF ApplyUnchanged, WorkRemembered
  <2>3. \A i \in 1..(at' - 1) : i \in 1..(at - 1) \/ i = at
    BY <1>7 DEF ApplyUnchanged, TypeOK
  <2>4. Valid
    BY <1>7, Zenon DEF ApplyUnchanged, Valid
  <2> QED BY <1>7, <2>2, <2>3, <2>4, Zenon DEF ApplyUnchanged, ComparedHolds
<1>8. CASE ApplyWrite \/ ApplyRefused \/ ApplyFailed
  BY <1>8, Zenon DEF ComparedHolds, ApplyWrite, ApplyRefused, ApplyFailed, EndPass, Valid
<1>9. CASE Ready
  BY <1>9, Zenon DEF ComparedHolds, Ready, EndPass, Valid
<1>10. CASE Crash
  <2>1. at' = 1 /\ missed' = {}
    BY <1>10, Zenon DEF Crash
  <2>2. 1..(at' - 1) = {}
    BY <2>1
  <2> QED BY <2>1, <2>2, Zenon DEF ComparedHolds
<1>11. CASE EditCR \/ DeleteCR \/ EditDeps \/ SyncCR \/ Fire \/ Coalesce \/ UNCHANGED vars
  <2>1. UNCHANGED <<passVars, store, stale, missed>> /\ (queue => queue')
    BY <1>11, QuietSteps, Zenon
  <2> QED BY <1>1, <2>1, Zenon
<1> QED
  BY <1>2, <1>3, <1>4, <1>5, <1>6, <1>7, <1>8, <1>9, <1>10, <1>11, Zenon DEF Next, Pass

\* What Ready found to be ready stays so, or its watch will wake the operator.
LEMMA ReadyHoldsStep == Inv /\ [Next]_vars => ReadyHolds'
<1> SUFFICES ASSUME TypeOK, WorkRemembered, ReadyHolds, [Next]_vars
             PROVE  ReadyHolds'
  BY Zenon DEF Inv
<1> USE DEF crVars, objVars, depVars, qVars, passVars
<1>1. CASE UNCHANGED <<passVars, store, stale>> /\ (queue => queue')
  BY <1>1, Zenon DEF ReadyHolds
<1>2. ASSUME NEW k \in Keys, ChangeStatus(k)
      PROVE  ReadyHolds'
  <2>1. \A j \in Keys \ {k} : store'[j] = store[j]
    BY <1>2, Zenon DEF ChangeStatus, TypeOK
  <2> QED BY <1>2, <2>1, ListKeys, Zenon DEF ReadyHolds, ChangeStatus
<1>3. ASSUME NEW k \in Keys, DeleteObject(k) \/ CollectGarbage(k)
      PROVE  ReadyHolds'
  <2>1. Remove(k)
    BY <1>3, Zenon DEF DeleteObject, CollectGarbage
  <2>2. \A j \in Keys \ {k} : store'[j] = store[j]
    BY <2>1, Zenon DEF Remove, TypeOK
  <2> QED BY <2>1, <2>2, ListKeys, Zenon DEF ReadyHolds, Remove
<1>4. ASSUME NEW k \in Keys, SyncObject(k)
      PROVE  ReadyHolds'
  BY <1>4, Zenon DEF ReadyHolds, SyncObject
<1>5. CASE BeginPass
  <2>1. phase' # "idle" \/ ~done' \/ list' = <<>>
    BY <1>5, Zenon DEF BeginPass, NewClusterReconciler, NotFound, RegisterCluster, EndPass
  <2>2. list' = <<>> => 1..Len(list') = {}
    OBVIOUS
  <2> QED BY <2>1, <2>2, Zenon DEF ReadyHolds
<1>6. CASE RegisterGroup
  <2>1. phase' # "idle" \/ ~done'
    BY <1>6, Zenon DEF RegisterGroup, EndPass
  <2> QED BY <2>1, Zenon DEF ReadyHolds
<1>7. CASE ApplyUnchanged
  BY <1>7, Zenon DEF ReadyHolds, ApplyUnchanged
<1>8. CASE ApplyWrite \/ ApplyRefused \/ ApplyFailed
  BY <1>8, Zenon DEF ReadyHolds, ApplyWrite, ApplyRefused, ApplyFailed, EndPass
<1>9. CASE Ready
  <2> SUFFICES ASSUME done', NEW i \in 1..Len(list), Watched(list[i].key),
                      list[i].key \notin stale
               PROVE  store[list[i].key] # Nil /\ store[list[i].key].ready
    BY <1>9, Zenon DEF Ready, ReadyHolds
  <2>1. IsReady(i)
    BY <1>9, Zenon DEF Ready, EndPass
  <2>2. view[list[i].key] # Nil /\ view[list[i].key].ready
    BY <2>1, WorkloadsHaveStatus, Zenon DEF IsReady, Watched
  <2>3. view[list[i].key] = store[list[i].key]
    BY ListKeys, Zenon DEF WorkRemembered
  <2> QED BY <2>2, <2>3, Zenon
<1>10. CASE Crash
  <2>1. list' = <<>>
    BY <1>10, Zenon DEF Crash
  <2>2. 1..Len(list') = {}
    BY <2>1
  <2> QED BY <2>2, Zenon DEF ReadyHolds
<1>11. CASE EditCR \/ DeleteCR \/ EditDeps \/ SyncCR \/ Fire \/ Coalesce \/ UNCHANGED vars
  <2>1. UNCHANGED <<passVars, store, stale>> /\ (queue => queue')
    BY <1>11, QuietSteps, Zenon
  <2> QED BY <1>1, <2>1, Zenon
<1> QED
  BY <1>2, <1>3, <1>4, <1>5, <1>6, <1>7, <1>8, <1>9, <1>10, <1>11, Zenon DEF Next, Pass

-----------------------------------------------------------------------------
(* The theorems *)

\* Every reachable state satisfies the inductive invariant.
THEOREM Invariance == Spec => []Inv
<1>1. Inv /\ [Next]_vars => Inv'
  BY TypeStep, WorkRememberedStep, ProgressStep, ListCompleteStep, ComparedHoldsStep,
     ReadyHoldsStep, Zenon DEF Inv
<1> QED BY InitInv, <1>1, PTL DEF Spec

\* The variables of the controller, its caches and the API server keep their
\* types: every list is made of resources some registration returns.
THEOREM TypeCorrect == Spec => []TypeOK
<1>1. Inv => TypeOK
  BY Zenon DEF Inv
<1> QED BY Invariance, <1>1, PTL

\* At rest, the list of the last pass is what the current CR asks for and all
\* of it was compared.
LEMMA RestList ==
    ASSUME Inv, AtRest, cr # Nil, ~depsMoved, NEW o \in AskedBy(cr, deps)
    PROVE  /\ o # Panic
           /\ \A r \in Range(o.val) : \E i \in 1..Len(list) : i \in 1..(at - 1) /\ r = list[i]
<1>1. seen = cr /\ done /\ todo = {} /\ at = Len(list) + 1 /\ Valid
  BY Zenon DEF Inv, AtRest, WorkRemembered, Progress, Valid
<1>2. Registered(o)
  BY <1>1, Zenon DEF Inv, ListComplete, AskedBy
<1>3. Range(list) = {list[i] : i \in 1..Len(list)} /\ Len(list) \in Nat
  <2>1. list \in Seq(Resources)
    BY Zenon DEF Inv, TypeOK
  <2>2. DOMAIN list = 1..Len(list) /\ Len(list) \in Nat
    BY <2>1
  <2> QED BY <2>2, Zenon DEF Range
<1> QED BY <1>1, <1>2, <1>3 DEF Registered

\* Whenever the operator rests, every object the CR asks for exists with the
\* content built for it, or is of an unwatched kind and was changed behind the
\* back of the last pass.
THEOREM RestIsConverged == Spec => []RestMatches
<1>1. Inv => RestMatches
  <2> SUFFICES ASSUME Inv, AtRest, cr # Nil, ~depsMoved, NEW o \in AskedBy(cr, deps)
               PROVE  o # Panic /\ \A r \in Range(o.val) : r.key \in missed \/ Matches(store[r.key], r)
    BY Zenon DEF RestMatches
  <2>1. Valid
    BY Zenon DEF Inv, AtRest, WorkRemembered, Valid
  <2>2. \A i \in 1..(at - 1) : list[i].key \in missed \/ Matches(store[list[i].key], list[i])
    BY <2>1, Zenon DEF Inv, AtRest, ComparedHolds
  <2> QED BY <2>2, RestList, Zenon
<1> QED BY Invariance, <1>1, PTL

\* Whenever the operator rests, every workload the CR asks for exists with the
\* content built for it and is ready: the two watches lose no change.
THEOREM RestIsReady == Spec => []RestReady
<1>1. Inv => RestReady
  <2> SUFFICES ASSUME Inv, AtRest, cr # Nil, ~depsMoved, NEW o \in AskedBy(cr, deps),
                      NEW r \in Range(o.val), Watched(r.key)
               PROVE  Matches(store[r.key], r) /\ store[r.key].ready
    BY Zenon DEF RestReady
  <2>1. PICK i \in 1..Len(list) : i \in 1..(at - 1) /\ r = list[i]
    BY RestList, Zenon
  <2>2. Valid /\ done
    BY Zenon DEF Inv, AtRest, WorkRemembered, Valid
  <2>3. Matches(store[r.key], r)
    BY <2>1, <2>2, Zenon DEF Inv, AtRest, ComparedHolds
  <2>4. store[r.key].ready
    BY <2>1, <2>2, Zenon DEF Inv, AtRest, ReadyHolds
  <2> QED BY <2>3, <2>4, Zenon
<1> QED BY Invariance, <1>1, PTL

-----------------------------------------------------------------------------
(* Rollout: the order of the list *)

\* The keys of the first n resources of a list.
FirstKeys(l, n) == {l[j].key : j \in 1..n}

\* The list of a pass is in the order of Due, and all that was registered so
\* far is in it.
Ordered ==
    phase # "idle" =>
        /\ \A i \in 1..Len(list) : Due(seen, FirstKeys(list, i - 1), list[i].key, list[i].obj)
        /\ AllFound(ClusterReconcilers(seen), FirstKeys(list, Len(list)))
        /\ \A v \in RoleGroups(seen) \ todo : \E d \in DepStates :
              AllFound(GroupReconcilers(seen, v[1], v[2], d), FirstKeys(list, Len(list)))

-----------------------------------------------------------------------------
(* The order of registration *)

\* The objects of the cluster may be written in the order of RegisterResources.
LEMMA ClusterDue ==
    ASSUME NEW s \in Specs, ClusterReconcilers(s) # Panic,
           NEW i \in 1..Len(ClusterReconcilers(s).val)
    PROVE  LET l == ClusterReconcilers(s).val
           IN  Due(s, FirstKeys(l, i - 1), l[i].key, l[i].obj)
<1> DEFINE o == ClusterReconcilers(s)
<1>1. ClusterTurns[s] = o
  BY Zenon DEF ClusterTurns
<1>2. o.val \in Seq(Resources) /\ o # Panic /\ i \in 1..Len(o.val)
  BY ClusterTyped, Zenon
<1> HIDE DEF o
<1>3. InTurn(o, FirstKeys(o.val, i - 1), o.val[i].key, o.val[i].obj)
  BY <1>2 DEF InTurn, FirstKeys
<1> QED BY <1>1, <1>3, Zenon DEF Due, o

\* So may those of a role group, behind those of the cluster and of all groups
\* of the roles before.
LEMMA GroupDue ==
    ASSUME NEW s \in Specs, ClusterReconcilers(s) # Panic, NEW w \in RoleGroups(s),
           NEW d \in DepStates, NEW found,
           GroupReconcilers(s, w[1], w[2], d) # Panic,
           NEW i \in 1..Len(GroupReconcilers(s, w[1], w[2], d).val),
           FirstKeys(GroupReconcilers(s, w[1], w[2], d).val, i - 1) \subseteq found,
           AllFound(ClusterReconcilers(s), found),
           \A v \in RoleGroups(s) : RoleIndex(v[1]) < RoleIndex(w[1]) =>
              \E x \in DepStates : AllFound(GroupReconcilers(s, v[1], v[2], x), found)
    PROVE  LET r == GroupReconcilers(s, w[1], w[2], d).val[i]
           IN  Due(s, found, r.key, r.obj)
<1> DEFINE o == GroupReconcilers(s, w[1], w[2], d)
<1>1. ClusterTurns[s] = ClusterReconcilers(s)
  BY Zenon DEF ClusterTurns
<1>2. \A v \in RoleGroups(s) :
        GroupTurns[s][v] = {GroupReconcilers(s, v[1], v[2], x) : x \in DepStates}
  BY Zenon DEF GroupTurns
<1>3. o \in GroupTurns[s][w]
  BY <1>2, Zenon
<1>4. o # Panic /\ o.val \in Seq(Resources) /\ i \in 1..Len(o.val)
      /\ FirstKeys(o.val, i - 1) \subseteq found
  BY GroupTyped, Zenon
<1> HIDE DEF o
<1>5. InTurn(o, found, o.val[i].key, o.val[i].obj)
  BY <1>4 DEF InTurn, FirstKeys
<1>6. \A v \in RoleGroups(s) : RoleIndex(v[1]) < RoleIndex(w[1]) =>
        \E x \in GroupTurns[s][v] : AllFound(x, found)
  BY <1>2, Zenon
<1> QED BY <1>1, <1>3, <1>5, <1>6, Zenon DEF Due, o

\* The keys of a concatenation.
LEMMA KeysConcat ==
    ASSUME NEW S, NEW l \in Seq(S), NEW m \in Seq(S)
    PROVE  /\ \A n \in 0..Len(l) : FirstKeys(l \o m, n) = FirstKeys(l, n)
           /\ \A n \in 0..Len(m) :
                FirstKeys(l, Len(l)) \cup FirstKeys(m, n) = FirstKeys(l \o m, Len(l) + n)
<1>1. \A i \in 1..Len(l) : (l \o m)[i] = l[i]
  OBVIOUS
<1>2. \A i \in 1..Len(m) : (l \o m)[Len(l) + i] = m[i]
  OBVIOUS
<1>3. Len(l) \in Nat /\ Len(m) \in Nat
  OBVIOUS
<1>4. \A n \in 0..Len(l) : FirstKeys(l \o m, n) = FirstKeys(l, n)
  BY <1>1, <1>3 DEF FirstKeys
<1>5. ASSUME NEW n \in 0..Len(m)
      PROVE  FirstKeys(l, Len(l)) \cup FirstKeys(m, n) = FirstKeys(l \o m, Len(l) + n)
  <2>1. ASSUME NEW j \in 1..(Len(l) + n)
        PROVE  (l \o m)[j].key \in FirstKeys(l, Len(l)) \cup FirstKeys(m, n)
    <3>1. CASE j <= Len(l)
      BY <3>1, <1>1, <1>3 DEF FirstKeys
    <3>2. CASE j > Len(l)
      <4>1. j - Len(l) \in 1..n /\ j - Len(l) \in 1..Len(m) /\ Len(l) + (j - Len(l)) = j
        BY <3>2, <1>3
      <4>2. (l \o m)[j] = m[j - Len(l)]
        BY <4>1, <1>2, Zenon
      <4> QED BY <4>1, <4>2, Zenon DEF FirstKeys
    <3> QED BY <3>1, <3>2, <1>3
  <2>2. ASSUME NEW j \in 1..Len(l)
        PROVE  l[j].key \in FirstKeys(l \o m, Len(l) + n)
    <3>1. j \in 1..(Len(l) + n) /\ (l \o m)[j] = l[j]
      BY <1>1, <1>3
    <3> QED BY <3>1, Zenon DEF FirstKeys
  <2>3. ASSUME NEW j \in 1..n
        PROVE  m[j].key \in FirstKeys(l \o m, Len(l) + n)
    <3>1. Len(l) + j \in 1..(Len(l) + n) /\ (l \o m)[Len(l) + j] = m[j]
      BY <1>2, <1>3
    <3> QED BY <3>1, Zenon DEF FirstKeys
  <2> QED BY <2>1, <2>2, <2>3, ZenonT(30) DEF FirstKeys
<1> QED BY <1>4, <1>5, Zenon

\* All of a registration is found among the keys of a list it is part of.
LEMMA AllFoundMore ==
    ASSUME NEW o, NEW f, NEW g, AllFound(o, f), f \subseteq g
    PROVE  AllFound(o, g)
  BY Zenon DEF AllFound

-----------------------------------------------------------------------------
(* Every list is in order *)

\* RegisterResources keeps the list in order: of the groups that are left it
\* takes one of the first role.
LEMMA OrderedStep == Inv /\ Ordered /\ [Next]_vars => Ordered'
<1> SUFFICES ASSUME TypeOK, Progress, Ordered, [Next]_vars, phase' # "idle"
             PROVE  Ordered'
  BY Zenon DEF Inv, Ordered
<1> USE DEF crVars, objVars, depVars, qVars, passVars
<1>1. CASE UNCHANGED passVars
  BY <1>1, Zenon DEF Ordered
<1>2. CASE BeginPass
  <2> DEFINE o == ClusterReconcilers(crSeen)
  <2>1. crSeen \in Specs /\ o # Panic /\ seen' = crSeen /\ list' = o.val
        /\ todo' = RoleGroups(crSeen)
    BY <1>2, Zenon DEF BeginPass, NotFound, RegisterCluster, EndPass, TypeOK
  <2>2. o.val \in Seq(Resources)
    BY <2>1, ClusterTyped, Zenon
  <2>3. \A i \in 1..Len(o.val) :
          Due(crSeen, FirstKeys(o.val, i - 1), o.val[i].key, o.val[i].obj)
    BY <2>1, ClusterDue, Zenon
  <2> HIDE DEF o
  <2>4. AllFound(o, FirstKeys(o.val, Len(o.val)))
    BY <2>1, <2>2 DEF AllFound, FirstKeys
  <2> QED BY <2>1, <2>3, <2>4, Zenon DEF Ordered, o
<1>3. CASE RegisterGroup
  <2>1. PICK w \in FirstGroups(todo) :
          LET rs == GroupReconcilers(seen, w[1], w[2], deps)
          IN  rs # Panic /\ todo' = todo \ {w} /\ list' = list \o rs.val
    BY <1>3, Zenon DEF RegisterGroup, EndPass
  <2> DEFINE rs == GroupReconcilers(seen, w[1], w[2], deps)
             all == FirstKeys(list', Len(list'))
  <2>2. seen \in Specs /\ ClusterReconcilers(seen) # Panic /\ w \in todo /\ phase # "idle"
        /\ seen' = seen /\ deps \in DepStates
    BY <1>3, <2>1, ZenonT(30) DEF RegisterGroup, Progress, FirstGroups, TypeOK
  <2>3. w \in RoleGroups(seen)
    BY <2>2, Zenon DEF TypeOK
  <2>4. rs # Panic /\ todo' = todo \ {w} /\ list' = list \o rs.val
    BY <2>1, Zenon
  <2>5. rs.val \in Seq(Resources) /\ list \in Seq(Resources)
    BY <2>2, <2>3, <2>4, GroupTyped, Zenon DEF TypeOK
  <2>6. \A v \in RoleGroups(seen) : RoleIndex(v[1]) < RoleIndex(w[1]) => v \notin todo
    <3>1. \A v \in RoleGroups(seen) : RoleIndex(v[1]) \in 1..4
      <4>1. \A r \in Roles : \E i \in 1..4 : RoleOrder[i] = r
        <5>1. RoleOrder[1] = "master" /\ RoleOrder[2] = "alert" /\ RoleOrder[3] = "api"
              /\ RoleOrder[4] = "worker"
          BY Zenon DEF RoleOrder
        <5> QED BY <5>1 DEF Roles
      <4>2. \A v \in RoleGroups(seen) : v[1] \in Roles
        BY DEF RoleGroups
      <4> QED BY <4>1, <4>2, Zenon DEF RoleIndex
    <3> QED BY <3>1, <2>1, <2>3 DEF FirstGroups
  <2>7. /\ \A i \in 1..Len(list) : Due(seen, FirstKeys(list, i - 1), list[i].key, list[i].obj)
        /\ AllFound(ClusterReconcilers(seen), FirstKeys(list, Len(list)))
        /\ \A v \in RoleGroups(seen) \ todo : \E d \in DepStates :
              AllFound(GroupReconcilers(seen, v[1], v[2], d), FirstKeys(list, Len(list)))
    BY <2>2, Zenon DEF Ordered
  <2>8. /\ Len(list) \in Nat /\ Len(rs.val) \in Nat /\ Len(list') = Len(list) + Len(rs.val)
        /\ \A i \in 1..Len(list) : list'[i] = list[i]
        /\ \A i \in 1..Len(rs.val) : list'[Len(list) + i] = rs.val[i]
    <3> HIDE DEF rs
    <3> QED BY <2>4, <2>5
  <2>9. /\ \A n \in 0..Len(list) : FirstKeys(list', n) = FirstKeys(list, n)
        /\ \A n \in 0..Len(rs.val) :
             FirstKeys(list, Len(list)) \cup FirstKeys(rs.val, n) = FirstKeys(list', Len(list) + n)
    <3> HIDE DEF rs
    <3> QED BY <2>4, <2>5, KeysConcat
  <2>10. ASSUME NEW i \in 1..Len(list')
         PROVE  Due(seen, FirstKeys(list', i - 1), list'[i].key, list'[i].obj)
    <3>1. CASE i <= Len(list)
      <4>1. i \in 1..Len(list) /\ i - 1 \in 0..Len(list)
        BY <3>1, <2>8
      <4> QED BY <4>1, <2>7, <2>8, <2>9, Zenon
    <3>2. CASE i > Len(list)
      <4> DEFINE n == i - Len(list)
                 found == FirstKeys(list', i - 1)
      <4>1. n \in 1..Len(rs.val) /\ n - 1 \in 0..Len(rs.val) /\ Len(list) + n = i
            /\ Len(list) + (n - 1) = i - 1
        <5> HIDE DEF rs
        <5> QED BY <3>2, <2>8
      <4>2. list'[i] = rs.val[n]
        BY <4>1, <2>8, Zenon
      <4>3. FirstKeys(list, Len(list)) \cup FirstKeys(rs.val, n - 1) = found
        BY <4>1, <2>9, Zenon
      <4> HIDE DEF n, found
      <4>4. AllFound(ClusterReconcilers(seen), found)
        BY <4>3, <2>7, AllFoundMore
      <4>5. \A v \in RoleGroups(seen) : RoleIndex(v[1]) < RoleIndex(w[1]) =>
              \E x \in DepStates : AllFound(GroupReconcilers(seen, v[1], v[2], x), found)
        BY <4>3, <2>6, <2>7, AllFoundMore
      <4>6. FirstKeys(rs.val, n - 1) \subseteq found
        BY <4>3, Zenon
      <4>7. Due(seen, found, rs.val[n].key, rs.val[n].obj)
        BY <4>1, <4>4, <4>5, <4>6, <2>2, <2>3, <2>4, GroupDue, Zenon
      <4> QED BY <4>2, <4>7, Zenon DEF found
    <3> QED BY <3>1, <3>2, <2>8
  <2>11. FirstKeys(list, Len(list)) \cup FirstKeys(rs.val, Len(rs.val)) = all
    <3> HIDE DEF rs
    <3>1. Len(rs.val) \in 0..Len(rs.val)
      BY <2>8
    <3> QED BY <3>1, <2>8, <2>9, Zenon
  <2>12. AllFound(rs, all)
    <3> HIDE DEF rs, all
    <3>1. AllFound(rs, FirstKeys(rs.val, Len(rs.val)))
      BY <2>4, <2>5 DEF AllFound, FirstKeys
    <3> QED BY <3>1, <2>11, AllFoundMore
  <2> HIDE DEF all
  <2>13. AllFound(ClusterReconcilers(seen), all)
    BY <2>7, <2>11, AllFoundMore, SMTT(30)
  <2>14. \A v \in RoleGroups(seen) \ todo' : \E d \in DepStates :
           AllFound(GroupReconcilers(seen, v[1], v[2], d), all)
    BY <2>2, <2>4, <2>7, <2>11, <2>12, AllFoundMore, SMTT(30)
  <2> QED BY <2>2, <2>10, <2>13, <2>14, Zenon DEF Ordered, all
<1>4. CASE ApplyUnchanged
  BY <1>4, Zenon DEF ApplyUnchanged, Ordered
<1>5. CASE ApplyWrite \/ ApplyRefused \/ ApplyFailed \/ Ready \/ Crash
  BY <1>5, Zenon DEF ApplyWrite, ApplyRefused, ApplyFailed, Ready, Crash, EndPass
<1>6. UNCHANGED passVars \/ BeginPass \/ RegisterGroup \/ ApplyUnchanged \/ ApplyWrite
        \/ ApplyRefused \/ ApplyFailed \/ Ready \/ Crash
  BY Zenon DEF Next, Pass, vars, EditCR, DeleteCR, EditDeps, ChangeStatus, DeleteObject,
         CollectGarbage, Remove, SyncObject, SyncCR, Fire, Coalesce
<1> QED BY <1>1, <1>2, <1>3, <1>4, <1>5, <1>6, Zenon

-----------------------------------------------------------------------------
(* Every step of the controller is a step of Rollout, or none *)

\* Before the first event the controller has observed and found nothing.
LEMMA InitAbstract == Init => Abstract!Init /\ Ordered
<1> SUFFICES ASSUME Init PROVE Abstract!Init /\ Ordered
  OBVIOUS
<1>1. Contents(store) = [k \in Keys |-> Nil] /\ Contents(view) = Contents(store)
  BY Zenon DEF Init, Contents
<1>2. Compared = {}
  BY DEF Init, Compared
<1>3. Ordered
  BY Zenon DEF Init, Ordered
<1> QED BY <1>1, <1>2, <1>3, Zenon DEF Init, Abstract!Init

\* What the pass looks at next is next in the order of RegisterResources.
LEMMA NextIsDue ==
    ASSUME TypeOK, Progress, Ordered, phase = "apply", at <= Len(list)
    PROVE  /\ Due(seen, Compared, list[at].key, list[at].obj)
           /\ seen \in Specs
           /\ list[at].key \in Keys
<1>1. at \in 1..Len(list) /\ list[at] \in Resources
  BY DEF TypeOK
<1>2. Compared = FirstKeys(list, at - 1)
  BY Zenon DEF Compared, FirstKeys
<1> QED BY <1>1, <1>2, Zenon DEF Ordered, Progress, Keys

\* A step of the users, the caches or the controller changes the cluster, the
\* caches and the progress of the pass in a way that Rollout allows.
LEMMA StepAbstract ==
    ASSUME Inv, Inv', Ordered, [Next]_vars
    PROVE  [Abstract!Next]_(Abstract!vars)
<1> USE DEF crVars, objVars, depVars, qVars, passVars, Inv
<1>1. CASE EditCR \/ DeleteCR
  <2>1. Abstract!Edit
    BY <1>1, Zenon DEF EditCR, DeleteCR, Abstract!Edit, Contents, Compared, TypeOK
  <2> QED BY <2>1, Zenon DEF Abstract!Next
<1>2. CASE EditDeps \/ Fire \/ Coalesce \/ UNCHANGED vars
  <2>1. UNCHANGED Abstract!vars
    BY <1>2, Zenon DEF EditDeps, Fire, Coalesce, vars, Abstract!vars, Contents, Compared
  <2> QED BY <2>1, Zenon
<1>3. ASSUME NEW k \in Keys, ChangeStatus(k)
      PROVE  UNCHANGED Abstract!vars
  <2>1. Contents(store)' = Contents(store)
    <3>1. ASSUME NEW x \in Keys
          PROVE  (IF store'[x] = Nil THEN Nil ELSE store'[x].spec)
                   = (IF store[x] = Nil THEN Nil ELSE store[x].spec)
      <4>1. CASE x # k
        BY <1>3, <4>1, Zenon DEF ChangeStatus, TypeOK
      <4>2. CASE x = k
        <5>1. store[k] \in Objects /\ store'[k] = [store[k] EXCEPT !.ready = ~@]
          BY <1>3, Zenon DEF ChangeStatus, TypeOK
        <5>2. store'[k] \in Objects /\ store'[k].spec = store[k].spec
          BY <5>1, Zenon DEF Objects
        <5> QED BY <4>2, <5>1, <5>2, NilIsNoObject, Zenon
      <4> QED BY <4>1, <4>2, Zenon
    <3> QED BY <3>1, Zenon DEF Contents
  <2> QED BY <1>3, <2>1 DEF ChangeStatus, Abstract!vars, Contents, Compared
<1>4. ASSUME NEW k \in Keys, Remove(k)
      PROVE  Abstract!Lose(k)
  <2>1. Contents(store)' = [Contents(store) EXCEPT ![k] = Nil]
    BY <1>4, Zenon DEF Remove, Contents, TypeOK
  <2> QED BY <1>4, <2>1, ZenonT(30) DEF Remove, Abstract!Lose, Contents, Compared
<1>5. ASSUME NEW k \in Keys, SyncObject(k)
      PROVE  Abstract!Observe(k)
  <2>1. Contents(view)' = [Contents(view) EXCEPT ![k] = Contents(store)[k]]
    BY <1>5, Zenon DEF SyncObject, Contents, TypeOK
  <2> QED BY <1>5, <2>1 DEF SyncObject, Abstract!Observe, Contents, Compared
<1>6. CASE SyncCR
  <2>1. Abstract!ObserveCR
    BY <1>6, Zenon DEF SyncCR, Abstract!ObserveCR, Contents, Compared
  <2> QED BY <2>1, Zenon DEF Abstract!Next
<1>7. CASE BeginPass
  <2>1. at' = 1
    BY <1>7, Zenon DEF BeginPass, NewClusterReconciler
  <2>2. Compared' = {}
    BY <2>1 DEF Compared
  <2>3. Abstract!Adopt
    BY <1>7, <2>2, Zenon DEF BeginPass, Abstract!Adopt, Contents
  <2> QED BY <2>3, Zenon DEF Abstract!Next
<1>8. CASE RegisterGroup
  <2>1. at = 1 /\ at' = 1
    BY <1>8, Zenon DEF RegisterGroup, Progress
  <2>2. Compared = {} /\ Compared' = {}
    BY <2>1 DEF Compared
  <2>3. UNCHANGED Abstract!vars
    BY <1>8, <2>2, Zenon DEF RegisterGroup, Abstract!vars, Contents
  <2> QED BY <2>3, Zenon
<1>9. CASE ApplyUnchanged
  <2> DEFINE k == list[at].key
  <2>1. seen \in Specs /\ Due(seen, Compared, k, list[at].obj) /\ k \in Keys
    BY <1>9, NextIsDue, Zenon DEF ApplyUnchanged
  <2>2. Contents(view)[k] = list[at].obj
    BY <1>9, <2>1, Zenon DEF ApplyUnchanged, Matches, Contents
  <2>3. Compared' = Compared \cup {k}
    <3>1. at \in Nat /\ at >= 1 /\ at' = at + 1 /\ list' = list
      BY <1>9 DEF ApplyUnchanged, TypeOK
    <3>2. 1..(at' - 1) = 1..(at - 1) \cup {at}
      BY <3>1, SMTT(30)
    <3> QED BY <3>1, <3>2, Zenon DEF Compared
  <2>4. Abstract!Find(k)
    BY <1>9, <2>1, <2>2, <2>3, Zenon DEF ApplyUnchanged, Abstract!Find, Contents
  <2> QED BY <2>1, <2>4, Zenon DEF Abstract!Next
<1>10. CASE ApplyWrite
  <2> DEFINE k == list[at].key
             o == list[at].obj
             have == Contents(store)
  <2>1. seen \in Specs /\ Due(seen, Compared, k, o) /\ k \in Keys
    BY <1>10, NextIsDue, Zenon DEF ApplyWrite
  <2>2. \E b \in BOOLEAN : store' = [store EXCEPT ![k] = [spec |-> o, ready |-> b]]
    <3>1. store[k] # Nil => store[k].ready \in BOOLEAN
      BY <2>1, Zenon DEF TypeOK, Objects
    <3> QED BY <1>10, <3>1, Zenon DEF ApplyWrite
  <2>3. \A b \in BOOLEAN : [spec |-> o, ready |-> b] # Nil
    <3>1. list[at] \in Resources
      BY <1>10, SMTT(30) DEF ApplyWrite, TypeOK
    <3> QED BY <3>1, ResourceTyped, NilIsNoObject, Zenon
  <2>4. have'[k] = o /\ have' = [have EXCEPT ![k] = o]
    <3>1. PICK b \in BOOLEAN : store' = [store EXCEPT ![k] = [spec |-> o, ready |-> b]]
      BY <2>2, Zenon
    <3> HIDE DEF k, o
    <3>2. store'[k] = [spec |-> o, ready |-> b]
      BY <3>1, <2>1, ZenonT(30) DEF TypeOK
    <3>3. \A x \in Keys \ {k} : store'[x] = store[x]
      BY <3>1, <2>1, ZenonT(30) DEF TypeOK
    <3>4. store'[k] # Nil /\ store'[k].spec = o
      BY <3>2, <2>3
    <3>5. have' = [x \in Keys |-> IF store'[x] = Nil THEN Nil ELSE store'[x].spec]
      BY Zenon DEF Contents
    <3>6. have = [x \in Keys |-> IF store[x] = Nil THEN Nil ELSE store[x].spec]
      BY Zenon DEF Contents
    <3> HIDE DEF have
    <3>7. have'[k] = o
      BY <3>4, <3>5, <2>1, Zenon
    <3> QED BY <3>3, <3>5, <3>6, <3>7, <2>1, Zenon
  <2>5. Contents(view)[k] = have[k]
    <3>1. CASE view[k] = Nil
      BY <1>10, <2>1, <3>1, Zenon DEF ApplyWrite, Contents
    <3>2. CASE view[k] # Nil
      BY <1>10, <2>1, <3>2, Zenon DEF ApplyWrite, WorkRemembered, Contents
    <3> QED BY <3>1, <3>2, Zenon
  <2>6. have[k] # Nil => o # have[k] /\ ~Immutable(k, have[k], o)
    <3>1. have[k] # Nil => view[k] # Nil /\ have[k] = view[k].spec
      BY <2>1, <2>5, Zenon DEF Contents
    <3>2. ~Matches(view[k], list[at]) /\ (view[k] # Nil => ~Immutable(k, view[k].spec, o))
      BY <1>10, Zenon DEF ApplyWrite
    <3>3. view[k] # Nil => o # view[k].spec
      BY <3>2, Zenon DEF Matches
    <3> QED BY <3>1, <3>2, <3>3, Zenon
  <2>7. Abstract!Write(k)
    BY <1>10, <2>1, <2>4, <2>5, <2>6, ZenonT(30) DEF ApplyWrite, Abstract!Write, Contents, Compared
  <2> QED BY <2>1, <2>7, Zenon DEF Abstract!Next
<1>11. CASE ApplyRefused \/ ApplyFailed \/ Ready
  <2>1. UNCHANGED Abstract!vars
    BY <1>11, Zenon DEF ApplyRefused, ApplyFailed, Ready, Abstract!vars, Contents, Compared
  <2> QED BY <2>1, Zenon
<1>12. CASE Crash
  <2>1. at' = 1
    BY <1>12, Zenon DEF Crash
  <2>2. Compared' = {}
    BY <2>1 DEF Compared
  <2>3. Abstract!Restart
    BY <1>12, <2>2, Zenon DEF Crash, Abstract!Restart, Contents
  <2> QED BY <2>3, Zenon DEF Abstract!Next
<1>13. ASSUME NEW k \in Keys,
              ChangeStatus(k) \/ DeleteObject(k) \/ CollectGarbage(k) \/ SyncObject(k)
       PROVE  [Abstract!Next]_(Abstract!vars)
  BY <1>3, <1>4, <1>5, <1>13, Zenon DEF DeleteObject, CollectGarbage, Abstract!Next
<1> QED
  BY <1>1, <1>2, <1>6, <1>7, <1>8, <1>9, <1>10, <1>11, <1>12, <1>13, Zenon DEF Next, Pass

\* The controller implements Rollout: it writes in the order of registration,
\* over what it has observed, and only what the CR of the pass asks for.
THEOREM Implements == Spec => ImplementsRollout
<1>1. Inv /\ Inv' /\ Ordered /\ [Next]_vars => [Abstract!Next]_(Abstract!vars)
  BY StepAbstract, Zenon
<1> QED BY <1>1, Invariance, InitAbstract, OrderedStep, PTL
        DEF Spec, ImplementsRollout, Abstract!Spec

-----------------------------------------------------------------------------
(* What the order of registration says about a workload *)

\* The init job, the service account of all pods, and the shared config map.
JobKey == Key("Job", <<>>)

AccountKey == Key("ServiceAccount", <<"dolphinscheduler">>)

EnvsKey == Key("ConfigMap", RoleGroupEnvsConfigMapName)

\* RegisterResources adds the service account first and the job fourth, with the
\* image of the CR.
LEMMA ClusterElements ==
    ASSUME NEW s, ClusterReconcilers(s) # Panic
    PROVE  LET l == ClusterReconcilers(s).val
           IN  /\ DOMAIN l = 1..4
               /\ l[1].key = AccountKey
               /\ l[2].key.kind = "Role" /\ l[3].key.kind = "RoleBinding"
               /\ l[4].key = JobKey /\ l[4].obj.image = GetImage(s)
<1> DEFINE j == NewJobInitScriptReconciler(s).val
           l == ClusterReconcilers(s).val
<1>1. l = <<RbacReconcilers[1], RbacReconcilers[2], RbacReconcilers[3], j>>
      /\ NewJobInitScriptReconciler(s) # Panic
  BY ClusterShape, Zenon
<1>2. j.key = JobKey /\ j.obj.image = GetImage(s)
  <2>1. j = Resource("Job", <<>>,
              [image   |-> GetImage(s),
               waitFor |-> GetDatabaseHost(s.clusterConfig.database).val,
               envFrom |-> RoleGroupEnvsConfigMapName])
    BY <1>1, JobShape, Zenon
  <2> QED BY <2>1, SMTT(30) DEF Resource, JobKey, Key
<1>3. /\ RbacReconcilers[1].key = AccountKey
      /\ RbacReconcilers[2].key.kind = "Role" /\ RbacReconcilers[3].key.kind = "RoleBinding"
  BY Zenon DEF RbacReconcilers, Resource, AccountKey, Key
<1> HIDE DEF j, l
<1> QED BY <1>1, <1>2, <1>3 DEF l

\* The element i of the list l of a group of the role r of the CR s is no job, and
\* a workload has the image of the CR and comes after the config maps it refers to.
GroupElement(s, r, l, i) ==
    /\ l[i].key.kind # "Job"
    /\ Watched(l[i].key) =>
         /\ l[i].obj # Error => l[i].obj.containers[1].image = GetImage(s)
         /\ \E j \in 1..(i - 1) : l[j].key = Key("ConfigMap", l[i].key.name)
         /\ r = "master" => \E j \in 1..(i - 1) : l[j].key = EnvsKey

\* In a role group the config map stands before the workload, and for a master
\* the shared one too; no group has a job; the workload has the image of the CR.
LEMMA GroupElements ==
    ASSUME NEW s, NEW r \in Roles, NEW g, NEW d, GroupReconcilers(s, r, g, d) # Panic,
           NEW i \in DOMAIN GroupReconcilers(s, r, g, d).val
    PROVE  GroupElement(s, r, GroupReconcilers(s, r, g, d).val, i)
<1> DEFINE c == GroupConfigMap(s, r, g, d).val
           e == GroupEnvMap(s, g, d).val
           w == GroupWorkload(s, r, g, d)
           u == GroupService(r, g)
           m == NewRoleGroupMetricsService(r, g)
           l == GroupReconcilers(s, r, g, d).val
<1>1. /\ \/ r = "master" /\ l = <<c, e, w, u, m>> /\ GroupEnvMap(s, g, d) # Panic
         \/ r # "master" /\ (l = <<c, w, u, m>> \/ l = <<m>>)
      /\ GroupConfigMap(s, r, g, d) # Panic
  <2>1. CASE r = "master"
    BY <2>1, MasterShape, ZenonT(30)
  <2>2. CASE r \in {"worker", "alert"}
    BY <2>2, PlainShape, SMTT(30)
  <2>3. CASE r = "api"
    BY <2>3, ApiShape, Zenon
  <2> QED BY <2>1, <2>2, <2>3, ZenonT(30) DEF Roles
<1>2. c.key = Key("ConfigMap", FullName(r, g))
  BY <1>1, ConfigMapKey, Zenon
<1>3. GroupEnvMap(s, g, d) # Panic => e.key = EnvsKey
  BY EnvMapKey, Zenon DEF EnvsKey
<1>4. w.key.kind \in {"StatefulSet", "Deployment"} /\ w.key.name = FullName(r, g)
      /\ u.key.kind = "Service" /\ m.key.kind = "Service"
  <2>1. /\ w.key = Key(WorkloadKind(r), FullName(r, g))
        /\ u.key = Key("Service", FullName(r, g))
        /\ m.key = Key("Service", CreateServiceMetricsName(r, g))
    BY WorkloadKey, ServiceKeys, SMTT(30)
  <2> QED BY <2>1, KeyFields, SMTT(30) DEF WorkloadKind
<1>5. w.obj # Error => w.obj.containers[1].image = GetImage(s)
  BY WorkloadImage, Zenon
<1>6. c.key.kind = "ConfigMap" /\ EnvsKey.kind = "ConfigMap"
  BY <1>2, KeyFields, SMTT(30) DEF EnvsKey
<1> HIDE DEF c, e, w, u, m, l
<1>7. CASE r = "master" /\ l = <<c, e, w, u, m>> /\ GroupEnvMap(s, g, d) # Panic
  <2>1. i \in 1..5 /\ l[1] = c /\ l[2] = e /\ l[3] = w /\ l[4] = u /\ l[5] = m
    BY <1>7 DEF l
  <2>2. i # 3 => l[i].key.kind \in {"ConfigMap", "Service"}
    BY <1>3, <1>4, <1>6, <1>7, <2>1, SMTT(30)
  <2>3. /\ i = 3 => l[1].key = Key("ConfigMap", l[i].key.name) /\ l[2].key = EnvsKey
        /\ i = 3 => 1 \in 1..(i - 1) /\ 2 \in 1..(i - 1)
    BY <1>2, <1>3, <1>4, <1>7, <2>1
  <2>4. i = 3 => l[i] = w
    BY <2>1, Zenon
  <2>5. ASSUME i = 3 PROVE GroupElement(s, r, l, i)
    BY <1>4, <1>5, <2>3, <2>4, <2>5, Zenon DEF GroupElement
  <2>6. ASSUME i # 3 PROVE GroupElement(s, r, l, i)
    BY <2>2, <2>6, Zenon DEF GroupElement, Watched
  <2> QED BY <2>5, <2>6, Zenon DEF l
<1>8. CASE r # "master" /\ l = <<c, w, u, m>>
  <2>1. i \in 1..4 /\ l[1] = c /\ l[2] = w /\ l[3] = u /\ l[4] = m
    BY <1>8, SMTT(30) DEF l
  <2>2. i # 2 => l[i].key.kind \in {"ConfigMap", "Service"}
    BY <1>4, <1>6, <2>1, SMTT(30)
  <2>3. i = 2 => l[1].key = Key("ConfigMap", l[i].key.name) /\ 1 \in 1..(i - 1)
    BY <1>2, <1>4, <2>1
  <2>4. i = 2 => l[i] = w
    BY <2>1, Zenon
  <2>5. ASSUME i = 2 PROVE GroupElement(s, r, l, i)
    BY <1>4, <1>5, <1>8, <2>3, <2>4, <2>5, Zenon DEF GroupElement
  <2>6. ASSUME i # 2 PROVE GroupElement(s, r, l, i)
    BY <2>2, <2>6, Zenon DEF GroupElement, Watched
  <2> QED BY <2>5, <2>6, Zenon DEF l
<1>9. CASE r # "master" /\ l = <<m>>
  <2>1. i = 1 /\ l[1] = m
    BY <1>9 DEF l
  <2> QED BY <2>1, <1>4, <1>9, Zenon DEF GroupElement, Watched, l
<1> QED BY <1>1, <1>7, <1>8, <1>9, Zenon

\* The masters come first.
LEMMA RoleIndices ==
    ASSUME NEW r \in Roles
    PROVE  RoleIndex(r) \in 1..4 /\ (r # "master" => RoleIndex("master") < RoleIndex(r))
<1>1. RoleOrder[1] = "master" /\ RoleOrder[2] = "alert" /\ RoleOrder[3] = "api"
      /\ RoleOrder[4] = "worker"
  BY Zenon DEF RoleOrder
<1>2. \E i \in 1..4 : RoleOrder[i] = r
  BY <1>1 DEF Roles
<1>3. RoleIndex(r) \in 1..4 /\ RoleOrder[RoleIndex(r)] = r
  BY <1>2, Zenon DEF RoleIndex
<1>4. RoleIndex("master") \in 1..4 /\ RoleOrder[RoleIndex("master")] = "master"
  BY <1>1 DEF RoleIndex
<1>5. RoleIndex("master") = 1
  BY <1>1, <1>4
<1> QED BY <1>1, <1>3, <1>5

\* A master group registers the shared config map.
LEMMA MasterEnvs ==
    ASSUME NEW s, NEW g, NEW d, GroupReconcilers(s, "master", g, d) # Panic
    PROVE  \E j \in DOMAIN GroupReconcilers(s, "master", g, d).val :
             GroupReconcilers(s, "master", g, d).val[j].key = EnvsKey
<1> DEFINE c == GroupConfigMap(s, "master", g, d).val
           e == GroupEnvMap(s, g, d).val
           w == GroupWorkload(s, "master", g, d)
           u == GroupService("master", g)
           m == NewRoleGroupMetricsService("master", g)
           l == GroupReconcilers(s, "master", g, d).val
<1>1. l = <<c, e, w, u, m>> /\ GroupEnvMap(s, g, d) # Panic
  BY MasterShape, ZenonT(30)
<1>2. e.key = EnvsKey
  BY <1>1, EnvMapKey, Zenon DEF EnvsKey
<1> HIDE DEF c, e, w, u, m, l
<1>3. 2 \in DOMAIN l /\ l[2] = e
  BY <1>1
<1> QED BY <1>2, <1>3, Zenon DEF l

\* What a spec registers for one of its role groups.
LEMMA GroupTurnsOf ==
    ASSUME NEW s \in Specs, NEW found, AllFound(ClusterTurns[s], found),
           NEW w \in RoleGroups(s), NEW o \in GroupTurns[s][w]
    PROVE  /\ ClusterTurns[s] = ClusterReconcilers(s) /\ ClusterReconcilers(s) # Panic
           /\ w[1] \in Roles
           /\ \E d \in DepStates : o = GroupReconcilers(s, w[1], w[2], d)
<1>1. ClusterTurns[s] = ClusterReconcilers(s) /\ ClusterReconcilers(s) # Panic
  BY Zenon DEF ClusterTurns, AllFound
<1>2. GroupTurns[s][w] = {GroupReconcilers(s, w[1], w[2], d) : d \in DepStates}
  BY <1>1, Zenon DEF GroupTurns
<1>3. w[1] \in Roles
  BY SMTT(30) DEF RoleGroups
<1> QED BY <1>1, <1>2, <1>3, Zenon

\* It is the turn of a workload only when the service account, the job, the
\* config map of its group and, with a master group, the shared one are found.
LEMMA DueWorkload ==
    ASSUME NEW s \in Specs, NEW found, NEW k, NEW obj, Watched(k), obj # Error,
           Due(s, found, k, obj)
    PROVE  /\ AccountKey \in found /\ JobKey \in found
           /\ Key("ConfigMap", k.name) \in found
           /\ GroupsOf(s, "master") # {} => EnvsKey \in found
           /\ obj.containers[1].image = GetImage(s)
<1>1. ~InTurn(ClusterTurns[s], found, k, obj)
  <2> SUFFICES ASSUME InTurn(ClusterTurns[s], found, k, obj) PROVE FALSE
    BY Zenon
  <2>1. ClusterTurns[s] = ClusterReconcilers(s) /\ ClusterReconcilers(s) # Panic
    BY Zenon DEF ClusterTurns, InTurn
  <2>2. PICK i \in DOMAIN ClusterReconcilers(s).val : ClusterReconcilers(s).val[i].key = k
    BY <2>1, Zenon DEF InTurn
  <2>3. k.kind \in {"ServiceAccount", "Role", "RoleBinding", "Job"}
    BY <2>1, <2>2, ClusterElements, KeyFields, SMTT(30) DEF AccountKey, JobKey
  <2> QED BY <2>3, Zenon DEF Watched
<1>2. PICK w \in RoleGroups(s) :
        /\ \E o \in GroupTurns[s][w] : InTurn(o, found, k, obj)
        /\ \A v \in RoleGroups(s) : RoleIndex(v[1]) < RoleIndex(w[1]) =>
             \E o \in GroupTurns[s][v] : AllFound(o, found)
  BY <1>1, Zenon DEF Due
<1>3. AllFound(ClusterTurns[s], found)
  BY <1>1, Zenon DEF Due
<1>4. PICK d \in DepStates : InTurn(GroupReconcilers(s, w[1], w[2], d), found, k, obj)
  BY <1>2, <1>3, GroupTurnsOf, ZenonT(30)
<1>5. ClusterTurns[s] = ClusterReconcilers(s) /\ ClusterReconcilers(s) # Panic /\ w[1] \in Roles
  BY <1>2, <1>3, GroupTurnsOf, ZenonT(30)
<1> DEFINE l == GroupReconcilers(s, w[1], w[2], d).val
<1>6. GroupReconcilers(s, w[1], w[2], d) # Panic
  BY <1>4, Zenon DEF InTurn
<1>7. PICK i \in DOMAIN l : /\ l[i].key = k /\ l[i].obj = obj
                            /\ \A j \in 1..(i - 1) : l[j].key \in found
  BY <1>4, ZenonT(30) DEF InTurn
<1>8. AccountKey \in found /\ JobKey \in found
  <2>1. 1 \in 1..4 /\ 4 \in 1..4
    BY SMTT(30)
  <2> QED BY <2>1, <1>3, <1>5, ClusterElements, Zenon DEF AllFound
<1>9. /\ obj.containers[1].image = GetImage(s)
      /\ \E j \in 1..(i - 1) : l[j].key = Key("ConfigMap", k.name)
      /\ w[1] = "master" => \E j \in 1..(i - 1) : l[j].key = EnvsKey
  <2>1. i \in DOMAIN l /\ Watched(l[i].key) /\ l[i].obj # Error
    BY <1>7, Zenon
  <2>2. GroupElement(s, w[1], l, i)
    BY <1>5, <1>6, <2>1, GroupElements, Zenon
  <2> HIDE DEF l
  <2> QED BY <1>7, <2>1, <2>2, Zenon DEF GroupElement
<1>10. ASSUME GroupsOf(s, "master") # {}
       PROVE  EnvsKey \in found
  <2>1. CASE w[1] = "master"
    <3>1. PICK j \in 1..(i - 1) : l[j].key = EnvsKey
      BY <1>9, <2>1, Zenon
    <3> QED BY <1>7, <3>1, Zenon
  <2>2. CASE w[1] # "master"
    <3>1. PICK g : g \in GroupsOf(s, "master")
      BY <1>10, Zenon
    <3> DEFINE v == <<"master", g>>
    <3>2. v \in RoleGroups(s) /\ v[1] = "master" /\ v[2] = g
      BY <3>1 DEF RoleGroups, Roles
    <3>3. RoleIndex(v[1]) < RoleIndex(w[1])
      BY <1>5, <2>2, <3>2, RoleIndices, Zenon
    <3>4. PICK o \in GroupTurns[s][v] : AllFound(o, found)
      BY <1>2, <3>2, <3>3, Zenon
    <3>5. PICK x \in DepStates : o = GroupReconcilers(s, v[1], v[2], x)
      BY <1>3, <3>2, GroupTurnsOf, Zenon
    <3>6. AllFound(GroupReconcilers(s, "master", g, x), found)
      BY <3>2, <3>4, <3>5, Zenon
    <3>7. \E j \in DOMAIN GroupReconcilers(s, "master", g, x).val :
            GroupReconcilers(s, "master", g, x).val[j].key = EnvsKey
      BY <3>6, MasterEnvs, Zenon DEF AllFound
    <3> QED BY <3>6, <3>7, Zenon DEF AllFound
  <2> QED BY <2>1, <2>2, Zenon
<1> QED BY <1>7, <1>8, <1>9, <1>10, Zenon

\* The only job is that of the CR.
LEMMA DueJob ==
    ASSUME NEW s \in Specs, NEW found, NEW k, NEW obj, k.kind = "Job", Due(s, found, k, obj)
    PROVE  k = JobKey /\ obj.image = GetImage(s)
<1>1. CASE InTurn(ClusterTurns[s], found, k, obj)
  <2>1. ClusterTurns[s] = ClusterReconcilers(s) /\ ClusterReconcilers(s) # Panic
    BY <1>1, Zenon DEF ClusterTurns, InTurn
  <2>2. PICK i \in DOMAIN ClusterReconcilers(s).val :
          ClusterReconcilers(s).val[i].key = k /\ ClusterReconcilers(s).val[i].obj = obj
    BY <1>1, <2>1, Zenon DEF InTurn
  <2> QED BY <2>1, <2>2, ClusterElements, KeyFields, SMTT(30) DEF AccountKey, JobKey
<1>2. CASE ~InTurn(ClusterTurns[s], found, k, obj)
  <2>1. AllFound(ClusterTurns[s], found)
        /\ \E w \in RoleGroups(s) : \E o \in GroupTurns[s][w] : InTurn(o, found, k, obj)
    BY <1>2, Zenon DEF Due
  <2>2. PICK w \in RoleGroups(s), d \in DepStates :
          w[1] \in Roles /\ InTurn(GroupReconcilers(s, w[1], w[2], d), found, k, obj)
    BY <2>1, GroupTurnsOf, SMTT(30)
  <2> DEFINE l == GroupReconcilers(s, w[1], w[2], d)
  <2>3. l # Panic /\ \E i \in DOMAIN l.val : l.val[i].key = k
    BY <2>2, Zenon DEF InTurn
  <2>4. PICK i \in DOMAIN l.val : l.val[i].key = k
    BY <2>3, Zenon
  <2>5. GroupElement(s, w[1], l.val, i)
    BY <2>2, <2>3, <2>4, GroupElements, Zenon
  <2> QED BY <2>4, <2>5, ZenonT(30) DEF GroupElement
<1> QED BY <1>1, <1>2, Zenon

-----------------------------------------------------------------------------
(* While nobody deletes anything *)

\* The steps that leave the CR and the count of faults as they are.
LEMMA PeacefulSteps ==
    ASSUME TypeOK, [Next]_vars, faults' = 0, cr' # Nil
    PROVE  /\ faults = 0 /\ cr # Nil
           /\ \/ UNCHANGED <<objVars, passVars>>
              \/ \E k \in Keys : ChangeStatus(k) \/ SyncObject(k)
              \/ BeginPass \/ RegisterGroup \/ ApplyUnchanged \/ ApplyWrite
              \/ UNCHANGED objVars /\ phase' = "idle"
<1> USE DEF crVars, objVars, depVars, qVars, passVars
<1>1. faults \in Nat
  BY BoundsAreNat, SMTT(30) DEF TypeOK
<1>2. CASE EditCR \/ DeleteCR \/ EditDeps \/ SyncCR \/ Fire \/ Coalesce \/ UNCHANGED vars
  BY <1>2, Zenon DEF EditCR, DeleteCR, EditDeps, SyncCR, Fire, Coalesce, vars
<1>3. ASSUME NEW k \in Keys, ChangeStatus(k) \/ SyncObject(k)
      PROVE  faults = 0 /\ cr # Nil
  BY <1>1, <1>3 DEF ChangeStatus, SyncObject
<1>4. ASSUME NEW k \in Keys, DeleteObject(k) \/ CollectGarbage(k)
      PROVE  FALSE
  BY <1>1, <1>4, SMTT(30) DEF DeleteObject, CollectGarbage, Remove
<1>5. CASE BeginPass \/ RegisterGroup \/ ApplyUnchanged \/ ApplyWrite
  BY <1>5, ZenonT(30) DEF BeginPass, RegisterGroup, ApplyUnchanged, ApplyWrite
<1>6. CASE ApplyRefused \/ Ready
  BY <1>6, ZenonT(30) DEF ApplyRefused, Ready, EndPass
<1>7. CASE ApplyFailed \/ Crash
  <2>1. faults' = faults + 1
    BY <1>7, Zenon DEF ApplyFailed, Crash
  <2> QED BY <1>1, <2>1
<1>8. CASE \E k \in Keys : \/ ChangeStatus(k) \/ DeleteObject(k) \/ CollectGarbage(k)
                          \/ SyncObject(k)
  <2>1. PICK k \in Keys : ChangeStatus(k) \/ SyncObject(k)
    BY <1>4, <1>8, Zenon
  <2> QED BY <1>3, <2>1, Zenon
<1>9. CASE Pass
  BY <1>5, <1>6, <1>9, Zenon DEF Pass
<1> QED BY <1>2, <1>7, <1>8, <1>9, Zenon DEF Next

\* A change of status creates nothing, deletes nothing and keeps the contents.
LEMMA StatusOnly ==
    ASSUME TypeOK, NEW k \in Keys, ChangeStatus(k), NEW x \in Keys
    PROVE  /\ store'[x] = Nil <=> store[x] = Nil
           /\ store[x] # Nil => store'[x].spec = store[x].spec
<1>1. CASE x # k
  BY <1>1, Zenon DEF ChangeStatus, TypeOK
<1>2. CASE x = k
  <2>1. store[k] \in Objects /\ store'[k] = [store[k] EXCEPT !.ready = ~@]
    BY Zenon DEF ChangeStatus, TypeOK
  <2>2. store'[k] \in Objects /\ store'[k].spec = store[k].spec
    BY <2>1, Zenon DEF Objects
  <2> QED BY <1>2, <2>1, <2>2, NilIsNoObject, Zenon
<1> QED BY <1>1, <1>2, Zenon

\* A write changes one object to what the pass has built, when it is its turn,
\* and a job only by creating it.
LEMMA WriteOne ==
    ASSUME TypeOK, Progress, Ordered, ApplyWrite
    PROVE  LET k == list[at].key
           IN  /\ k \in Keys /\ seen \in Specs /\ phase = "apply"
               /\ list[at].obj # Error /\ Due(seen, Compared, k, list[at].obj)
               /\ store'[k] # Nil /\ store'[k].spec = list[at].obj
               /\ \A x \in Keys \ {k} : store'[x] = store[x]
               /\ k.kind = "Job" => store[k] = Nil /\ view[k] = Nil
               /\ view' = view /\ phase' = "idle"
<1> DEFINE k == list[at].key
           o == list[at].obj
<1>1. seen \in Specs /\ Due(seen, Compared, k, o) /\ k \in Keys
  BY NextIsDue, Zenon DEF ApplyWrite
<1>2. list[at] \in Resources
  <2>1. list \in Seq(Resources) /\ at \in 1..(Len(list) + 1)
    BY Zenon DEF TypeOK
  <2>2. at <= Len(list)
    BY Zenon DEF ApplyWrite
  <2> QED BY <2>1, <2>2
<1>3. PICK b \in BOOLEAN : store' = [store EXCEPT ![k] = [spec |-> o, ready |-> b]]
  <2>1. store[k] # Nil => store[k].ready \in BOOLEAN
    BY <1>1, Zenon DEF TypeOK, Objects
  <2> QED BY <2>1, Zenon DEF ApplyWrite
<1>4. [spec |-> o, ready |-> b] # Nil
  BY <1>2, ResourceTyped, NilIsNoObject, Zenon
<1>5. k.kind = "Job" => store[k] = Nil /\ view[k] = Nil
  BY Zenon DEF ApplyWrite, Immutable
<1>6. phase = "apply" /\ o # Error /\ view' = view /\ phase' = "idle"
  BY Zenon DEF ApplyWrite, EndPass
<1> HIDE DEF k, o
<1>7. store'[k] = [spec |-> o, ready |-> b]
  BY <1>1, <1>3, ZenonT(30) DEF TypeOK
<1>8. \A x \in Keys \ {k} : store'[x] = store[x]
  BY <1>1, <1>3, Zenon DEF TypeOK
<1>9. store'[k] # Nil /\ store'[k].spec = o
  BY <1>4, <1>7, SMTT(30)
<1> QED BY <1>1, <1>5, <1>6, <1>8, <1>9, ZenonT(30) DEF k, o

\* While nobody deletes anything, what the cache shows and what the pass has
\* found stays: only a job is looked at again, and a job does not change.
LEMMA FoundStep == Inv /\ Ordered /\ FoundExists /\ [Next]_vars => FoundExists'
<1> SUFFICES ASSUME TypeOK, Progress, Ordered, FoundExists, [Next]_vars,
                    faults' = 0, cr' # Nil
             PROVE  FoundExists'
  BY ZenonT(30) DEF Inv, FoundExists
<1> USE DEF objVars, passVars
<1> DEFINE Shown(x) == view[x] # Nil =>
             store[x] # Nil /\ (x.kind = "Job" => store[x].spec = view[x].spec)
           Found(i) == LET k == list[i].key
                       IN  store[k] # Nil /\ (k.kind = "Job" => store[k].spec = list[i].obj)
<1>1. /\ \A x \in Keys : Shown(x)
      /\ phase = "apply" => \A i \in 1..(at - 1) : Found(i)
  BY PeacefulSteps, Zenon DEF FoundExists
<1>2. \A i \in 1..(at - 1) : list[i].key \in Keys
  BY SMTT(30) DEF TypeOK, Keys
<1> SUFFICES /\ \A x \in Keys : Shown(x)'
             /\ phase' = "apply" => \A i \in 1..(at' - 1) : Found(i)'
  BY Zenon DEF FoundExists
<1>3. CASE UNCHANGED <<objVars, passVars>>
  BY <1>1, <1>3, ZenonT(30)
<1>4. ASSUME NEW k \in Keys, ChangeStatus(k)
      PROVE  /\ \A x \in Keys : Shown(x)'
             /\ phase' = "apply" => \A i \in 1..(at' - 1) : Found(i)'
  <2>1. UNCHANGED <<view, passVars>>
    BY <1>4, Zenon DEF ChangeStatus
  <2>2. \A x \in Keys : store[x] # Nil => store'[x] # Nil /\ store'[x].spec = store[x].spec
    BY <1>4, StatusOnly, Zenon
  <2> QED BY <1>1, <1>2, <2>1, <2>2, Zenon
<1>5. ASSUME NEW k \in Keys, SyncObject(k)
      PROVE  /\ \A x \in Keys : Shown(x)'
             /\ phase' = "apply" => \A i \in 1..(at' - 1) : Found(i)'
  <2>1. UNCHANGED <<store, passVars>> /\ \A x \in Keys : view'[x] \in {view[x], store[x]}
    BY <1>5, Zenon DEF SyncObject, TypeOK
  <2>2. \A x \in Keys : Shown(x)'
    BY <1>1, <2>1, ZenonT(30)
  <2>3. phase' = "apply" => \A i \in 1..(at' - 1) : Found(i)'
    BY <1>1, <2>1, Zenon
  <2> QED BY <2>2, <2>3, Zenon
<1>6. CASE BeginPass \/ RegisterGroup
  <2>1. UNCHANGED objVars /\ (phase' = "apply" => at' = 1)
    BY <1>6, Zenon DEF BeginPass, NewClusterReconciler, RegisterGroup, Progress
  <2> QED BY <1>1, <2>1
<1>7. CASE ApplyUnchanged
  <2>1. /\ UNCHANGED objVars /\ list' = list /\ phase = "apply" /\ at' = at + 1
        /\ at \in 1..Len(list) /\ Matches(view[list[at].key], list[at])
    BY <1>7, SMTT(30) DEF ApplyUnchanged, TypeOK
  <2>2. list[at].key \in Keys
    BY <2>1, SMTT(30) DEF TypeOK, Keys
  <2>3. Found(at)
    BY <1>1, <2>1, <2>2, Zenon DEF Matches
  <2>4. \A i \in 1..(at' - 1) : i \in 1..(at - 1) \/ i = at
    BY <2>1
  <2> QED BY <1>1, <2>1, <2>3, <2>4, Zenon
<1>8. CASE ApplyWrite
  <2> DEFINE k == list[at].key
  <2>1. /\ k \in Keys /\ store'[k] # Nil /\ (k.kind = "Job" => view[k] = Nil)
        /\ \A x \in Keys \ {k} : store'[x] = store[x]
        /\ view' = view /\ phase' = "idle"
    BY <1>8, WriteOne, Zenon
  <2> HIDE DEF k
  <2> QED BY <1>1, <2>1, Zenon
<1>9. CASE UNCHANGED objVars /\ phase' = "idle"
  BY <1>1, <1>9, Zenon
<1> QED BY <1>3, <1>4, <1>5, <1>6, <1>7, <1>8, <1>9, PeacefulSteps, ZenonT(30)

\* While nobody deletes anything, only a write of the pass creates an object or
\* changes its content.
LEMMA PeacefulStore ==
    ASSUME TypeOK, [Next]_vars, faults' = 0, cr' # Nil, ~ApplyWrite, NEW x \in Keys
    PROVE  /\ store'[x] = Nil <=> store[x] = Nil
           /\ store[x] # Nil => store'[x].spec = store[x].spec
<1>1. ASSUME NEW k \in Keys, SyncObject(k)
      PROVE  UNCHANGED store
  BY <1>1, Zenon DEF SyncObject
<1>2. CASE BeginPass \/ RegisterGroup \/ ApplyUnchanged
  BY <1>2, ZenonT(30) DEF BeginPass, RegisterGroup, ApplyUnchanged, objVars
<1> QED BY <1>1, <1>2, PeacefulSteps, StatusOnly, Zenon DEF objVars

\* The keys of what a pass has found.
LEMMA ComparedKeys ==
    ASSUME TypeOK, FoundExists, faults = 0, cr # Nil, phase = "apply", NEW k \in Compared
    PROVE  k \in Keys /\ store[k] # Nil
<1>1. PICK i \in 1..(at - 1) : list[i].key = k
  BY Zenon DEF Compared
<1>2. i \in 1..Len(list) /\ list[i] \in Resources
  BY DEF TypeOK
<1> QED BY <1>1, <1>2, Zenon DEF Keys, FoundExists

\* The pods of a workload find the objects they refer to in every reachable
\* state: a step that writes a workload has found them, no other step creates
\* one, and none of the objects goes away.
LEMMA ReferencesStep ==
    Inv /\ Ordered /\ FoundExists /\ ReferencesExist /\ [Next]_vars => ReferencesExist'
<1> DEFINE Refs(k) == {AccountKey, Key("ConfigMap", k.name), EnvsKey}
<1> SUFFICES ASSUME TypeOK, Progress, Ordered, FoundExists, ReferencesExist, [Next]_vars,
                    faults' = 0, cr' # Nil, \A s \in Specs : GroupsOf(s, "master") # {},
                    NEW k \in Keys, Watched(k), store'[k] # Nil,
                    NEW ref \in Refs(k)
             PROVE  ref \in Keys /\ store'[ref] # Nil
  BY Zenon DEF Inv, ReferencesExist, AccountKey, EnvsKey, Key
<1>1. faults = 0 /\ cr # Nil
  BY PeacefulSteps, Zenon
<1>2. store[k] # Nil => ref \in Keys /\ store[ref] # Nil
  BY <1>1, Zenon DEF ReferencesExist, AccountKey, EnvsKey, Key
<1>3. CASE ~ApplyWrite
  BY <1>2, <1>3, PeacefulStore, Zenon
<1>4. CASE ApplyWrite
  <2> DEFINE x == list[at].key
  <2>1. /\ x \in Keys /\ seen \in Specs /\ phase = "apply" /\ list[at].obj # Error
        /\ Due(seen, Compared, x, list[at].obj)
        /\ store'[x] # Nil /\ \A y \in Keys \ {x} : store'[y] = store[y]
    BY <1>4, WriteOne, Zenon
  <2>2. ASSUME k = x
        PROVE  ref \in Compared
    <3>1. /\ AccountKey \in Compared /\ JobKey \in Compared
          /\ Key("ConfigMap", x.name) \in Compared
          /\ GroupsOf(seen, "master") # {} => EnvsKey \in Compared
      BY <2>1, <2>2, DueWorkload, Zenon
    <3>2. EnvsKey \in Compared
      BY <2>1, <3>1, Zenon
    <3>3. ref = AccountKey \/ ref = Key("ConfigMap", x.name) \/ ref = EnvsKey
      BY <2>2, Zenon
    <3> QED BY <3>1, <3>2, <3>3, Zenon
  <2>3. ref \in Keys /\ store[ref] # Nil
    BY <1>1, <1>2, <2>1, <2>2, ComparedKeys, ZenonT(30)
  <2> QED BY <2>1, <2>3, Zenon
<1> QED BY <1>3, <1>4, Zenon

\* Where there is anything to register there is a job.
LEMMA JobHasKey ==
    ASSUME NEW k \in Keys
    PROVE  JobKey \in Keys
<1>1. PICK o \in Registrations : o.out = "ok"
  BY Zenon DEF Keys, Resources
<1>2. o # Panic
  BY <1>1 DEF Panic
<1>3. PICK s \in Specs : ClusterReconcilers(s) # Panic
  BY <1>2 DEF Registrations
<1>4. 4 \in DOMAIN ClusterReconcilers(s).val /\ ClusterReconcilers(s).val[4].key = JobKey
  BY <1>3, ClusterElements
<1>5. ClusterReconcilers(s).val[4] \in Resources
  BY <1>3, <1>4, ClusterTyped, Zenon DEF Range
<1> QED BY <1>4, <1>5, Zenon DEF Keys

\* Workloads and job have the same image in every reachable state: a step that
\* writes a workload has found the job of the same CR, and one that creates the
\* job finds no workload.
LEMMA SchemaStep ==
    Inv /\ Ordered /\ FoundExists /\ SchemaFirst /\ [Next]_vars => SchemaFirst'
<1> SUFFICES ASSUME TypeOK, Progress, Ordered, FoundExists, SchemaFirst, [Next]_vars,
                    faults' = 0, cr' # Nil,
                    NEW k \in Keys, Watched(k), store'[k] # Nil
             PROVE  /\ store'[JobKey] # Nil
                    /\ store'[JobKey].spec.image = store'[k].spec.containers[1].image
  BY Zenon DEF Inv, SchemaFirst, JobKey, Key
<1>1. faults = 0 /\ cr # Nil
  BY PeacefulSteps, Zenon
<1>2. store[k] # Nil => /\ store[JobKey] # Nil
                        /\ store[JobKey].spec.image = store[k].spec.containers[1].image
  BY <1>1, Zenon DEF SchemaFirst, JobKey, Key
<1>3. JobKey \in Keys
  BY JobHasKey, Zenon
<1>4. CASE ~ApplyWrite
  <2>1. store[k] # Nil /\ store'[k].spec = store[k].spec
    BY <1>4, PeacefulStore, Zenon
  <2>2. store'[JobKey] # Nil /\ store'[JobKey].spec = store[JobKey].spec
    BY <1>2, <1>3, <1>4, <2>1, PeacefulStore, Zenon
  <2> QED BY <1>2, <2>1, <2>2, Zenon
<1>5. CASE ApplyWrite
  <2> DEFINE x == list[at].key
  <2>1. /\ x \in Keys /\ seen \in Specs /\ phase = "apply" /\ list[at].obj # Error
        /\ Due(seen, Compared, x, list[at].obj)
        /\ store'[x] # Nil /\ store'[x].spec = list[at].obj
        /\ \A y \in Keys \ {x} : store'[y] = store[y]
        /\ x.kind = "Job" => store[x] = Nil
    BY <1>5, WriteOne, Zenon
  <2>2. JobKey.kind = "Job" /\ k.kind # "Job"
    BY KeyFields, Zenon DEF Watched, JobKey
  <2>3. CASE k = x
    <3>1. JobKey \in Compared /\ list[at].obj.containers[1].image = GetImage(seen)
      BY <2>1, <2>3, DueWorkload, ZenonT(30)
    <3>2. PICK i \in 1..(at - 1) : list[i].key = JobKey
      BY <3>1, Zenon DEF Compared
    <3>3. i \in 1..Len(list)
      BY DEF TypeOK
    <3>4. list[i].obj.image = GetImage(seen)
      <4>1. Due(seen, FirstKeys(list, i - 1), JobKey, list[i].obj)
        BY <2>1, <3>2, <3>3, Zenon DEF Ordered
      <4> QED BY <2>1, <2>2, <4>1, DueJob, ZenonT(30)
    <3>5. store[JobKey] # Nil /\ store[JobKey].spec = list[i].obj
      BY <1>1, <2>1, <2>2, <3>2, ZenonT(30) DEF FoundExists
    <3>6. store'[JobKey] = store[JobKey]
      <4>1. JobKey # x
        BY <2>2, <2>3, Zenon
      <4> QED BY <1>3, <2>1, <4>1, Zenon
    <3> QED BY <2>1, <2>3, <3>1, <3>4, <3>5, <3>6, ZenonT(30)
  <2>4. CASE k # x
    <3>1. store'[k] = store[k]
      BY <2>1, <2>4, ZenonT(30)
    <3>2. x # JobKey
      BY <1>2, <2>1, <2>2, <3>1, Zenon
    <3> QED BY <1>2, <1>3, <2>1, <3>1, <3>2, ZenonT(30)
  <2> QED BY <2>3, <2>4, Zenon
<1> QED BY <1>4, <1>5, Zenon

\* Before the first pass nothing exists.
LEMMA InitPeaceful == Init => Ordered /\ FoundExists /\ ReferencesExist /\ SchemaFirst
<1> SUFFICES ASSUME Init PROVE Ordered /\ FoundExists /\ ReferencesExist /\ SchemaFirst
  OBVIOUS
<1>1. \A k \in Keys : store[k] = Nil /\ view[k] = Nil
  BY Zenon DEF Init
<1> QED BY <1>1, InitAbstract, Zenon DEF Init, FoundExists, ReferencesExist, SchemaFirst

\* While nobody deletes anything, what the cache shows and what the pass has
\* compared (CreateOrUpdate) exists, however old the cache is, and a job is still
\* the one that was compared.
THEOREM FoundIsThere == Spec => []FoundExists
  BY Invariance, OrderedStep, FoundStep, InitPeaceful, PTL DEF Spec

\* While nobody deletes anything, no workload exists before the service account,
\* the config map of its role group and the shared environment that its pods
\* refer to, whatever is edited at whatever moment and whatever the caches miss.
THEOREM PodsFindReferences == Spec => []ReferencesExist
  BY Invariance, OrderedStep, FoundStep, ReferencesStep, InitPeaceful, PTL DEF Spec

\* While nobody deletes anything, no server runs another version than the one
\* the schema was created for, also when productVersion is edited.
THEOREM SchemaBeforeServers == Spec => []SchemaFirst
  BY Invariance, OrderedStep, FoundStep, SchemaStep, InitPeaceful, PTL DEF Spec
=============================================================================
