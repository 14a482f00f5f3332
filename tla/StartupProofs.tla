--------------------------- MODULE StartupProofs ----------------------------
(***************************************************************************)
(* Proofs about Startup, for every set of CR specs with a well-formed      *)
(* connection string, everything the operator reads and every bound.       *)
(***************************************************************************)
EXTENDS Startup, ManifestsProofs, DatabaseProofs

\* The init job waits for the host that the servers are given, and to make the
\* job does not panic: GetDatabaseHost and parseConnectionString find the same.
LEMMA SameAddress ==
    ASSUME NEW s \in Inputs
    PROVE  /\ ClusterReconcilers(s) # Panic
           /\ NewJobInitScriptReconciler(s).val.obj.waitFor =
                parseConnectionString(s.clusterConfig.database).val.host
<1>1. PICK cs : cs = s.clusterConfig.database
  BY Zenon
<1>2. /\ s.clusterConfig # Nil /\ WellFormed(cs)
      /\ GetDatabaseDriver(<<cs[3]>>) # Error
  BY <1>1, DatabaseAssumption, Zenon
<1>3. cs \in Seq(TokensOf(cs))
  BY <1>2, Zenon DEF WellFormed
<1>4. GetDatabaseHost(cs) = Ok(<<cs[7]>>)
  BY <1>2, <1>3, HostWellFormed, Zenon
<1>5. parseConnectionString(cs).val.host = <<cs[7]>>
  <2>1. parseConnectionString(cs) =
          Ok([type |-> <<cs[3]>>, driver |-> GetDatabaseDriver(<<cs[3]>>).val,
              host |-> <<cs[7]>>, port |-> <<cs[9]>>, name |-> <<cs[11]>>])
    BY <1>2, <1>3, ParseWellFormed, Zenon
  <2> QED BY <2>1 DEF Ok
<1>6. NewJobInitScriptReconciler(s) =
        Ok(Resource("Job", <<>>, [image |-> GetImage(s), waitFor |-> <<cs[7]>>,
                                  envFrom |-> RoleGroupEnvsConfigMapName]))
  BY <1>1, <1>2, <1>4 DEF NewJobInitScriptReconciler, UnlessPanic, Ok, Panic
<1>7. ClusterReconcilers(s) # Panic
  BY <1>6 DEF ClusterReconcilers, UnlessPanic, Ok, Panic
<1> QED BY <1>1, <1>5, <1>6, <1>7 DEF Ok, Resource

\* At port 5432 the init container reaches the database when it is there.
LEMMA InReach ==
    ASSUME input \in Inputs, up \in BOOLEAN, Address.port = <<"5432">>, ~Reaches(JobSpec)
    PROVE  ~up
<1>1. JobSpec.waitFor = Address.host
  BY SameAddress DEF JobSpec, Jobs, Address, Addresses
<1> QED BY <1>1, Zenon DEF Reaches

\* A sequence is one over its own elements.
LEMMA OverItsRange ==
    ASSUME NEW S, NEW s \in Seq(S)
    PROVE  s \in Seq(Range(s))
  BY DEF Range

\* Initially the four resources of the cluster are registered.
LEMMA TypeInit == Init => TypeOK
<1> SUFFICES ASSUME Init PROVE TypeOK
  OBVIOUS
<1>1. list \in Seq(Range(list))
  BY SameAddress, ClusterSeq, OverItsRange DEF Init
<1>2. applied \in 0..Len(list)
  BY <1>1 DEF Init
<1>3. /\ outages \in 0..MaxOutages /\ tries \in 0..(Tries - 1)
      /\ failures \in 0..(IF job = "failed" THEN Backoff + 1 ELSE Backoff)
  BY BoundsAssumption DEF Init
<1>4. excused \in [pods : 0..failures, now : BOOLEAN]
  BY DEF Init
<1> QED BY <1>1, <1>2, <1>3, <1>4, Zenon DEF Init, TypeOK

\* A turn of the loop over the role groups appends a sequence.
LEMMA TurnTyped ==
    ASSUME TypeOK, NEW w \in todo, Registered[<<input, w>>] # Panic
    PROVE  LET l == list \o Registered[<<input, w>>].val
           IN  l \in Seq(Range(l)) /\ Len(list) <= Len(l)
<1>1. w \in RoleGroups(input) /\ input \in Inputs
  BY DEF TypeOK
<1>2. PICK r \in Roles : \E g \in GroupsOf(input, r) : w = <<r, g>>
  BY <1>1 DEF RoleGroups
<1>3. PICK g \in GroupsOf(input, r) : w = <<r, g>>
  BY <1>2, Zenon
<1>4. PICK rs : rs = GroupReconcilers(input, r, g, World)
  BY Zenon
<1>5. Registered[<<input, w>>] = rs
  BY <1>1, <1>3, <1>4 DEF Registered
<1>6. PICK S : rs.val \in Seq(S)
  BY <1>4, <1>5, GroupSeq, Zenon
<1>7. PICK T : T = S \cup Range(list)
  BY Zenon
<1>8. rs.val \in Seq(T) /\ list \in Seq(T)
  BY <1>6, <1>7 DEF TypeOK
<1>9. list \o rs.val \in Seq(T) /\ Len(list) <= Len(list \o rs.val)
  BY <1>8, Concatenation
<1> QED BY <1>5, <1>9, OverItsRange, Zenon

\* What TypeOK says of the job and its pods.
JobTyped ==
    /\ job \in {"wait", "init", "done", "failed"} /\ tries \in 0..(Tries - 1)
    /\ failures \in 0..(IF job = "failed" THEN Backoff + 1 ELSE Backoff)
    /\ excused \in [pods : 0..failures, now : BOOLEAN]

\* A pod that fails is counted, and the last one ends the job.
LEMMA PodFailsTyped ==
    ASSUME JobTyped, job # "failed", PodFails, up \in BOOLEAN
    PROVE  /\ JobTyped' /\ failures' = failures + 1
           /\ ~up => excused'.pods = excused.pods + 1
<1>1. /\ failures \in 0..Backoff /\ Backoff \in Nat /\ Tries \in Nat \ {0}
      /\ excused.pods \in 0..failures /\ excused.now \in BOOLEAN
  BY BoundsAssumption DEF JobTyped
<1>2. PICK p : p = excused.pods + (IF excused.now \/ ~up THEN 1 ELSE 0)
  BY Zenon
<1>3. p \in 0..(failures + 1) /\ (~up => p = excused.pods + 1)
  <2>1. p = excused.pods + 1 \/ (p = excused.pods + 0 /\ up)
    BY <1>2, Zenon
  <2> QED BY <1>1, <2>1
<1>4. excused' = [pods |-> p, now |-> FALSE] /\ failures' = failures + 1
  BY <1>2, Zenon DEF PodFails
<1>5. excused' \in [pods : 0..failures', now : BOOLEAN] /\ excused'.pods = p
  BY <1>3, <1>4
<1>6. /\ tries' \in 0..(Tries - 1) /\ job' \in {"wait", "failed"}
      /\ failures' \in 0..(IF job' = "failed" THEN Backoff + 1 ELSE Backoff)
  BY <1>1 DEF PodFails
<1> QED BY <1>3, <1>4, <1>5, <1>6 DEF JobTyped

\* A try of the init container, or a run of the other one.
LEMMA JobStep ==
    ASSUME TypeOK, GivesUpForAReason, waitForDatabase \/ initDatabase
    PROVE  JobTyped' /\ (Address.port = <<"5432">> => failures' <= excused'.pods)
<1>1. JobTyped /\ up \in BOOLEAN /\ input \in Inputs
  BY Zenon DEF TypeOK, JobTyped
<1>2. failures \in Nat /\ excused.pods \in Nat /\ excused.now \in BOOLEAN
  BY <1>1, BoundsAssumption DEF JobTyped
<1>3. CASE job' \in {"init", "done"} /\ job # "failed" /\ UNCHANGED <<tries, failures, excused>>
  BY <1>1, <1>2, <1>3 DEF JobTyped, GivesUpForAReason
<1>4. CASE /\ ~LastTry /\ tries' = tries + 1 /\ UNCHANGED <<job, failures>>
           /\ excused' = [excused EXCEPT !.now = @ \/ ~up]
  <2>1. excused' \in [pods : 0..failures, now : BOOLEAN] /\ excused'.pods = excused.pods
    BY <1>1, <1>4 DEF JobTyped
  <2>2. tries' \in 0..(Tries - 1)
    BY <1>1, <1>4, BoundsAssumption DEF JobTyped, LastTry
  <2> QED BY <1>1, <1>4, <2>1, <2>2 DEF JobTyped, GivesUpForAReason
<1>5. CASE PodFails /\ job # "failed" /\ (Address.port = <<"5432">> => ~up)
  <2>1. /\ JobTyped' /\ failures' = failures + 1
        /\ ~up => excused'.pods = excused.pods + 1
    BY <1>1, <1>5, PodFailsTyped, Zenon
  <2> QED BY <1>2, <1>5, <2>1 DEF GivesUpForAReason
<1>6. CASE waitForDatabase
  BY <1>1, <1>3, <1>4, <1>5, <1>6, InReach, Zenon DEF waitForDatabase
<1>7. CASE initDatabase
  BY <1>3, <1>5, <1>7, Zenon DEF initDatabase
<1> QED BY <1>6, <1>7

-----------------------------------------------------------------------------
(* The theorems *)

\* TypeOK and GivesUpForAReason are inductive together.
LEMMA StartupStep ==
    TypeOK /\ GivesUpForAReason /\ [Next]_vars => TypeOK' /\ GivesUpForAReason'
<1> SUFFICES ASSUME TypeOK, GivesUpForAReason, [Next]_vars
             PROVE  TypeOK' /\ GivesUpForAReason'
  OBVIOUS
<1> USE DEF operator, pods
<1>1. applied \in 0..Len(list) /\ Len(list) \in Nat
  BY DEF TypeOK
<1>2. ASSUME UNCHANGED <<input, pods>> PROVE GivesUpForAReason'
  BY <1>2, Zenon DEF GivesUpForAReason, Address
<1>3. CASE RegisterGroup
  <2>1. PICK w \in todo : /\ Registered[<<input, w>>] # Panic
                          /\ list' = list \o Registered[<<input, w>>].val
                          /\ todo' = todo \ {w}
    BY <1>3, Zenon DEF RegisterGroup, FirstGroups
  <2>2. list' \in Seq(Range(list')) /\ Len(list) <= Len(list')
    BY <2>1, TurnTyped, Zenon
  <2>3. applied' \in 0..Len(list')
    BY <1>1, <1>3, <2>2 DEF RegisterGroup
  <2>4. todo' \subseteq RoleGroups(input')
    BY <1>3, <2>1, Zenon DEF TypeOK, RegisterGroup
  <2> QED BY <1>2, <1>3, <2>2, <2>3, <2>4, Zenon DEF TypeOK, RegisterGroup
<1>4. CASE Apply
  <2>1. applied' \in 0..Len(list')
    BY <1>1, <1>4 DEF Apply
  <2> QED BY <1>2, <1>4, <2>1, Zenon DEF TypeOK, Apply
<1>5. CASE waitForDatabase \/ initDatabase
  <2>1. UNCHANGED <<input, operator, up, outages, running>> /\ schema' \in BOOLEAN
    BY <1>5, Zenon DEF TypeOK, waitForDatabase, initDatabase
  <2>2. JobTyped' /\ (Address.port = <<"5432">> => failures' <= excused'.pods)
    BY <1>5, JobStep, Zenon
  <2>3. GivesUpForAReason'
    BY <2>1, <2>2, Zenon DEF GivesUpForAReason, Address
  <2> QED BY <2>1, <2>2, <2>3, Zenon DEF TypeOK, JobTyped
<1>6. CASE \E w \in RoleGroups(input) : ServerRuns(w)
  BY <1>2, <1>6, Zenon DEF TypeOK, ServerRuns
<1>7. CASE DatabaseLeaves
  <2>1. outages \in 0..MaxOutages /\ MaxOutages \in Nat
    BY BoundsAssumption, Zenon DEF TypeOK
  <2>2. outages < MaxOutages /\ outages' = outages + 1
    BY <1>7, Zenon DEF DatabaseLeaves
  <2>3. outages' \in 0..MaxOutages
    BY <2>1, <2>2
  <2> QED BY <1>2, <1>7, <2>3, Zenon DEF TypeOK, DatabaseLeaves
<1>8. CASE DatabaseComes
  BY <1>2, <1>8, Zenon DEF TypeOK, DatabaseComes
<1>9. CASE UNCHANGED vars
  BY <1>2, <1>9, Zenon DEF TypeOK, vars
<1> QED BY <1>3, <1>4, <1>5, <1>6, <1>7, <1>8, <1>9, Zenon DEF Next

\* Before the first pod nothing has failed.
LEMMA ReasonInit == Init => GivesUpForAReason
  BY DEF Init, GivesUpForAReason

\* The variables keep their types: the job never tries more often than its loop
\* says, no pod fails beyond the limit of the job controller, none is excused
\* that did not fail, and no more is applied than was registered.
THEOREM StartupTypes == Spec => []TypeOK
  BY TypeInit, ReasonInit, StartupStep, PTL DEF Spec

\* For every CR and every bound, whenever the database comes and goes: a failed
\* pod of the job was unable to reach a database that was away.
THEOREM JobGivesUpForAReason == Spec => []GivesUpForAReason
  BY TypeInit, ReasonInit, StartupStep, PTL DEF Spec
=============================================================================
