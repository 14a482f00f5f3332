------------------------------ MODULE Startup -------------------------------
(***************************************************************************)
(* A new cluster comes up: the operator applies what it registered, the    *)
(* init job waits for the database and creates the schema, the servers     *)
(* crash and are restarted until the schema is there.  The job runs what   *)
(* cluster/job_initscript.go puts into its two containers; the kubelet,    *)
(* the job controller, the database and the servers are external.          *)
(*                                                                         *)
(* The job takes its variables from the shared config map, which a master  *)
(* group registers after the job: the operator must not wait for the job.  *)
(***************************************************************************)
EXTENDS Manifests, Functions

CONSTANTS
    Inputs,         \* the CR specs, each with a group of the role master
    World,          \* what the operator reads, the database Secret included
    Tries,          \* how often a pod of the job looks for the database (180)
    Backoff,        \* how many failed pods the job controller replaces (6)
    MaxOutages      \* bound on how often the database goes away

ASSUME BoundsAssumption == Tries \in Nat \ {0} /\ Backoff \in Nat /\ MaxOutages \in Nat

\* The connection string is one that both of its readers can take apart.
ASSUME DatabaseAssumption ==
    \A s \in Inputs :
        /\ s.clusterConfig # Nil /\ WellFormed(s.clusterConfig.database)
        /\ GetDatabaseDriver(<<s.clusterConfig.database[3]>>) # Error

VARIABLES
    input,      \* the CR
    todo,       \* the role groups that are not registered yet
    list,       \* what is registered
    applied,    \* how many of the registered resources are applied
    up,         \* the database accepts connections
    outages,
    job,        \* "wait": in the init container, "init": before or in the
                \* other one, "done" or "failed"
    tries,      \* of the current pod
    failures,   \* failed pods of the job
    excused,    \* history: those that failed while the database was away, and
                \* whether the current one found it away
    schema,     \* the database has its tables
    running     \* the role groups whose servers run

operator == <<todo, list, applied>>
pods     == <<job, tries, failures, excused>>
vars     == <<input, operator, up, outages, pods, schema, running>>

\* The database as the servers will find it.
Addresses == [spec \in Inputs |-> parseConnectionString(spec.clusterConfig.database).val]

\* The init job.
Jobs == [spec \in Inputs |-> NewJobInitScriptReconciler(spec).val.obj]

\* What a turn of the loop over the role groups registers.
Registered ==
    [turn \in UNION {{<<spec, w>> : w \in RoleGroups(spec)} : spec \in Inputs} |->
        GroupReconcilers(turn[1], turn[2][1], turn[2][2], World)]

Address == Addresses[input]

IsApplied(kind, name) ==
    \E i \in 1..applied : list[i].key = [kind |-> kind, name |-> name]

JobSpec == Jobs[input]

Init ==
    /\ input \in Inputs /\ applied = 0
    /\ todo = RoleGroups(input) /\ list = ClusterReconcilers(input).val
    /\ up \in BOOLEAN /\ outages = 0
    /\ job = "wait" /\ tries = 0 /\ failures = 0
    /\ excused = [pods |-> 0, now |-> FALSE]
    /\ schema = FALSE /\ running = {}

-----------------------------------------------------------------------------
(* The operator *)

\* One turn of the loop over the role groups.  The order of the first pass stands
\* for that of all later ones, which register the same again.
RegisterGroup ==
    /\ \E w \in FirstGroups(todo) :
         LET rs == Registered[<<input, w>>]
         IN  rs # Panic /\ list' = list \o rs.val /\ todo' = todo \ {w}
    /\ UNCHANGED <<input, applied, up, outages, pods, schema, running>>

\* Mutant: the operator waits for the job before it turns to the roles.
ApplyAfterJob ==
    /\ todo = {} /\ applied < Len(list) /\ list[applied + 1].obj # Error
    /\ IsApplied("Job", <<>>) => job = "done"
    /\ applied' = applied + 1
    /\ UNCHANGED <<input, todo, list, up, outages, pods, schema, running>>

\* Whether the job is done is looked at by Ready only, after everything is
\* applied; a resource that cannot be built holds up those behind it.
Apply ==
    /\ todo = {} /\ applied < Len(list) /\ list[applied + 1].obj # Error
    /\ applied' = applied + 1
    /\ UNCHANGED <<input, todo, list, up, outages, pods, schema, running>>

-----------------------------------------------------------------------------
(* The init job *)

\* restartPolicy Never: a failed pod is replaced by a new one, up to Backoff
\* times.
PodFails ==
    /\ failures' = failures + 1
    /\ job' = IF failures = Backoff THEN "failed" ELSE "wait"
    /\ tries' = 0
    /\ excused' = [pods |-> excused.pods + (IF excused.now \/ ~up THEN 1 ELSE 0), now |-> FALSE]

\* Mutant: the host is taken from another connection string.
WrongHost(spec) == up /\ spec.waitFor = <<"localhost">>

\* nc -z <host> 5432: the host of the connection string, but always this port.
Reaches(spec) == up /\ spec.waitFor = Address.host /\ Address.port = <<"5432">>

\* Mutant: the loop counts from 0.
OneTryMore == tries >= Tries

LastTry == tries + 1 >= Tries

\* for i in $(seq 1 180): one try of the init container.
waitForDatabase ==
    /\ IsApplied("Job", <<>>) /\ job = "wait"
    /\ \/ /\ Reaches(JobSpec)
          /\ job' = "init"
          /\ UNCHANGED <<tries, failures, excused>>
       \/ /\ ~Reaches(JobSpec) /\ ~LastTry
          /\ tries' = tries + 1
          /\ excused' = [excused EXCEPT !.now = @ \/ ~up]
          /\ UNCHANGED <<job, failures>>
       \/ /\ ~Reaches(JobSpec) /\ LastTry
          /\ PodFails
    /\ UNCHANGED <<input, operator, up, outages, schema, running>>

\* upgrade-schema.sh; the container does not start before the config map that
\* envFrom names exists.
initDatabase ==
    /\ job = "init" /\ IsApplied("ConfigMap", JobSpec.envFrom)
    /\ \/ /\ up
          /\ job' = "done" /\ schema' = TRUE
          /\ UNCHANGED <<tries, failures, excused>>
       \/ /\ ~up
          /\ PodFails
          /\ UNCHANGED schema
    /\ UNCHANGED <<input, operator, up, outages, running>>

-----------------------------------------------------------------------------
(* Servers and database (external) *)

IsWorkloadOf(resource, w) ==
    /\ resource.key.kind \in {"StatefulSet", "Deployment"}
    /\ resource.key.name = FullName(w[1], w[2])

\* A pod can be created: the objects it refers to are there.
PodStarts(w) ==
    \E i \in 1..applied :
        LET obj == list[i].obj
        IN  /\ IsWorkloadOf(list[i], w)
            /\ IsApplied("ServiceAccount", obj.serviceAccount)
            /\ IsApplied("ConfigMap", obj.containers[1].envFrom)
            /\ \A v \in DOMAIN obj.volumes : "configMap" \in DOMAIN obj.volumes[v] =>
                  IsApplied("ConfigMap", obj.volumes[v].configMap)

\* The kubelet restarts a server until it finds its tables.
ServerRuns(w) ==
    /\ w \notin running /\ PodStarts(w)
    /\ schema /\ up
    /\ running' = running \cup {w}
    /\ UNCHANGED <<input, operator, up, outages, pods, schema>>

\* Without its database no server works.
DatabaseLeaves ==
    /\ up /\ outages < MaxOutages
    /\ up' = FALSE /\ outages' = outages + 1
    /\ running' = {}
    /\ UNCHANGED <<input, operator, pods, schema>>

DatabaseComes ==
    /\ ~up
    /\ up' = TRUE
    /\ UNCHANGED <<input, operator, outages, pods, schema, running>>

Next ==
    \/ RegisterGroup \/ Apply \/ waitForDatabase \/ initDatabase
    \/ \E w \in RoleGroups(input) : ServerRuns(w)
    \/ DatabaseLeaves \/ DatabaseComes

\* The operator applies, the job's pods run, the kubelet restarts what crashed,
\* and the database does not stay away.
Fairness ==
    /\ WF_vars(RegisterGroup) /\ WF_vars(Apply) /\ WF_vars(waitForDatabase) /\ WF_vars(initDatabase)
    /\ WF_vars(\E w \in RoleGroups(input) : ServerRuns(w))
    /\ WF_vars(DatabaseComes)

Spec == Init /\ [][Next]_vars /\ Fairness

-----------------------------------------------------------------------------
(* Properties *)

TypeOK ==
    /\ input \in Inputs /\ todo \subseteq RoleGroups(input)
    /\ list \in Seq(Range(list)) /\ applied \in 0..Len(list)
    /\ up \in BOOLEAN /\ outages \in 0..MaxOutages /\ schema \in BOOLEAN
    /\ job \in {"wait", "init", "done", "failed"}
    /\ tries \in 0..(Tries - 1)
    /\ failures \in 0..(IF job = "failed" THEN Backoff + 1 ELSE Backoff)
    /\ excused \in [pods : 0..failures, now : BOOLEAN]
    /\ running \subseteq RoleGroups(input)

\* Every server runs in the end, or the job has given up for good: the job, the
\* servers and the operator wait for each other's objects, but not in a circle,
\* whenever the database comes and goes.  For a database at port 5432.
EverythingRuns ==
    Address.port = <<"5432">> =>
        <>(job = "failed") \/ <>[](running = RoleGroups(input))

\* The job gives up only for want of the database: each of its pods that failed
\* was unable to reach it while it was away.  For a database at port 5432.
GivesUpForAReason ==
    Address.port = <<"5432">> => failures <= excused.pods

\* A database of type mysql (config/samples) that is there all the time, at the
\* address in the connection string, gets its schema from the job whose init
\* container is called "wait-for-database".
SchemaCreated == []up => <>schema
=============================================================================
