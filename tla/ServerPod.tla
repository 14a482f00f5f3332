----------------------------- MODULE ServerPod ------------------------------
(***************************************************************************)
(* The life of a server's container: bash, as process 1, runs the script   *)
(* of CommonCommandArgs, or the one of apiServerCommandArgs for an API     *)
(* server with LDAP; the server may crash, and the pod may be deleted at   *)
(* any step.  The script comes from Manifests.  The shell functions in it  *)
(* are operator-go's and the rest is the kubelet's: both are external.     *)
(* The functions are taken to do what they are for also under the options  *)
(* -euo pipefail of ContainerBuilder.Build: a server that ends with an     *)
(* error ends the wait, not the script.                                    *)
(***************************************************************************)
EXTENDS Manifests

CONSTANT MaxCrashes     \* bound on the crashes of the server

ASSUME CrashesAssumption == MaxCrashes \in Nat

VARIABLES
    script,     \* what the container runs
    pc,         \* the next command; past the last one, bash has exited
    handlers,   \* TERM is trapped
    pending,    \* the shell's term_kill_needed: TERM came too early
    ward,       \* the shell's term_child_pid is set
    child,      \* the server: "none", "running", "stopping" or "dead"
    file,       \* vector's shutdown file
    deleted,    \* the pod is being deleted
    told,       \* history: TERM came when there was something to end
    killed,     \* the grace period ran out
    crashes

vars == <<script, pc, handlers, pending, ward, child, file, deleted, told, killed, crashes>>

Scripts == {RoleContainer("master").argsScript, apiServerCommandArgs(RoleContainer("api"))}

Init ==
    /\ script \in Scripts /\ pc = 1
    /\ handlers = FALSE /\ pending = FALSE /\ ward = FALSE
    /\ child = "none" /\ file = FALSE
    /\ deleted = FALSE /\ told = FALSE /\ killed = FALSE /\ crashes = 0

Exited == pc > Len(script)

-----------------------------------------------------------------------------
(* The commands of the script *)

\* bash turns to the next command.
Run(command) ==
    /\ ~Exited /\ script[pc] = command
    /\ pc' = pc + 1
    /\ UNCHANGED <<script, deleted, told, killed, crashes>>

\* The definitions of the shell functions, and the variables for LDAP.
Prepare ==
    /\ \/ Run("trap")
       \/ Run("exportLdapCredentials")
    /\ UNCHANGED <<handlers, pending, ward, child, file>>

RemoveVectorShutdownFile ==
    /\ Run("removeShutdownFile")
    /\ file' = FALSE
    /\ UNCHANGED <<handlers, pending, ward, child>>

PrepareSignalHandlers ==
    /\ Run("handlers")
    /\ handlers' = TRUE /\ pending' = FALSE /\ ward' = FALSE
    /\ UNCHANGED <<child, file>>

\* bin/start.sh &
RoleExec ==
    /\ Run("start")
    /\ child' = "running"
    /\ UNCHANGED <<handlers, pending, ward, file>>

\* The first half of wait_for_termination: a TERM that came before is passed on.
EnterWait ==
    /\ ~Exited /\ script[pc] = "wait" /\ ~ward
    /\ ward' = TRUE
    /\ child' = IF pending /\ child = "running" THEN "stopping" ELSE child
    /\ UNCHANGED <<script, pc, handlers, pending, file, deleted, told, killed, crashes>>

\* The second half, when the server is down.
LeaveWait ==
    /\ ward /\ child = "dead"
    /\ Run("wait")
    /\ handlers' = FALSE
    /\ UNCHANGED <<pending, ward, child, file>>

CreateVectorShutdownFile ==
    /\ Run("createShutdownFile")
    /\ file' = TRUE
    /\ UNCHANGED <<handlers, pending, ward, child>>

Script ==
    \/ Prepare \/ RemoveVectorShutdownFile \/ PrepareSignalHandlers \/ RoleExec
    \/ EnterWait \/ LeaveWait \/ CreateVectorShutdownFile

-----------------------------------------------------------------------------
(* Server and kubelet (external) *)

ServerStops ==
    /\ child = "stopping"
    /\ child' = "dead"
    /\ UNCHANGED <<script, pc, handlers, pending, ward, file, deleted, told, killed, crashes>>

ServerCrashes ==
    /\ child = "running" /\ crashes < MaxCrashes
    /\ child' = "dead" /\ crashes' = crashes + 1
    /\ UNCHANGED <<script, pc, handlers, pending, ward, file, deleted, told, killed>>

\* Only what is on a volume survives the container.
Persistent == \E i \in DOMAIN commonVolumeMounts : commonVolumeMounts[i].name = "log"

\* A container whose process 1 ended is started again, unless the pod goes.
Restart ==
    /\ Exited /\ ~deleted
    /\ pc' = 1
    /\ handlers' = FALSE /\ pending' = FALSE /\ ward' = FALSE /\ child' = "none"
    /\ file' = (file /\ Persistent)
    /\ UNCHANGED <<script, deleted, told, killed, crashes>>

\* TERM goes to process 1, which ignores it while it has no handler.
DeletePod ==
    /\ ~deleted
    /\ deleted' = TRUE
    /\ told' = (~Exited /\ (handlers \/ child = "running"))
    /\ pending' = (pending \/ (~Exited /\ handlers /\ ~ward))
    /\ child' = IF ~Exited /\ handlers /\ ward /\ child = "running" THEN "stopping" ELSE child
    /\ UNCHANGED <<script, pc, handlers, ward, file, killed, crashes>>

Kill ==
    /\ deleted /\ ~Exited
    /\ pc' = Len(script) + 1 /\ child' = "none" /\ killed' = TRUE
    /\ UNCHANGED <<script, handlers, pending, ward, file, deleted, told, crashes>>

Next ==
    \/ Script \/ ServerStops \/ ServerCrashes
    \/ Restart \/ DeletePod \/ Kill

\* bash goes on, a server that is told to ends, and the kubelet restarts.  The
\* pod need not be deleted, and the grace period may be as long as it takes.
Spec == Init /\ [][Next]_vars /\ WF_vars(Script) /\ WF_vars(ServerStops) /\ WF_vars(Restart)

-----------------------------------------------------------------------------
(* Properties *)

\* Vector's shutdown file tells the truth: it is not there while a server runs,
\* not even one that follows another in the same container (CommonCommandArgs
\* removes it first), and it is there once a script has come to its end.
ShutdownFileIsTrue ==
    /\ child \in {"running", "stopping"} => ~file
    /\ Exited /\ ~killed => file

StartsOnce == Cardinality({n \in DOMAIN script : script[n] = "start"}) = 1

\* A pod that is deleted once its server starts ends by itself, without the
\* kubelet killing it, also when TERM comes between the start of the server and
\* the wait for it.  For the scripts that start the server once.
EndsGracefully == told /\ StartsOnce ~> Exited

\* Whenever the server crashes it is started again, in the same container or
\* in the next one, and then stays: bash does not end before the server.
KeepsServing == <>deleted \/ <>[](child = "running")
=============================================================================
