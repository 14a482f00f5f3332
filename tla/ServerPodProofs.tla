-------------------------- MODULE ServerPodProofs ---------------------------
(***************************************************************************)
(* Vector's shutdown file tells the truth, however often the server        *)
(* crashes and whenever the pod is deleted.                                *)
(***************************************************************************)
EXTENDS ServerPod, SequenceTheorems, TLAPS

\* A server runs only where the script waits for it; from the removal of the
\* file to the end of that wait there is none; and a script that has come to
\* its end has left one.
PodInv ==
    /\ script \in Scripts /\ pc \in 1..(Len(script) + 1)
    /\ killed => deleted /\ Exited
    /\ child \in {"running", "stopping"} => ~Exited /\ script[pc] = "wait"
    /\ ~Exited /\ script[pc] \in {"handlers", "start", "wait"} => ~file
    /\ Exited /\ ~killed => file

-----------------------------------------------------------------------------
(* The scripts *)

\* What follows what in a script, and how it begins and ends.
Shape(s) ==
    /\ Len(s) \in Nat /\ Len(s) > 0
    /\ s[1] \notin {"handlers", "start", "wait"}
    /\ s[Len(s)] = "createShutdownFile"
    /\ \A i \in 1..Len(s) : s[i] = "start" => i < Len(s) /\ s[i + 1] = "wait"
    /\ \A i \in 1..(Len(s) - 1) :
         /\ s[i + 1] = "wait" => s[i] = "start"
         /\ s[i + 1] = "start" => s[i] = "handlers"
         /\ s[i + 1] = "handlers" => s[i] = "removeShutdownFile"

\* Each call of CommonCommandArgs replaces the script and adds to the arguments.
LEMMA CommandArgs ==
    ASSUME NEW b, "args" \in DOMAIN b, "argsScript" \in DOMAIN b
    PROVE  /\ DOMAIN CommonCommandArgs(b) = DOMAIN b
           /\ CommonCommandArgs(b).argsScript = RoleScript
           /\ CommonCommandArgs(b).args = b.args \o RoleScript
<1> DEFINE c == b.args \o RoleScript
           d == RoleScript
<1>1. CommonCommandArgs(b) = [b EXCEPT !.argsScript = d, !.args = c]
  BY DEF CommonCommandArgs
<1> HIDE DEF c, d
<1>2. /\ DOMAIN CommonCommandArgs(b) = DOMAIN b
      /\ CommonCommandArgs(b).argsScript = d
      /\ CommonCommandArgs(b).args = c
  BY <1>1
<1> QED BY <1>2 DEF c, d

\* The other calls leave both as they are.
LEMMA OtherCalls ==
    ASSUME NEW b, "args" \in DOMAIN b, "argsScript" \in DOMAIN b, NEW x
    PROVE  \A o \in {WithPorts(b, x), WithEnvs(b, x), WithReadinessAndLivenessProbe(b, x),
                     WithVolumeMounts(b, x)} :
             DOMAIN o = DOMAIN b /\ o.argsScript = b.argsScript /\ o.args = b.args
<1> DEFINE c == b.envs \o <<x, "REGISTRY_ZOOKEEPER_CONNECT_STRING">>
           d == b.volumeMounts \o x
           e == Append(b.ports, x)
           Same(o) == DOMAIN o = DOMAIN b /\ o.argsScript = b.argsScript /\ o.args = b.args
<1>1. WithEnvs(b, x) = [b EXCEPT !.envs = c]
  BY DEF WithEnvs
<1>2. WithVolumeMounts(b, x) = [b EXCEPT !.volumeMounts = d]
  BY DEF WithVolumeMounts
<1>3. WithPorts(b, x) = [b EXCEPT !.ports = e]
  BY DEF WithPorts
<1> HIDE DEF c, d, e
<1>4. Same(WithEnvs(b, x))
  BY <1>1
<1>5. Same(WithVolumeMounts(b, x))
  BY <1>2
<1>6. Same(WithPorts(b, x))
  BY <1>3
<1>7. Same(WithReadinessAndLivenessProbe(b, x))
  BY DEF WithReadinessAndLivenessProbe
<1> QED BY <1>4, <1>5, <1>6, <1>7, Zenon

\* The builder of every role ends with the script of the last call of
\* CommonCommandArgs, and with the arguments of both calls.
LEMMA RoleScripts ==
    ASSUME NEW r
    PROVE  /\ RoleContainer(r).argsScript = RoleScript
           /\ RoleContainer(r).args = (<<>> \o RoleScript) \o RoleScript
<1> DEFINE b0 == NewContainerBuilder
           b1 == CommonCommandArgs(b0)
           b2 == WithPorts(b1, Ports(r))
           b3 == WithEnvs(b2, r)
           b4 == WithReadinessAndLivenessProbe(b3, GetMetricsPort(r))
           b5 == CommonCommandArgs(b4)
           b6 == WithVolumeMounts(b5, <<>>)
<1>0. RoleContainer(r) = b6
  BY Zenon DEF RoleContainer
<1>1. b0.args = <<>> /\ "args" \in DOMAIN b0 /\ "argsScript" \in DOMAIN b0
  BY DEF NewContainerBuilder
<1> HIDE DEF b0
<1>2. DOMAIN b1 = DOMAIN b0 /\ b1.args = b0.args \o RoleScript
  BY <1>1, CommandArgs, Zenon
<1> HIDE DEF b1
<1>3. DOMAIN b2 = DOMAIN b0 /\ b2.args = b1.args
  BY <1>1, <1>2, OtherCalls, Zenon
<1> HIDE DEF b2
<1>4. DOMAIN b3 = DOMAIN b0 /\ b3.args = b2.args
  BY <1>1, <1>3, OtherCalls, Zenon
<1> HIDE DEF b3
<1>5. DOMAIN b4 = DOMAIN b0 /\ b4.args = b3.args
  BY <1>1, <1>4, OtherCalls, Zenon
<1> HIDE DEF b4
<1>6. /\ DOMAIN b5 = DOMAIN b0 /\ b5.argsScript = RoleScript
      /\ b5.args = b4.args \o RoleScript
  BY <1>1, <1>5, CommandArgs, Zenon
<1> HIDE DEF b5
<1>7. b6.argsScript = b5.argsScript /\ b6.args = b5.args
  BY <1>1, <1>6, OtherCalls, Zenon
<1> HIDE DEF b6
<1> QED BY <1>0, <1>1, <1>2, <1>3, <1>4, <1>5, <1>6, <1>7, Zenon

\* The arguments of two calls, element by element.
LEMMA TwiceIndexed ==
    ASSUME NEW S, NEW R \in Seq(S), Len(R) = 6
    PROVE  /\ (<<>> \o R) \o R \in Seq(S)
           /\ Len((<<>> \o R) \o R) = 12
           /\ \A i \in 1..6 : ((<<>> \o R) \o R)[i] = R[i]
           /\ \A i \in 7..12 : ((<<>> \o R) \o R)[i] = R[i - 6]
<1> DEFINE t == R \o R
<1>1. <<>> \o R = R
  OBVIOUS
<1>2. t \in Seq(S) /\ Len(t) = Len(R) + Len(R)
  BY ConcatProperties, Zenon
<1>3. \A i \in 1..(Len(R) + Len(R)) : t[i] = IF i <= Len(R) THEN R[i] ELSE R[i - Len(R)]
  BY ConcatProperties, Zenon
<1> HIDE DEF t
<1>4. Len(t) = 12 /\ (\A i \in 1..6 : t[i] = R[i]) /\ (\A i \in 7..12 : t[i] = R[i - 6])
  BY <1>2, <1>3
<1> QED BY <1>1, <1>2, <1>4, Zenon DEF t

\* And with the command of apiServerCommandArgs in front.
LEMMA PrefixIndexed ==
    ASSUME NEW S, NEW t \in Seq(S), NEW x \in S, Len(t) = 12
    PROVE  /\ Len(<<x>> \o t) = 13
           /\ (<<x>> \o t)[1] = x
           /\ \A i \in 2..13 : (<<x>> \o t)[i] = t[i - 1]
<1> DEFINE o == <<x>>
           u == o \o t
<1>1. o \in Seq(S) /\ Len(o) = 1 /\ o[1] = x
  OBVIOUS
<1> HIDE DEF o
<1>2. Len(u) = Len(o) + Len(t)
  BY <1>1, ConcatProperties, Zenon
<1>3. \A i \in 1..(Len(o) + Len(t)) : u[i] = IF i <= Len(o) THEN o[i] ELSE t[i - Len(o)]
  BY <1>1, ConcatProperties, Zenon
<1> HIDE DEF u
<1>4. Len(u) = 13 /\ u[1] = x /\ (\A i \in 2..13 : u[i] = t[i - 1])
  BY <1>1, <1>2, <1>3
<1> QED BY <1>4, Zenon DEF u, o

\* Both scripts have the shape: every start stands between a removal of the
\* shutdown file and a wait.
LEMMA ScriptShape == \A s \in Scripts : Shape(s)
<1> DEFINE S == {"exportLdapCredentials", "trap", "removeShutdownFile", "handlers", "start",
                 "wait", "createShutdownFile"}
           t == (<<>> \o RoleScript) \o RoleScript
           export == "exportLdapCredentials"
           u == <<export>> \o t
<1>1. Shape(RoleScript)
  BY DEF Shape, RoleScript
<1>2. RoleScript \in Seq(S) /\ Len(RoleScript) = 6
  BY DEF RoleScript
<1>3. /\ RoleScript[1] = "trap" /\ RoleScript[2] = "removeShutdownFile"
      /\ RoleScript[3] = "handlers" /\ RoleScript[4] = "start"
      /\ RoleScript[5] = "wait" /\ RoleScript[6] = "createShutdownFile"
  BY DEF RoleScript
<1>4. export \in S
  OBVIOUS
<1> HIDE DEF S, export
<1>5. /\ t \in Seq(S) /\ Len(t) = 12
      /\ \A i \in 1..6 : t[i] = RoleScript[i]
      /\ \A i \in 7..12 : t[i] = RoleScript[i - 6]
  BY <1>2, TwiceIndexed, Zenon
<1> HIDE DEF t
<1>6. /\ Len(u) = 13 /\ u[1] = export
      /\ \A i \in 2..13 : u[i] = t[i - 1]
  <2>1. t \in Seq(S) /\ Len(t) = 12
    BY <1>5
  <2>2. u = <<export>> \o t
    OBVIOUS
  <2> HIDE DEF u
  <2> QED BY <1>4, <2>1, <2>2, PrefixIndexed
<1> HIDE DEF u
<1>7. /\ \A i \in 2..7 : u[i] = RoleScript[i - 1]
      /\ \A i \in 8..13 : u[i] = RoleScript[i - 7]
  BY <1>5, <1>6
<1>8. /\ u[2] = "trap" /\ u[3] = "removeShutdownFile" /\ u[4] = "handlers"
      /\ u[5] = "start" /\ u[6] = "wait" /\ u[7] = "createShutdownFile"
      /\ u[8] = "trap" /\ u[9] = "removeShutdownFile" /\ u[10] = "handlers"
      /\ u[11] = "start" /\ u[12] = "wait" /\ u[13] = "createShutdownFile"
  BY <1>3, <1>7
<1>9. Shape(u)
  BY <1>6, <1>8 DEF Shape, export
<1>10. apiServerCommandArgs(RoleContainer("api")) = u
  BY RoleScripts, Zenon DEF apiServerCommandArgs, t, u, export
<1>11. RoleContainer("master").argsScript = RoleScript
  BY RoleScripts, Zenon
<1> HIDE DEF Shape
<1> QED BY <1>1, <1>9, <1>10, <1>11, Zenon DEF Scripts

-----------------------------------------------------------------------------
(* The invariant *)

\* A new container has no server and no shutdown file.
LEMMA InitPod == Init => PodInv
<1> SUFFICES ASSUME Init PROVE PodInv
  OBVIOUS
<1>1. Shape(script)
  BY ScriptShape DEF Init
<1> QED BY <1>1 DEF Init, PodInv, Exited, Shape

\* Every command of the script, every end of the server and every act of the
\* kubelet keeps the file true.
LEMMA StepPod == PodInv /\ [Next]_vars => PodInv'
<1> SUFFICES ASSUME PodInv, [Next]_vars PROVE PodInv'
  OBVIOUS
<1>0. Shape(script) /\ Len(script) \in Nat
  BY ScriptShape DEF PodInv, Shape
<1> HIDE DEF Scripts
<1>1. CASE Prepare
  BY <1>1, <1>0 DEF Prepare, Run, PodInv, Exited, Shape
<1>2. CASE RemoveVectorShutdownFile
  BY <1>2, <1>0 DEF RemoveVectorShutdownFile, Run, PodInv, Exited, Shape
<1>3. CASE PrepareSignalHandlers
  BY <1>3, <1>0 DEF PrepareSignalHandlers, Run, PodInv, Exited, Shape
<1>4. CASE RoleExec
  BY <1>4, <1>0 DEF RoleExec, Run, PodInv, Exited, Shape
<1>5. CASE EnterWait
  BY <1>5, <1>0 DEF EnterWait, PodInv, Exited, Shape
<1>6. CASE LeaveWait
  BY <1>6, <1>0 DEF LeaveWait, Run, PodInv, Exited, Shape
<1>7. CASE CreateVectorShutdownFile
  BY <1>7, <1>0 DEF CreateVectorShutdownFile, Run, PodInv, Exited, Shape
<1>8. CASE ServerStops \/ ServerCrashes
  BY <1>8, <1>0 DEF ServerStops, ServerCrashes, PodInv, Exited
<1>9. CASE Restart
  BY <1>9, <1>0 DEF Restart, PodInv, Exited, Shape
<1>10. CASE DeletePod
  BY <1>10, <1>0 DEF DeletePod, PodInv, Exited
<1>11. CASE Kill
  BY <1>11, <1>0 DEF Kill, PodInv, Exited, Shape
<1>12. CASE UNCHANGED vars
  BY <1>12 DEF vars, PodInv, Exited
<1> QED
  BY <1>1, <1>2, <1>3, <1>4, <1>5, <1>6, <1>7, <1>8, <1>9, <1>10, <1>11, <1>12
  DEF Next, Script

\* The shutdown file is never there while a server runs, and is there when the
\* script of CommonCommandArgs, or of apiServerCommandArgs, has ended.
THEOREM FileIsTrue == Spec => []ShutdownFileIsTrue
<1>1. PodInv => ShutdownFileIsTrue
  BY DEF PodInv, ShutdownFileIsTrue
<1> QED BY <1>1, InitPod, StepPod, PTL DEF Spec
=============================================================================
