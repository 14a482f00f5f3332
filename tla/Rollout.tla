------------------------------- MODULE Rollout ------------------------------
(***************************************************************************)
(* What the operator promises about its writes, apart from how it gets     *)
(* there: no queue, no timers, no list of reconcilers, no status.          *)
(*                                                                         *)
(* The operator works towards one version of the CR at a time, and only to *)
(* versions it has observed, never back to one before.  It writes an       *)
(* object only to what that version asks for, only when it is that         *)
(* object's turn (Due), only over the newest content of the object, and    *)
(* never without need.  It deletes nothing.                                *)
(***************************************************************************)
CONSTANTS
    Nil, Specs, Keys,
    Due(_, _, _, _),    \* Due(spec, found, k, o): once the keys in found are
                        \* right, it is k's turn to be o on the way to spec
    Immutable(_, _, _)  \* Immutable(k, old, new): k cannot be changed so

VARIABLES
    wanted,     \* the CR
    known,      \* the version of it that the operator has observed
    goal,       \* the version it works towards
    have,       \* the objects of the cluster
    cached,     \* what the operator has observed of them
    found       \* those it has found to be as goal asks for

vars == <<wanted, known, goal, have, cached, found>>

Init ==
    /\ wanted \in Specs /\ known = Nil /\ goal = Nil
    /\ have = [k \in Keys |-> Nil] /\ cached = have /\ found = {}

-----------------------------------------------------------------------------
(* The users and the cluster *)

Edit ==
    /\ wanted # Nil /\ wanted' \in Specs \cup {Nil}
    /\ UNCHANGED <<known, goal, have, cached, found>>

Lose(k) ==
    /\ have' = [have EXCEPT ![k] = Nil]
    /\ UNCHANGED <<wanted, known, goal, cached, found>>

-----------------------------------------------------------------------------
(* The operator *)

ObserveCR ==
    /\ known' = wanted
    /\ UNCHANGED <<wanted, goal, have, cached, found>>

Observe(k) ==
    /\ cached' = [cached EXCEPT ![k] = have[k]]
    /\ UNCHANGED <<wanted, known, goal, have, found>>

Adopt ==
    /\ goal' = known /\ found' = {}
    /\ UNCHANGED <<wanted, known, have, cached>>

\* What it looks at next is as it should be.
Find(k) ==
    /\ goal \in Specs
    /\ Due(goal, found, k, cached[k])
    /\ found' = found \cup {k}
    /\ UNCHANGED <<wanted, known, goal, have, cached>>

Write(k) ==
    /\ goal \in Specs
    /\ cached[k] = have[k]
    /\ have[k] # Nil => have'[k] # have[k] /\ ~Immutable(k, have[k], have'[k])
    /\ Due(goal, found, k, have'[k])
    /\ have' = [have EXCEPT ![k] = have'[k]]
    /\ UNCHANGED <<wanted, known, goal, cached, found>>

Restart ==
    /\ known' = wanted /\ cached' = have
    /\ goal' = Nil /\ found' = {}
    /\ UNCHANGED <<wanted, have>>

Next ==
    \/ Edit \/ ObserveCR \/ Adopt \/ Restart
    \/ \E k \in Keys : Lose(k) \/ Observe(k) \/ Find(k) \/ Write(k)

Spec == Init /\ [][Next]_vars
=============================================================================
