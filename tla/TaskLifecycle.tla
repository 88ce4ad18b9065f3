--------------------------- MODULE TaskLifecycle ---------------------------
(***************************************************************************)
(* What the queue promises about one task, whatever streams, pending lists *)
(* and sweeps do underneath: it is run by at most one actor at a time, it  *)
(* goes back to waiting only when nobody runs it any more, and once it has *)
(* a result it keeps it.  At least once, and never twice at once.          *)
(***************************************************************************)
CONSTANTS
    Task,
    Actor           \* whoever runs tasks

VARIABLES
    stage,          \* where a task is in its life
    runners         \* the actors that run it: the set is empty or a singleton

vars == <<stage, runners>>

Stage == {"new", "waiting", "running", "successful", "failed"}

TypeOK ==
    /\ stage \in [Task -> Stage]
    /\ runners \in [Task -> SUBSET Actor]

Init ==
    /\ stage = [t \in Task |-> "new"]
    /\ runners = [t \in Task |-> {}]

Move(t, s, R) ==
    /\ stage' = [stage EXCEPT ![t] = s]
    /\ runners' = [runners EXCEPT ![t] = R]

Submit(t) == stage[t] = "new" /\ Move(t, "waiting", {})

Start(t, a) ==
    stage[t] = "waiting" /\ runners[t] = {} /\ Move(t, "running", {a})

(* The runner is gone and nothing tells.                                   *)
Lose(t) == runners[t] # {} /\ Move(t, stage[t], {})

(* A task that has lost its runner waits again.                            *)
Return(t) ==
    stage[t] = "running" /\ runners[t] = {} /\ Move(t, "waiting", {})

Finish(t) ==
    /\ stage[t] = "running" /\ runners[t] # {}
    /\ \E s \in {"successful", "failed"} : Move(t, s, {})

(* A success whose report raises is turned into a failure, by its runner.  *)
Revoke(t) == stage[t] = "successful" /\ Move(t, "failed", {})

(* Given up on, but not while somebody runs it.                            *)
Abandon(t) ==
    /\ stage[t] \in {"waiting", "running"} /\ runners[t] = {}
    /\ Move(t, "failed", {})

Next ==
    \E t \in Task :
        \/ Submit(t) \/ Lose(t) \/ Return(t) \/ Finish(t) \/ Revoke(t)
        \/ Abandon(t)
        \/ \E a \in Actor : Start(t, a)

Spec == Init /\ [][Next]_vars
============================================================================
