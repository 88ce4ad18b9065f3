--------------------------- MODULE MCStatusIndex ----------------------------
(* Instances of StatusIndex for TLC.                                       *)
EXTENDS StatusIndex, TLC

CONSTANTS t1, t2, all, default, urgent

(* One task in the default queue, one in another. *)
MCQueueOf == [t \in Tasks |-> IF t = t1 THEN default ELSE urgent]

Once(kinds) == [k \in Kinds |-> IF k \in kinds THEN 1 ELSE 0]

(* Both tasks, nothing stored, long TTLs: the operations are the setup's.  *)
Plain(kinds, maxTime) ==
    [tasks |-> {t1, t2}, legacy |-> {}, resultTtl |-> 4, completedTtl |-> 4,
     delays |-> {}, early |-> FALSE, age |-> 0, maxTime |-> maxTime, runs |-> 1,
     budget |-> Once(kinds)]

(* Every writer of the hash and of the index on one task. *)
Writers == [Plain(Kinds \ {"purge"}, 1) EXCEPT !.tasks = {t2}, !.resultTtl = 1,
                                                !.completedTtl = 1, !.runs = 2]

(* A result stored before the index existed and a new task. *)
Rebuild == [Plain({"handback", "rebuild"}, 3) EXCEPT
                !.legacy = {t1}, !.delays = {1}, !.resultTtl = 2, !.completedTtl = 1]

(* Retries while results expire. *)
Expiry == [Plain({"retry"}, 4) EXCEPT
                !.delays = {1}, !.resultTtl = 2, !.completedTtl = 1]

(* Tasks that run, finish and run again are deleted. *)
Deletes == [Plain({"retry", "handback", "delete"}, 1) EXCEPT !.runs = 2]

Purge == Plain({"handback", "purge"}, 2)

(* A trigger runs a delayed task before it is due. *)
Early == [Plain({"retry"}, 4) EXCEPT
                !.tasks = {t2}, !.delays = {1}, !.early = TRUE, !.resultTtl = 2,
                !.completedTtl = 1]

(* A task is given up, and tried again, while the TTL of its hash runs out. *)
GivenUp == [Plain({"giveup", "retry", "handback"}, 3) EXCEPT
                !.tasks = {t2}, !.delays = {1}, !.resultTtl = 2, !.completedTtl = 1]

MCSetups == {Writers, Rebuild, Expiry, Deletes, Purge, Early, GivenUp}
=============================================================================
