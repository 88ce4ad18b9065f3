---------------------------- MODULE MCWorkerRun ----------------------------
(* A small instance of WorkerRun for TLC.                                  *)
EXTENDS WorkerRun, TLC

CONSTANTS t1, t2, t3

(* Two tasks on the stream that is served first, one on the other.         *)
MCStreamOf == [t \in Task |-> IF t = t3 THEN 2 ELSE 1]

Run(mode, waits, maxTasks, broken, others, faultAt) ==
    [mode |-> mode, waits |-> waits, maxTasks |-> maxTasks, broken |-> broken,
     others |-> others, faultAt |-> faultAt]

MCSetups ==
    { (* One-shot: beside another worker; beside triggers and deletions.   *)
      Run("once", FALSE, 2, {t1}, {"peer", "stop"}, {"receive", "run"}),
      Run("once", FALSE, 0, {t1}, {"trigger", "delete"}, {"receive", "run", "ack"}),
      (* Continuous and waiting on all streams: beside a worker; alone.    *)
      Run("continuous", TRUE, 2, {}, {"peer"}, {"receive", "run"}),
      Run("continuous", TRUE, 0, {t1}, {}, {"receive", "run", "ack"}),
      (* Continuous and polling.                                           *)
      Run("continuous", FALSE, 0, {t1}, {"stop", "trigger"}, {"receive", "run"}),
      (* A call of process_tasks.                                          *)
      Run("call", FALSE, 2, {}, {"trigger", "delete"}, {"receive", "run"}) }
============================================================================
