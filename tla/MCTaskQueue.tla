---------------------------- MODULE MCTaskQueue ----------------------------
(* Small instances of TaskQueue for TLC.                                   *)
EXTENDS TaskQueue, TLC

CONSTANTS t1, t2, w1, w2, w3, w4, x1

AllFaultSteps == Steps \ {"loop", "down", "idle"}

(* Commands whose failure leaves a task RUNNING in the name of a worker    *)
(* that is up, or leaves it unreleased: see the README.                    *)
StrandingSteps == {"start", "run", "release", "attempts", "give_up"}

MCSafeFaults == AllFaultSteps \ StrandingSteps

MCOneStream == [t \in Task |-> 1]
MCTwoStreams == [t \in Task |-> IF t = t1 THEN 1 ELSE 2]
MCServesAll == [w \in Worker |-> Stream]
MCAllStreams == Stream

MCSymmetry == Permutations(Worker \cap MayStop)
============================================================================
