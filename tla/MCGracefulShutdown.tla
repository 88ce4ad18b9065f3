------------------------- MODULE MCGracefulShutdown -------------------------
(* Small instances of GracefulShutdown for TLC.                            *)
EXTENDS GracefulShutdown, TLC

CONSTANTS h1, h2, h3, t1, t2

MCSignals == {"SIGINT", "SIGTERM"}
MCOne == {h1}
MCThree == {h1, h2, h3}
MCThreads == {t1, t2}
MCSymmetry == Permutations({h1, h2, h3}) \cup Permutations({t1, t2})

Worker(timeout, forceOnRepeat, continuous, blocks, mayFail) ==
    [graceful |-> TRUE, timeout |-> timeout, forceOnRepeat |-> forceOnRepeat,
     continuous |-> continuous, blocks |-> blocks, mayFail |-> mayFail]
NotGraceful(u) == [u EXCEPT !.graceful = FALSE]

(* Polling, with a timeout; a one-shot run.                                *)
MCRaces == { Worker(1, TRUE, TRUE, FALSE, TRUE),
             Worker(2, FALSE, FALSE, FALSE, FALSE),
             NotGraceful(Worker(0, FALSE, TRUE, FALSE, FALSE)) }

(* Waiting inside receive, without a timeout and with one; a one-shot run. *)
MCEnds == { Worker(0, TRUE, TRUE, TRUE, FALSE),
            Worker(2, TRUE, TRUE, TRUE, FALSE),
            Worker(0, TRUE, FALSE, TRUE, TRUE) }
=============================================================================
