---------------------------- MODULE MCSupervisor ----------------------------
(* Small instances of Supervisor for TLC.                                  *)
EXTENDS Supervisor, TLC

MCCrashes == {3, -9}
MCCrash == {3}

Continuous(workers) ==
    [workers |-> workers, restart |-> TRUE, graceful |-> TRUE, shutdownTimeout |-> 0,
     emptyCode |-> 0, failedCode |-> 0, outcomes |-> {"ok"}, scaleSteps |-> {},
     spawnMayFail |-> FALSE, maxDeaths |-> 1, maxScale |-> 0, maxRequests |-> 2]

(* Scaling both ways, processes that cannot be started, two requests. *)
Scaled == [Continuous(1) EXCEPT !.scaleSteps = {1, -1}, !.maxScale = 2,
                                !.spawnMayFail = TRUE]

(* Workers that crash and restart, one that is added. *)
Restarted == [Continuous(2) EXCEPT !.scaleSteps = {1}, !.maxScale = 1]

(* A shutdown with a timeout; one without graceful shutdown. *)
Timed == [Continuous(2) EXCEPT !.shutdownTimeout = 1, !.maxDeaths = 2, !.maxRequests = 1]
Abrupt == [Continuous(2) EXCEPT !.graceful = FALSE]

(* One worker that keeps failing, until the delay no longer fits a float. *)
Failing == [Continuous(1) EXCEPT !.maxDeaths = 4, !.maxRequests = 1]

(* Run once, with both exit codes set, as a scheduler would. *)
Once == [Continuous(2) EXCEPT !.restart = FALSE, !.emptyCode = 4, !.failedCode = 2,
             !.outcomes = {"idle", "ok", "failed", "unable"},
             !.maxDeaths = 2, !.maxRequests = 0]

MCSetups == {Scaled, Restarted, Timed, Abrupt, Failing, Once}

Patient == [Continuous(2) EXCEPT !.maxRequests = 1]

MCLiveSetups == {Timed, Patient, [Abrupt EXCEPT !.maxRequests = 1], Once}
=============================================================================
