----------------------------- MODULE Supervisor -----------------------------
(***************************************************************************)
(* run_redis_tasks --workers N: WorkerSupervisor keeps N slots filled with *)
(* child processes, restarts the ones that exit, scales, forwards a        *)
(* shutdown and turns the exit codes into its own.                         *)
(*                                                                         *)
(* The supervisor is one thread: phase names the part of run() it is in,   *)
(* and todo the slots a pass over the list has still to visit.  Between    *)
(* any two of its steps a child may move, and a signal handler (or another *)
(* thread) may ask for a shutdown or change _pending_scale.                *)
(*                                                                         *)
(* A process is kept apart from the slot that refers to it, so that a      *)
(* process no slot refers to can be seen.  Time passes while the loop      *)
(* sleeps, one unit per sleep: ages, back-offs and the deadline are        *)
(* counted relative to now.                                                *)
(***************************************************************************)
EXTENDS Integers, Sequences, FiniteSetsExt

CONSTANTS
    Setups,             \* how the command is called: see Setup
    Grace,              \* SHUTDOWN_GRACE
    StableAfter,        \* STABLE_AFTER
    BackoffStart,       \* RESTART_BACKOFF_START
    BackoffMax,         \* RESTART_BACKOFF_MAX
    FloatExponent,      \* first n whose 2^n no float holds: 1024 in CPython
    CrashCodes,         \* what a child that crashes may exit with, as Popen tells it
    MaxSlots, MaxPids   \* bounds: slots and processes, over all setups

Sigterm == 15
Killed == -9
ForcedExit == 1
Index == 1 .. MaxSlots
Pid == 1 .. MaxPids
Never == -1

Setup == [workers : Nat \ {0}, restart : BOOLEAN, graceful : BOOLEAN,
          shutdownTimeout : Nat, emptyCode : 0 .. 255, failedCode : 0 .. 255,
          outcomes : SUBSET {"idle", "ok", "failed", "unable"},
          scaleSteps : SUBSET {1, -1}, spawnMayFail : BOOLEAN,
          maxDeaths : Nat, maxScale : Nat, maxRequests : Nat]

ASSUME SupervisorAssumption ==
    /\ Setups \subseteq Setup
    /\ \A s \in Setups : /\ s.workers + s.maxScale <= MaxSlots
                         /\ s.workers + s.maxScale + s.maxDeaths <= MaxPids
    /\ Grace \in Nat /\ StableAfter \in Nat /\ FloatExponent \in Nat
    /\ BackoffStart \in Nat /\ BackoffMax \in Nat
    /\ CrashCodes \subseteq (-64 .. 255) \ {0, -Sigterm}
    /\ MaxSlots \in Nat /\ MaxPids \in Nat

VARIABLES
    setup,          \* how the command was called; it never changes
    phase,          \* where run() is
    todo,           \* slots the current pass has not visited
    listed,         \* the slots of _workers
    slot,           \* the fields of a slot
    child,          \* the processes
    requests,       \* GracefulShutdown.request_count
    pending,        \* _pending_scale
    failing,        \* _failing_since is set
    exitCodes,      \* _exit_codes
    deadline,       \* time left before the workers are killed
    forced,         \* _forced
    raised,         \* _supervise raised
    result,         \* what run() returned
    restarts,       \* <<_restarts, _abnormal_restarts>>
    history,        \* how processes ended with a task running
    nextIndex, nextPid, deaths, scaled

loopVars == <<phase, todo, deadline, forced, raised, result>>
slotVars == <<listed, slot, nextIndex, failing>>
childVars == <<child, history, deaths>>
askVars == <<requests, scaled>>
countVars == <<restarts, nextPid>>
vars == <<setup, loopVars, slotVars, childVars, askVars, pending, exitCodes, countVars>>

Workers == setup.workers                    \* --workers
Restart == setup.restart                    \* --continuous
Graceful == setup.graceful                  \* not --no-graceful-shutdown
ShutdownTimeout == setup.shutdownTimeout    \* --shutdown-timeout, 0 waits for ever
EmptyCode == setup.emptyCode                \* --empty-exit-code
FailedCode == setup.failedCode              \* --failed-exit-code
Outcomes == setup.outcomes                  \* how a run may end: see Processed, Failed
ScaleSteps == setup.scaleSteps              \* SIGTTIN is 1, SIGTTOU is -1
SpawnMayFail == setup.spawnMayFail          \* Popen may raise
MaxDeaths == setup.maxDeaths                \* bound: exits nobody asked for
MaxScale == setup.maxScale                  \* bound: scaling signals
MaxRequests == setup.maxRequests            \* bound: shutdown requests
Codes == {0, EmptyCode, FailedCode, ForcedExit, Killed, -Sigterm} \cup CrashCodes

Phases == {"top", "add", "retire", "reap", "start", "wait", "stop", "stopping", "nap",
           "kill", "bury", "finish", "done", "raised"}
Endings == {"crash", "forced", "stopped", "killed"}
Child == [st : {"unborn", "starting", "idle", "busy", "leaving", "dead"},
          hits : 0 .. 1, clock : 0 .. ShutdownTimeout, code : Codes]
Slot == [pid : Pid \cup {0}, age : 0 .. StableAfter,
         wait : 0 .. BackoffMax \cup {Never}, failures : 0 .. MaxDeaths,
         retiring : BOOLEAN, started : BOOLEAN, abnormal : BOOLEAN,
         cleanSince : BOOLEAN]

TypeOK ==
    /\ setup \in Setups
    /\ phase \in Phases
    /\ listed \subseteq Index
    /\ todo \subseteq listed
    /\ slot \in [Index -> Slot]
    /\ child \in [Pid -> Child]
    /\ requests \in 0 .. MaxRequests + 1
    /\ pending \in -MaxScale .. MaxScale
    /\ exitCodes \in Seq(Codes)
    /\ deadline \in 0 .. ShutdownTimeout + Grace \cup {Never}
    /\ failing \in BOOLEAN /\ forced \in BOOLEAN /\ raised \in BOOLEAN
    /\ result \in 0 .. 255 \cup {Never}
    /\ restarts \in (0 .. MaxDeaths) \X (0 .. MaxDeaths)
    /\ history \subseteq Endings \cup Outcomes
    /\ nextIndex \in 1 .. MaxSlots + 1 /\ nextPid \in 1 .. MaxPids + 1
    /\ deaths \in 0 .. MaxDeaths
    /\ scaled \in 0 .. MaxScale

NewSlot == [pid |-> 0, age |-> 0, wait |-> 0, failures |-> 0,
            retiring |-> FALSE, started |-> FALSE, abnormal |-> FALSE,
            cleanSince |-> FALSE]
Unborn == [st |-> "unborn", hits |-> 0, clock |-> 0, code |-> 0]
Gone == [Unborn EXCEPT !.st = "dead"]     \* reaped

Init ==
    /\ setup \in Setups
    /\ phase = "top"
    /\ todo = {}
    /\ listed = 1 .. Workers
    /\ slot = [i \in Index |-> NewSlot]
    /\ child = [p \in Pid |-> Unborn]
    /\ requests = 0 /\ pending = 0
    /\ failing = FALSE /\ forced = FALSE /\ raised = FALSE
    /\ exitCodes = <<>>
    /\ deadline = Never /\ result = Never
    /\ restarts = <<0, 0>>
    /\ history = {}
    /\ nextIndex = Workers + 1 /\ nextPid = 1
    /\ deaths = 0 /\ scaled = 0

Running(i) == slot[i].pid # 0
AnyRunning == \E i \in listed : Running(i)
Active == {i \in listed : ~slot[i].retiring}
Alive(p) == child[p].st \in {"starting", "idle", "busy", "leaving"}
ShutdownSet == requests > 0
Lesser(a, b) == IF a <= b THEN a ELSE b

-----------------------------------------------------------------------------
(* Exit codes                                                              *)

(* What a worker that reached its end ran: nothing, tasks that succeeded,  *)
(* tasks of which one failed, or only a message it could not run.          *)
Processed(o) == o \in {"ok", "failed"}
Failed(o) == o \in {"failed", "unable"}

(* Command._exit_code                                                      *)
WorkerExitCode(o) ==
    IF Failed(o) /\ FailedCode # 0 THEN FailedCode
    ELSE IF ~Processed(o) THEN EmptyCode
    ELSE 0

(* Mutant: whatever ends a worker during a shutdown is a stop as asked. *)
ExitedAnyhow(code) == code # 0
ExitedOnSignal(code) == code = -Sigterm

CombineExitCodes(codes) ==
    LET reported == {codes[k] : k \in DOMAIN codes}
        odd == {k \in DOMAIN codes : codes[k] \notin {0, EmptyCode, FailedCode}}
        code == codes[Min(odd)]
    IN IF odd # {} THEN (IF code > 0 THEN code ELSE 128 - code)
       ELSE IF FailedCode # 0 /\ FailedCode \in reported THEN FailedCode
       ELSE IF reported = {EmptyCode} THEN EmptyCode
       ELSE 0

-----------------------------------------------------------------------------
(* The children: run_redis_tasks without --workers                         *)

Died(c, code) == [c EXCEPT !.st = "dead", !.code = code]

(* A process ends with the given code, in the way named.                   *)
Ends(p, code, how) ==
    /\ child' = [child EXCEPT ![p] = Died(@, code)]
    /\ history' = IF child[p].st = "busy" THEN history \cup {how} ELSE history

ChildMoves(p, from, to) ==
    /\ child[p].st = from
    /\ child' = [child EXCEPT ![p].st = to]
    /\ UNCHANGED <<history, deaths>>

(* The command has installed its handlers, or will run without any.        *)
ChildReady(p) == ChildMoves(p, "starting", "idle")

ChildTakes(p) ==
    /\ child[p].hits = 0
    /\ ChildMoves(p, "idle", "busy")

ChildFinishes(p) == ChildMoves(p, "busy", "idle")

(* The loop ended: the queue was empty, --max-tasks was reached, or the    *)
(* worker was asked to stop.  The handlers are restored, and the code it   *)
(* will exit with follows from what it ran.                                *)
ChildLeaves(p) ==
    /\ child[p].st = "idle"
    /\ child[p].hits = 0 => deaths < MaxDeaths
    /\ \E o \in Outcomes :
          /\ child' = [child EXCEPT ![p].st = "leaving",
                                    ![p].code = WorkerExitCode(o)]
          /\ history' = history \cup {o}
    /\ deaths' = IF child[p].hits = 0 THEN deaths + 1 ELSE deaths

ChildExits(p) == ChildMoves(p, "leaving", "dead")

ChildCrashes(p) ==
    /\ child[p].st \in {"starting", "idle", "busy"}
    /\ deaths < MaxDeaths
    /\ \E code \in CrashCodes : Ends(p, code, "crash")
    /\ deaths' = deaths + 1

(* The child's own --shutdown-timeout expired: GracefulShutdown.force_exit *)
ChildTimesOut(p) ==
    /\ child[p].st \in {"idle", "busy"}
    /\ child[p].hits > 0
    /\ ShutdownTimeout > 0 /\ child[p].clock = ShutdownTimeout
    /\ Ends(p, ForcedExit, "forced")
    /\ UNCHANGED deaths

ChildStep ==
    /\ \E p \in Pid :
          \/ ChildReady(p) \/ ChildTakes(p) \/ ChildFinishes(p)
          \/ ChildLeaves(p) \/ ChildExits(p) \/ ChildCrashes(p) \/ ChildTimesOut(p)
    /\ UNCHANGED <<setup, loopVars, slotVars, askVars, pending, exitCodes, countVars>>

(* What SIGTERM does to a child: without a handler it dies; the first one  *)
(* asks it to stop, the second forces its exit.                            *)
Signalled(c) ==
    IF c.st = "dead" THEN c
    ELSE IF c.st \in {"starting", "leaving"} \/ ~Graceful THEN Died(c, -Sigterm)
    ELSE IF c.hits = 0 THEN [c EXCEPT !.hits = 1]
    ELSE Died(c, ForcedExit)

(* _signal_worker, for the processes P.                                    *)
Signal(P) ==
    LET hit(how) == \E p \in P : /\ child[p].st = "busy"
                                 /\ Signalled(child[p]).st = "dead"
                                 /\ how = IF Graceful THEN "forced" ELSE "stopped"
    IN /\ child' = [p \in Pid |-> IF p \in P THEN Signalled(child[p])
                                             ELSE child[p]]
       /\ history' = history \cup {how \in Endings : hit(how)}
       /\ UNCHANGED deaths

-----------------------------------------------------------------------------
(* Signals and calls from outside                                          *)

Final == {"finish", "done", "raised"}

(* A shutdown signal, or request_shutdown() from another thread.           *)
RequestShutdown ==
    /\ phase \notin Final
    /\ requests < MaxRequests
    /\ requests' = requests + 1
    /\ UNCHANGED <<setup, loopVars, slotVars, childVars, pending, exitCodes,
                   countVars, scaled>>

(* SIGTTIN and SIGTTOU, add_worker() and remove_worker().                  *)
Scale ==
    /\ phase \notin Final
    /\ scaled < MaxScale
    /\ \E d \in ScaleSteps : pending' = pending + d
    /\ scaled' = scaled + 1
    /\ UNCHANGED <<setup, loopVars, slotVars, childVars, requests, exitCodes, countVars>>

-----------------------------------------------------------------------------
(* The loop: _supervise                                                    *)

Goto(from, to) == phase = from /\ phase' = to

(* The while condition, and the ends of the two loops of _apply_scaling.   *)
Top ==
    /\ \/ Goto("top", IF ShutdownSet THEN "stop" ELSE "add") /\ UNCHANGED todo
       \/ Goto("add", "retire") /\ pending <= 0 /\ UNCHANGED todo
       \/ Goto("retire", "reap") /\ pending >= 0 /\ todo' = listed
    /\ UNCHANGED <<deadline, forced, raised, result, slotVars, childVars,
                   askVars, pending, exitCodes, countVars>>

AddSlot ==
    /\ phase = "add" /\ pending > 0
    /\ pending' = pending - 1
    /\ listed' = listed \cup {nextIndex}
    /\ nextIndex' = nextIndex + 1
    /\ UNCHANGED <<loopVars, slot, failing, childVars, askVars, exitCodes,
                   countVars>>

(* Mutant: the last worker may be removed too. *)
MayRetireLast == Active # {}
MayRetire == Cardinality(Active) > 1

(* Mutant: a removed slot is forgotten while its process still runs. *)
NotAwaited(i) == FALSE
Awaited(i) == Running(i)

RetireNewest ==
    /\ phase = "retire" /\ pending < 0
    /\ pending' = pending + 1
    /\ IF ~MayRetire
       THEN UNCHANGED <<listed, slot, childVars>>
       ELSE LET i == Max(Active) IN
            IF Awaited(i)
            THEN /\ slot' = [slot EXCEPT ![i].retiring = TRUE]
                 /\ Signal({slot[i].pid})
                 /\ UNCHANGED listed
            ELSE /\ listed' = listed \ {i}
                 /\ UNCHANGED <<slot, childVars>>
    /\ UNCHANGED <<loopVars, nextIndex, failing, askVars, exitCodes, countVars>>

(* _restart_delay, on a float: 2 ** n is an exact integer of any size, and *)
(* its product with the float raises OverflowError past the largest float. *)
Overflows(s, code) ==
    /\ code # 0 /\ s.age < StableAfter
    /\ s.failures >= FloatExponent

Doubled[n \in Nat] == IF n = 0 THEN BackoffStart ELSE 2 * Doubled[n - 1]

(* Mutant: the doubling has no ceiling. *)
RestartDelayUncapped(failures) ==
    IF failures = 0 THEN 0 ELSE Doubled[failures - 1]
RestartDelay(failures) ==
    IF failures = 0 THEN 0 ELSE Lesser(Doubled[failures - 1], BackoffMax)

Failures(s, code) ==
    IF code = 0 \/ s.age >= StableAfter THEN 0 ELSE s.failures + 1

Abnormal(s, code, stopped) == ~stopped /\ code \notin {0, EmptyCode}

(* The slot of a process that was reaped.                                  *)
(* Mutant: only a worker that exits with code 0 is restarted. *)
ReapedForGood(s, code, stopped) ==
    [s EXCEPT !.pid = 0, !.age = 0,
              !.wait = IF Restart /\ ~ShutdownSet /\ code = 0 THEN 0 ELSE Never]
Reaped(s, code, stopped) ==
    LET f == Failures(s, code) IN
    [s EXCEPT !.pid = 0, !.age = 0,
              !.abnormal = Abnormal(s, code, stopped),
              !.cleanSince = @ \/ (failing /\ code = 0 /\ ~stopped),
              !.failures = IF Restart /\ ~ShutdownSet /\ ~s.retiring
                           THEN f ELSE @,
              !.wait = IF Restart /\ ~ShutdownSet /\ ~s.retiring
                       THEN RestartDelay(f) ELSE Never]

(* An exception in _supervise: the shutdown is set and the workers stop.   *)
Raise ==
    /\ phase' = "stop"
    /\ todo' = {}
    /\ raised' = TRUE
    /\ requests' = requests + 1
    /\ UNCHANGED <<deadline, forced, result, scaled, pending>>

(* One slot of the pass _reap makes over the list.                         *)
ReapOne ==
    /\ phase \in {"reap", "stopping"} /\ todo # {}
    /\ LET i == Min(todo)
           s == slot[i]
           c == child[s.pid]
           stopped == (ShutdownSet \/ s.retiring) /\ ExitedOnSignal(c.code)
       IN IF ~Running(i) \/ c.st # "dead"
          THEN /\ todo' = todo \ {i}
               /\ UNCHANGED <<phase, deadline, forced, raised, result, listed,
                              slot, child, requests, scaled, pending, exitCodes>>
          ELSE /\ exitCodes' = Append(exitCodes, IF stopped THEN 0 ELSE c.code)
               /\ child' = [child EXCEPT ![s.pid] = Gone]
               /\ IF Restart /\ ~ShutdownSet /\ ~s.retiring
                        /\ Overflows(s, c.code)
                  THEN /\ slot' = [slot EXCEPT ![i] =
                                     [Reaped(s, c.code, stopped) EXCEPT !.wait = Never]]
                       /\ UNCHANGED listed
                       /\ Raise
                  ELSE /\ slot' = [slot EXCEPT ![i] = Reaped(s, c.code, stopped)]
                       /\ listed' = IF s.retiring THEN listed \ {i} ELSE listed
                       /\ todo' = todo \ {i}
                       /\ UNCHANGED <<phase, deadline, forced, raised, result,
                                      requests, scaled, pending>>
    /\ UNCHANGED <<nextIndex, failing, history, deaths, countVars>>

IsStable(i) == Running(i) /\ slot[i].age >= StableAfter
IsFailing(i) == slot[i].failures > 0 /\ ~IsStable(i)

Recovered(i) == IsStable(i) \/ slot[i].cleanSince

(* The pass is over: _check_failing.                                       *)
CheckFailing ==
    /\ todo = {} /\ Goto("reap", "start")
    /\ todo' = listed
    /\ IF ~failing
       THEN /\ failing' = (Active # {} /\ \A i \in Active : IsFailing(i))
            /\ slot' = IF failing'
                       THEN [i \in Index |-> [slot[i] EXCEPT !.cleanSince = FALSE]]
                       ELSE slot
       ELSE /\ failing' = ~\E i \in Active : Recovered(i)
            /\ UNCHANGED slot
    /\ UNCHANGED <<deadline, forced, raised, result, listed, nextIndex,
                   childVars, askVars, pending, exitCodes, countVars>>

Due(i) == ~Running(i) /\ slot[i].wait = 0

(* One slot of the pass _start_due makes, and _spawn.                      *)
StartOne ==
    /\ phase = "start" /\ todo # {}
    /\ LET i == Min(todo) IN
       \/ /\ ~Due(i)
          /\ todo' = todo \ {i}
          /\ UNCHANGED <<phase, deadline, forced, raised, result, slot, child,
                         requests, scaled, pending, countVars>>
       \/ /\ Due(i)
          /\ todo' = todo \ {i}
          /\ slot' = [slot EXCEPT ![i].pid = nextPid, ![i].age = 0,
                                  ![i].wait = Never, ![i].started = TRUE]
          /\ child' = [child EXCEPT ![nextPid] = [Unborn EXCEPT !.st = "starting"]]
          /\ nextPid' = nextPid + 1
          /\ restarts' = IF slot[i].started
                         THEN <<restarts[1] + 1,
                                restarts[2] + IF slot[i].abnormal THEN 1 ELSE 0>>
                         ELSE restarts
          /\ UNCHANGED <<phase, deadline, forced, raised, result, requests,
                         scaled, pending>>
       \/ /\ Due(i) /\ SpawnMayFail
          /\ Raise
          /\ UNCHANGED <<slot, child, countVars>>
    /\ UNCHANGED <<listed, nextIndex, failing, history, deaths, exitCodes>>

WorkLeft == \E i \in listed : Running(i) \/ slot[i].wait # Never

(* The loop sleeps, or _supervise returns with nothing left to run.        *)
StartDone ==
    /\ todo = {} /\ phase = "start"
    /\ phase' = IF WorkLeft THEN "wait"
                ELSE IF ShutdownSet THEN "stop" ELSE "finish"
    /\ UNCHANGED <<todo, deadline, forced, raised, result, slotVars, childVars,
                   askVars, pending, exitCodes, countVars>>

(* Time passes for everything that measures it.                            *)
Older(s) ==
    [s EXCEPT !.age = IF s.pid # 0 THEN Lesser(@ + 1, StableAfter) ELSE @,
              !.wait = IF @ > 0 THEN @ - 1 ELSE @]
Elapse ==
    /\ slot' = [i \in Index |-> IF i \in listed THEN Older(slot[i]) ELSE slot[i]]
    /\ child' = [p \in Pid |-> [child[p] EXCEPT
                    !.clock = IF Alive(p) /\ child[p].hits > 0
                              THEN Lesser(@ + 1, ShutdownTimeout) ELSE @]]
    /\ deadline' = IF deadline > 0 THEN deadline - 1 ELSE deadline

(* self._shutdown.wait(self.tick): returns early on a shutdown.            *)
Wait ==
    /\ Goto("wait", "top")
    /\ IF ShutdownSet THEN UNCHANGED <<slot, child, deadline>> ELSE Elapse
    /\ UNCHANGED <<todo, forced, raised, result, listed, nextIndex, failing,
                   history, deaths, askVars, pending, exitCodes, countVars>>

-----------------------------------------------------------------------------
(* Stopping                                                                *)

Told == {i \in listed : Running(i)}

Deadline ==
    IF ~Graceful THEN 0
    ELSE IF ShutdownTimeout > 0 THEN ShutdownTimeout + Grace
    ELSE Never

(* _stop_workers up to its loop.                                           *)
Forward ==
    /\ phase = "stop"
    /\ IF AnyRunning
       THEN /\ phase' = "stopping"
            /\ todo' = listed
            /\ Signal({slot[i].pid : i \in Told})
            /\ deadline' = Deadline
       ELSE phase' = "finish" /\ UNCHANGED <<todo, deadline, childVars>>
    /\ UNCHANGED <<forced, raised, result, slotVars, askVars, pending,
                   exitCodes, countVars>>

(* Mutant: the first request kills already. *)
TimeToKillFirst == requests > 0 \/ deadline = 0
TimeToKill == requests > 1 \/ deadline = 0

(* The pass is over: is anything left, and is it time to kill it?          *)
Look ==
    /\ phase = "stopping" /\ todo = {}
    /\ phase' = IF ~AnyRunning THEN "finish"
                ELSE IF TimeToKill THEN "kill"
                ELSE "nap"
    /\ UNCHANGED <<todo, deadline, forced, raised, result, slotVars, childVars,
                   askVars, pending, exitCodes, countVars>>

(* time.sleep(self.tick)                                                   *)
Nap ==
    /\ Goto("nap", "stopping")
    /\ todo' = listed
    /\ Elapse
    /\ UNCHANGED <<forced, raised, result, listed, nextIndex, failing, history,
                   deaths, askVars, pending, exitCodes, countVars>>

(* _kill_workers: SIGKILL to all, then wait() for each and take its code.  *)
Kill ==
    /\ Goto("kill", "bury")
    /\ todo' = {i \in listed : Running(i)}
    /\ forced' = TRUE
    /\ LET live == {p \in {slot[i].pid : i \in todo'} : Alive(p)} IN
       /\ child' = [p \in Pid |-> IF p \in live THEN Died(child[p], Killed)
                                              ELSE child[p]]
       /\ history' = IF \E p \in live : child[p].st = "busy"
                     THEN history \cup {"killed"} ELSE history
    /\ UNCHANGED <<deadline, raised, result, slotVars, deaths, askVars, pending,
                   exitCodes, countVars>>

Bury ==
    /\ phase = "bury"
    /\ IF todo = {}
       THEN phase' = "finish" /\ UNCHANGED <<todo, slot, exitCodes>>
       ELSE LET i == Min(todo) IN
            /\ todo' = todo \ {i}
            /\ exitCodes' = Append(exitCodes, child[slot[i].pid].code)
            /\ slot' = [slot EXCEPT ![i].pid = 0]
            /\ UNCHANGED phase
    /\ UNCHANGED <<deadline, forced, raised, result, listed, nextIndex, failing,
                   childVars, askVars, pending, countVars>>

(* _finish, which an exception skips.                                      *)
Finish ==
    /\ phase = "finish"
    /\ IF raised THEN phase' = "raised" /\ UNCHANGED result
       ELSE /\ phase' = "done"
            /\ result' = IF forced THEN ForcedExit ELSE CombineExitCodes(exitCodes)
    /\ UNCHANGED <<todo, deadline, forced, raised, slotVars, childVars, askVars,
                   pending, exitCodes, countVars>>

LoopStep ==
    /\ \/ Top \/ AddSlot \/ RetireNewest \/ ReapOne \/ CheckFailing \/ StartOne
       \/ StartDone \/ Wait \/ Forward \/ Look \/ Nap
       \/ Kill \/ Bury \/ Finish
    /\ UNCHANGED setup

Ended == phase \in {"done", "raised"} /\ UNCHANGED vars

Next == LoopStep \/ ChildStep \/ RequestShutdown \/ Scale \/ Ended

Spec == Init /\ [][Next]_vars

(* The supervisor itself keeps running.  Without a timeout it waits for    *)
(* its workers: there a worker that was asked to leave also ends its task  *)
(* and leaves.                                                             *)
Complies(p) ==
    /\ ShutdownTimeout = 0 /\ child[p].hits > 0
    /\ ChildFinishes(p) \/ ChildLeaves(p) \/ ChildExits(p)
    /\ UNCHANGED <<setup, loopVars, slotVars, askVars, pending, exitCodes, countVars>>

FairSpec == Spec /\ WF_vars(LoopStep) /\ \A p \in Pid : WF_vars(Complies(p))

-----------------------------------------------------------------------------
(* Properties                                                              *)

Over == phase \in {"done", "raised"}

(* No process is left behind: while run() runs, every live process belongs *)
(* to a slot of the list, so that a shutdown reaches it, and none is alive *)
(* once run() has returned or raised (run).  Once the shutdown was         *)
(* forwarded each was asked to stop, the ones spawned or retired around    *)
(* the request included.                                                   *)
Forwarded == phase \in {"stopping", "nap", "kill"}

NoneLeftBehind ==
    \A p \in Pid : Alive(p) =>
        /\ ~Over
        /\ \E i \in listed : slot[i].pid = p
        /\ Graceful /\ Forwarded => child[p].hits > 0 \/ child[p].st = "leaving"

(* A supervisor that replaces its workers never loses a slot: whenever it  *)
(* sleeps there is a worker that is not being removed, and each of them    *)
(* has a process or is due for one (SIGTTOU keeps the last worker, and an  *)
(* exit schedules a restart; _retire_newest, _reap and _start_due).  Each  *)
(* process it started was the first of its slot or a restart it reports,   *)
(* abnormal only after an exit code that is neither 0 nor the empty one.   *)
CapacityKept ==
    /\ (Restart /\ phase = "wait" /\ ~ShutdownSet) =>
          /\ Active # {}
          /\ \A i \in Active : Running(i) \/ slot[i].wait # Never
    /\ restarts[1] + Cardinality({i \in Index : slot[i].started}) = nextPid - 1
    /\ restarts[2] <= Cardinality({k \in DOMAIN exitCodes :
                                     exitCodes[k] \notin {0, EmptyCode}})

(* With one request and no timeout the supervisor interrupts no task: the  *)
(* workers finish what they run (README: "waits for the workers to finish  *)
(* their running task").  A worker that is also removed is signalled twice.*)
InterruptsNothing ==
    (/\ Graceful /\ ShutdownTimeout = 0 /\ requests <= 1
     /\ -1 \notin ScaleSteps)
        => history \cap {"forced", "stopped", "killed"} = {}

(* The empty code is not one that the end of a worker by a crash, by force *)
(* or by a signal shows as: else run() cannot tell an idle run from it.    *)
EmptyIsTold ==
    /\ EmptyCode \notin CrashCodes \cup {ForcedExit}
    /\ \A code \in CrashCodes \cup {Killed, -Sigterm} : EmptyCode # 128 - code

(* Exit code 0 of a graceful supervisor hides no interrupted task: a       *)
(* worker that died or was forced out while it ran a task shows in what    *)
(* run() returns, whatever happened to the others (combine_exit_codes,     *)
(* _exited_on_signal).  Without a shutdown, 0 says no task failed and the  *)
(* empty code says no worker processed one (README, "Exit codes").  A      *)
(* worker that is removed on its way out does not report what failed.      *)
CodeTellsTheRun ==
    phase = "done" =>
        /\ (Graceful /\ EmptyIsTold /\ result = 0) => history \cap Endings = {}
        /\ (requests = 0 /\ -1 \notin ScaleSteps /\ result = 0 /\ FailedCode # 0)
                => \A o \in history : ~Failed(o)
        /\ (/\ requests = 0 /\ EmptyIsTold
            /\ result = EmptyCode /\ EmptyCode \notin {0, FailedCode})
                => \A o \in history : ~Processed(o)


(* A slot without a process gets one again, unless it is removed or a      *)
(* shutdown is requested (_reap, _restart_delay, _start_due), and once     *)
(* every worker was failing, a recovery is noticed (_check_failing).       *)
SlotsRefill ==
    /\ \A i \in Index :
          (Restart /\ i \in Active /\ ~Running(i))
              ~> (i \notin Active \/ Running(i) \/ ShutdownSet)
    /\ failing ~> (~failing \/ ShutdownSet)
=============================================================================
