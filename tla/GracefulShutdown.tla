-------------------------- MODULE GracefulShutdown --------------------------
(***************************************************************************)
(* GracefulShutdown in a single worker: signal handlers, the request count *)
(* and its lock, the event, the timer of --shutdown-timeout, and the       *)
(* worker loop they interrupt.                                             *)
(*                                                                         *)
(* A Python signal handler is a call that starts between two steps of the  *)
(* main thread and has to return before the main thread, or the handler it *)
(* interrupted, goes on: stack holds the handlers that have not returned,  *)
(* the innermost last.  Other threads may call set() at any time.  Neither *)
(* the lock of set() nor the one inside threading.Event is reentrant.      *)
(***************************************************************************)
EXTENDS Integers, Sequences, FiniteSets

CONSTANTS
    Setups,             \* how the command was called: see Setup
    Signals,            \* the signals handled
    Handlers,           \* bound: the handler calls, one per signal sent
    Callers,            \* other threads, each calls set() once
    None,
    MaxTasks            \* bound: messages in the queue

Calls == Handlers \cup Callers
Main == "main"

Setup == [graceful : BOOLEAN, timeout : Nat, forceOnRepeat : BOOLEAN,
          continuous : BOOLEAN, blocks : BOOLEAN, mayFail : BOOLEAN]

ASSUME ShutdownAssumption ==
    /\ Setups \subseteq Setup
    /\ MaxTasks \in Nat /\ Signals # {}
    /\ Handlers \cap Callers = {} /\ IsFiniteSet(Calls)
    /\ None \notin Calls \cup {Main, "done", "forced", "timeout", "signal"}
    /\ Main \notin Calls

VARIABLES
    setup,          \* how this worker was started; it never changes
    main,           \* where the main thread is, handlers aside
    stack,          \* handler calls that have not returned
    call,           \* the calls of set()
    lock,           \* who holds GracefulShutdown._lock
    eventLock,      \* who holds the lock inside GracefulShutdown._event
    flag,           \* the event is set
    requests,       \* _request_count
    timers,         \* the timers that were started
    timer,          \* _timer, as an index of timers
    handled,        \* signals whose handler is installed
    tasks,          \* messages left
    late,           \* tasks started after the event was set
    since,          \* time since the event was set
    exit            \* how the process ended

setVars == <<call, lock, flag, requests>>
timerVars == <<timers, timer>>
workVars == <<tasks, late>>
vars == <<setup, main, stack, setVars, eventLock, timerVars, handled, workVars,
          since, exit>>

Graceful == setup.graceful              \* not --no-graceful-shutdown
Timeout == setup.timeout                \* --shutdown-timeout, 0 for none
ForceOnRepeat == setup.forceOnRepeat    \* force_on_repeat
Continuous == setup.continuous          \* --continuous
Blocks == setup.blocks                  \* receive() does the waiting
MayFail == setup.mayFail                \* receive() and run_task() may raise

Places == {"enter", "look", "receive", "run", "ack", "wait", "check", "asleep",
           "woken", "leave", "restore", "cancel", "report"}
Exits == {None, "done", "forced", "timeout", "signal"}

Locked == {"count", "store", "event", "free"}
Steps == {"idle", "lock", "timer", "react", "done"} \cup Locked

TypeOK ==
    /\ setup \in Setups
    /\ main \in Places
    /\ stack \in Seq(Handlers) /\ Len(stack) <= Cardinality(Handlers)
    /\ call \in [Calls -> [at : Steps, count : 0 .. Cardinality(Calls),
                           first : BOOLEAN]]
    /\ lock \in Calls \cup {None}
    /\ \A c \in Calls : call[c].at \in Locked <=> lock = c
    /\ eventLock = IF main \in {"check", "woken"} THEN Main ELSE None
    /\ flag \in BOOLEAN
    /\ requests \in 0 .. Cardinality(Calls)
    /\ timers \in Seq([st : {"armed", "firing", "cancelled"}, clock : 0 .. Timeout])
    /\ timer \in 0 .. Len(timers)
    /\ handled \subseteq Signals
    /\ tasks \in 0 .. MaxTasks
    /\ late \in 0 .. MaxTasks
    /\ since \in 0 .. Timeout
    /\ exit \in Exits

Init ==
    /\ setup \in Setups
    /\ main = IF Graceful THEN "enter" ELSE "look"
    /\ stack = <<>>
    /\ call = [c \in Calls |-> [at |-> "idle", count |-> 0, first |-> FALSE]]
    /\ lock = None /\ eventLock = None
    /\ flag = FALSE /\ requests = 0
    /\ timers = <<>> /\ timer = 0
    /\ handled = {}
    /\ tasks = MaxTasks /\ late = 0 /\ since = 0
    /\ exit = None

Alive == exit = None

-----------------------------------------------------------------------------
(* set(), and what _handle_signal does after it                            *)

(* A handler runs when nothing was called inside it; a thread always may.  *)
Runs(c) ==
    /\ Alive
    /\ c \in Callers \/ (stack # <<>> /\ stack[Len(stack)] = c)

At(c, from, to) ==
    /\ Runs(c)
    /\ call[c].at = from
    /\ call' = [call EXCEPT ![c].at = to]
    /\ UNCHANGED setup

(* Mutant: set() takes no lock. *)
AcquireNothing(c) ==
    /\ At(c, "lock", "count")
    /\ UNCHANGED <<main, stack, lock, eventLock, flag, requests, timerVars,
                   handled, workVars, since, exit>>
Acquire(c) ==
    /\ lock = None
    /\ At(c, "lock", "count")
    /\ lock' = c
    /\ UNCHANGED <<main, stack, eventLock, flag, requests, timerVars, handled,
                   workVars, since, exit>>

(* _request_count += 1 reads, then writes.                                 *)
Count(c) ==
    /\ Runs(c) /\ call[c].at = "count"
    /\ call' = [call EXCEPT ![c].at = "store", ![c].count = requests + 1]
    /\ UNCHANGED <<setup, main, stack, lock, eventLock, flag, requests, timerVars,
                   handled, workVars, since, exit>>

Store(c) ==
    /\ At(c, "store", IF flag THEN "free" ELSE "event")
    /\ requests' = call[c].count
    /\ UNCHANGED <<main, stack, lock, eventLock, flag, timerVars, handled,
                   workVars, since, exit>>

(* Event.set() takes the event's own lock.                                 *)
SetEvent(c) ==
    /\ eventLock = None
    /\ Runs(c) /\ call[c].at = "event"
    /\ call' = [call EXCEPT ![c].at = "free", ![c].first = TRUE]
    /\ flag' = TRUE
    /\ UNCHANGED <<setup, main, stack, lock, eventLock, requests, timerVars, handled,
                   workVars, since, exit>>

Free(c) ==
    /\ At(c, "free", IF call[c].first THEN "timer" ELSE "react")
    /\ lock' = None
    /\ UNCHANGED <<main, stack, eventLock, flag, requests, timerVars, handled,
                   workVars, since, exit>>

(* Mutant: only a request that is repeated starts the timer. *)
TimedOnRepeat(c) == Timeout > 0 /\ call[c].count > 1
Timed(c) == Timeout > 0

StartTimer(c) ==
    /\ At(c, "timer", "react")
    /\ IF Timed(c)
       THEN /\ timers' = Append(timers, [st |-> "armed", clock |-> 0])
            /\ timer' = Len(timers')
       ELSE UNCHANGED timerVars
    /\ UNCHANGED <<main, stack, lock, eventLock, flag, requests, handled,
                   workVars, since, exit>>

(* Mutant: the first request forces the exit as well. *)
ForcesAlways(c) == ForceOnRepeat
Forces(c) == call[c].count # 1 /\ ForceOnRepeat

(* A handler returns or forces the exit; set() returns to its thread.      *)
React(c) ==
    /\ At(c, "react", "done")
    /\ IF c \in Handlers
       THEN /\ stack' = SubSeq(stack, 1, Len(stack) - 1)
            /\ exit' = IF Forces(c) THEN "forced" ELSE exit
       ELSE UNCHANGED <<stack, exit>>
    /\ UNCHANGED <<main, lock, eventLock, flag, requests, timerVars, handled,
                   workVars, since>>

CallStep(c) ==
    Acquire(c) \/ Count(c) \/ Store(c) \/ SetEvent(c) \/ Free(c) \/ StartTimer(c) \/ React(c)

(* A signal is sent.  One that is not handled ends the process.            *)
Signal ==
    /\ Alive
    /\ \E c \in Handlers, s \in Signals :
          /\ call[c].at = "idle"
          /\ call' = [call EXCEPT ![c].at = IF s \in handled THEN "lock" ELSE "done"]
          /\ IF s \in handled
             THEN stack' = Append(stack, c) /\ UNCHANGED exit
             ELSE exit' = "signal" /\ UNCHANGED stack
    /\ UNCHANGED <<setup, main, lock, eventLock, flag, requests, timerVars, handled,
                   workVars, since>>

(* Another thread calls set(): before the with-block is left.              *)
CallSet ==
    /\ Alive
    /\ main \notin {"restore", "cancel", "report"}
    /\ \E c \in Callers :
          /\ call[c].at = "idle"
          /\ call' = [call EXCEPT ![c].at = "lock"]
    /\ UNCHANGED <<setup, main, stack, lock, eventLock, flag, requests, timerVars,
                   handled, workVars, since, exit>>

-----------------------------------------------------------------------------
(* The timer                                                               *)

Tick ==
    /\ Alive
    /\ since < Timeout \/ \E k \in DOMAIN timers : timers[k].clock < Timeout
    /\ flag
    /\ since' = IF since < Timeout THEN since + 1 ELSE since
    /\ timers' = [k \in DOMAIN timers |->
                    [timers[k] EXCEPT !.clock = IF @ < Timeout THEN @ + 1 ELSE @]]
    /\ UNCHANGED <<setup, main, stack, setVars, eventLock, timer, handled, workVars, exit>>

(* threading.Timer looks whether it was cancelled, then calls _on_timeout. *)
Expire ==
    /\ Alive
    /\ \E k \in DOMAIN timers :
          /\ timers[k].st = "armed" /\ timers[k].clock = Timeout
          /\ timers' = [timers EXCEPT ![k].st = "firing"]
    /\ UNCHANGED <<setup, main, stack, setVars, eventLock, timer, handled, workVars,
                   since, exit>>

OnTimeout ==
    /\ Alive
    /\ \E k \in DOMAIN timers : timers[k].st = "firing"
    /\ exit' = "timeout"
    /\ UNCHANGED <<setup, main, stack, setVars, eventLock, timerVars, handled, workVars, since>>

-----------------------------------------------------------------------------
(* The main thread: Command.handle and its loop                            *)

Goes(from, to) ==
    /\ Alive /\ stack = <<>>
    /\ main = from /\ main' = to
    /\ UNCHANGED <<setup, stack, setVars>>

(* __enter__: the handlers are installed one by one.                       *)
Install ==
    /\ \/ /\ handled = Signals
          /\ Goes("enter", "look")
          /\ UNCHANGED handled
       \/ /\ Goes("enter", "enter")
          /\ \E s \in Signals \ handled : handled' = handled \cup {s}
    /\ UNCHANGED <<eventLock, timerVars, workVars, since, exit>>

(* Mutant: the loop does not look at the event. *)
LookAway == FALSE
Stopped == flag

Look ==
    /\ Goes("look", IF Stopped THEN "leave" ELSE "receive")
    /\ UNCHANGED <<eventLock, timerVars, handled, workVars, since, exit>>

(* receive() returns a message or nothing.  It stops waiting when the      *)
(* event is set, and may return a message all the same.                    *)
Take ==
    /\ tasks > 0
    /\ Goes("receive", "run")
    /\ tasks' = tasks - 1
    /\ late' = IF flag THEN late + 1 ELSE late
    /\ UNCHANGED <<eventLock, timerVars, handled, since, exit>>

TakeNothing ==
    /\ Goes("receive", IF ~Continuous THEN "leave"
                       ELSE IF Blocks THEN "look" ELSE "wait")
    /\ UNCHANGED <<eventLock, timerVars, handled, workVars, since, exit>>

(* receive() or run_task() raises.                                         *)
Fails ==
    /\ MayFail
    /\ \E from \in {"receive", "run"} :
          Goes(from, IF Continuous THEN "wait" ELSE "leave")
    /\ UNCHANGED <<eventLock, timerVars, handled, workVars, since, exit>>

RunTask ==
    /\ Goes("run", "ack")
    /\ UNCHANGED <<eventLock, timerVars, handled, workVars, since, exit>>

(* The message is acknowledged; --max-tasks may end the loop.              *)
AckTask ==
    /\ Goes("ack", "look") \/ Goes("ack", "leave")
    /\ UNCHANGED <<eventLock, timerVars, handled, workVars, since, exit>>

(* Event.wait(): the lock is held while the flag is read, let go while it  *)
(* sleeps, and taken again to return.                                      *)
WaitBegins ==
    /\ \/ Goes("wait", "check")
       \/ Goes("asleep", "woken")
    /\ eventLock = None /\ eventLock' = Main
    /\ UNCHANGED <<timerVars, handled, workVars, since, exit>>

WaitEnds ==
    /\ \/ Goes("check", IF flag THEN "leave" ELSE "asleep")
       \/ Goes("woken", IF flag THEN "leave" ELSE "look")
    /\ eventLock' = None
    /\ UNCHANGED <<timerVars, handled, workVars, since, exit>>

(* The consumer is removed and the broker closed.                          *)
Leave ==
    /\ Goes("leave", IF Graceful THEN "restore" ELSE "report")
    /\ UNCHANGED <<eventLock, timerVars, handled, workVars, since, exit>>

CancelTimer == [k \in DOMAIN timers |->
                  IF k = timer /\ timers[k].st = "armed"
                  THEN [timers[k] EXCEPT !.st = "cancelled"] ELSE timers[k]]

(* Mutant: the timer is cancelled before the handlers are restored. *)
UninstallTimerFirst ==
    /\ \/ /\ Goes("restore", "cancel")
          /\ timers' = CancelTimer /\ timer' = 0
          /\ UNCHANGED handled
       \/ /\ handled = {}
          /\ Goes("cancel", "report")
          /\ UNCHANGED <<timerVars, handled>>
       \/ /\ Goes("cancel", "cancel")
          /\ \E s \in handled : handled' = handled \ {s}
          /\ UNCHANGED timerVars
    /\ UNCHANGED <<eventLock, workVars, since, exit>>
(* uninstall: the handlers are restored one by one, then the timer is      *)
(* cancelled.                                                              *)
Uninstall ==
    /\ \/ /\ Goes("restore", "restore")
          /\ \E s \in handled : handled' = handled \ {s}
          /\ UNCHANGED timerVars
       \/ /\ handled = {}
          /\ Goes("restore", "cancel")
          /\ UNCHANGED <<timerVars, handled>>
       \/ /\ Goes("cancel", "report")
          /\ timers' = CancelTimer /\ timer' = 0
          /\ UNCHANGED handled
    /\ UNCHANGED <<eventLock, workVars, since, exit>>

Report ==
    /\ Goes("report", "report")
    /\ exit' = "done"
    /\ UNCHANGED <<eventLock, timerVars, handled, workVars, since>>

MainStep ==
    \/ Install \/ Look \/ Take \/ TakeNothing \/ AckTask \/ WaitBegins
    \/ WaitEnds \/ Leave \/ Uninstall \/ Report

Ended == ~Alive /\ UNCHANGED vars

Next ==
    \/ MainStep \/ RunTask \/ Fails
    \/ \E c \in Calls : CallStep(c)
    \/ Signal \/ CallSet \/ Tick \/ Expire \/ OnTimeout \/ Ended

Spec == Init /\ [][Next]_vars

(* Every thread keeps running and time passes.  A task ends as well, but   *)
(* nothing of the kind is assumed when there is a timeout.                 *)
Fairness ==
    /\ WF_vars(MainStep)
    /\ WF_vars(Timeout = 0 /\ RunTask)
    /\ \A c \in Calls : WF_vars(CallStep(c))
    /\ WF_vars(Tick) /\ WF_vars(Expire) /\ WF_vars(OnTimeout)

FairSpec == Spec /\ Fairness

-----------------------------------------------------------------------------
(* Properties                                                              *)

(* A worker that was asked to stop runs at most the one task whose message *)
(* it was about to read, whatever else is in the queue (_process_tasks     *)
(* looks at the event before each receive, receive while it waits).        *)
OneMoreAtMost == late <= 1

(* A task is only abandoned on demand: a forced exit follows two requests, *)
(* one on the timeout comes no sooner than Timeout after the first.        *)
ForcedOnDemand ==
    /\ exit = "forced" => requests >= 2 /\ ForceOnRepeat
    /\ exit = "timeout" => Timeout > 0 /\ since >= Timeout

(* Requests are counted once each, so the repeat is told from the first.   *)
CountedOnce ==
    \A c, d \in Calls :
        (c # d /\ call[c].count > 0) => call[c].count # call[d].count

(* However many threads and handlers ask at once, each is counted, one     *)
(* timer is started, and it is the one uninstall cancels (set computes     *)
(* first under _lock).                                                     *)
OneTimer ==
    /\ CountedOnce
    /\ Len(timers) <= 1
    /\ \A k \in DOMAIN timers : timers[k].st = "armed" => timer = k

(* A worker that has left its with-block cannot be forced out by the timer *)
(* of a signal: one that arrives while uninstall runs arms a timer that    *)
(* uninstall cancels.  A thread inside set() may arm its own afterwards.   *)
NoTimerLeft ==
    (main = "report" /\ \A c \in Callers : ~call[c].first)
        => \A k \in DOMAIN timers : timers[k].st # "armed"

(* A shutdown that was requested ends the process; so does a signal,       *)
(* whether or not its handler got as far as the event.                     *)
ShutdownEnds ==
    (flag \/ \E c \in Handlers : call[c].at # "idle") ~> ~Alive
=============================================================================
