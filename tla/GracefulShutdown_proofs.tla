----------------------- MODULE GracefulShutdown_proofs -----------------------
(***************************************************************************)
(* For any number of signals and threads that ask for the shutdown: their  *)
(* requests are counted once each, one of them starts the one timer, a     *)
(* task is abandoned on demand only, and one more is run at most.          *)
(***************************************************************************)
EXTENDS GracefulShutdown, FiniteSetTheorems, TLAPS

Timer == [st : {"armed", "firing", "cancelled"}, clock : 0 .. Timeout]

CallTypes ==
    /\ setup \in Setups
    /\ call \in [Calls -> [at : Steps, count : Nat, first : BOOLEAN]]
    /\ lock \in Calls \cup {None}
    /\ requests \in Nat
    /\ flag \in BOOLEAN

(* The lock is held by the call inside it, so that only that call counts.  *)
LockOK == \A c \in Calls : call[c].at \in Locked => lock = c

CountOK ==
    /\ \A c \in Calls : call[c].at \in {"idle", "lock", "count"} => call[c].count = 0
    /\ \A c \in Calls : call[c].at = "store" => call[c].count = requests + 1
    /\ \A c \in Calls : call[c].at # "store" => call[c].count <= requests
    /\ \A c \in Calls : call[c].at \in {"event", "free", "timer", "react"}
                            => call[c].count > 0

(* One call sets the event, and says so until it is done.                  *)
FirstOK ==
    /\ ~flag => \A c \in Calls : ~call[c].first
    /\ \A c, d \in Calls : (call[c].first /\ call[d].first) => c = d
    /\ \A c \in Calls : call[c].at = "event" => ~flag
    /\ \A c \in Calls : call[c].at = "timer" => call[c].first
    /\ \A c \in Calls : call[c].at \in {"idle", "lock", "count", "store", "event"}
                            => ~call[c].first

CallInv == CallTypes /\ LockOK /\ CountOK /\ FirstOK /\ CountedOnce

(* The first request starts the timer, after which it is the only one.     *)
TimerInv ==
    /\ timers \in Seq(Timer) /\ since \in 0 .. Timeout
    /\ ~flag => Len(timers) = 0
    /\ \A c \in Calls : (call[c].first /\ call[c].at \in {"free", "timer"})
                            => Len(timers) = 0
    /\ Len(timers) <= 1
    /\ Len(timers) > 0 => Timeout > 0
    /\ \A k \in DOMAIN timers : timers[k].st = "armed" => timer = k
    /\ \A k \in DOMAIN timers : timers[k].st = "firing" => timers[k].clock = Timeout
    /\ \A k \in DOMAIN timers : timers[k].clock <= since

(* A task that was started late is the last: the loop receives no more.    *)
LateInv ==
    /\ late \in Nat
    /\ late = 0 \/ (late = 1 /\ flag /\ main # "receive")

USE ShutdownAssumption

(* How the worker was started never changes.                               *)
LEMMA SetupKept == [Next]_vars => setup' = setup
BY DEF Next, vars, CallStep, Acquire, Count, Store, SetEvent, Free, StartTimer,
   React, At, Signal, CallSet, Tick, Expire, OnTimeout, Ended, MainStep, Install,
   Look, Take, TakeNothing, AckTask, WaitBegins, WaitEnds, Leave, Uninstall,
   Report, RunTask, Fails, Goes

LEMMA TimeoutKept ==
    setup' = setup => Timeout' = Timeout /\ ForceOnRepeat' = ForceOnRepeat /\ Timer' = Timer
BY DEF Timeout, ForceOnRepeat, Timer

LEMMA TimeoutType == setup \in Setups => Timeout \in Nat
BY DEF Timeout, Setup

LEMMA InitCall == Init => CallInv
<1> SUFFICES ASSUME Init PROVE CallInv
  OBVIOUS
<1>1. [at |-> "idle", count |-> 0, first |-> FALSE]
          \in [at : Steps, count : Nat, first : BOOLEAN]
  BY DEF Steps
<1>2. CallTypes BY <1>1 DEF Init, CallTypes
<1>3. \A c \in Calls : call[c].at = "idle" /\ call[c].count = 0 /\ ~call[c].first
  BY DEF Init
<1>4. requests = 0 /\ ~flag BY DEF Init
<1> QED BY <1>2, <1>3, <1>4 DEF CallInv, LockOK, CountOK, FirstOK, CountedOnce, Locked

LEMMA InitRest == Init => TimerInv /\ LateInv /\ ForcedOnDemand
<1> SUFFICES ASSUME Init PROVE TimerInv /\ LateInv /\ ForcedOnDemand
  OBVIOUS
<1>1. timers \in Seq(Timer) /\ Len(timers) = 0 /\ DOMAIN timers = {}
  BY DEF Init
<1>2. TimerInv BY <1>1, TimeoutType, ShutdownAssumption DEF Init, TimerInv
<1>3. LateInv BY DEF Init, LateInv
<1>4. ForcedOnDemand BY DEF Init, ForcedOnDemand
<1> QED BY <1>2, <1>3, <1>4

-----------------------------------------------------------------------------
(* The calls                                                               *)

LEMMA CallFrame == CallInv /\ UNCHANGED setVars /\ UNCHANGED setup => CallInv'
BY DEF CallInv, CallTypes, LockOK, CountOK, FirstOK, CountedOnce, setVars

LEMMA AcquireCall == ASSUME CallInv, NEW c \in Calls, Acquire(c) PROVE CallInv'
<1> USE DEF CallInv, CallTypes, Acquire, At
<1>1. CallTypes' BY DEF Steps, Locked
<1>2. LockOK' BY DEF LockOK, Locked
<1>3. CountOK' BY DEF CountOK, Locked
<1>4. FirstOK' BY DEF FirstOK
<1>5. CountedOnce' BY DEF CountedOnce
<1> QED BY <1>1, <1>2, <1>3, <1>4, <1>5

LEMMA CountCall == ASSUME CallInv, NEW c \in Calls, Count(c) PROVE CallInv'
<1> USE DEF CallInv, CallTypes, Count
<1>1. CallTypes'
  <2>1. "store" \in Steps /\ requests + 1 \in Nat BY DEF Steps, Locked
  <2>2. [call[c] EXCEPT !.at = "store", !.count = requests + 1]
            \in [at : Steps, count : Nat, first : BOOLEAN]
    BY <2>1
  <2>3. call' = [call EXCEPT ![c] = [call[c] EXCEPT !.at = "store", !.count = requests + 1]]
    OBVIOUS
  <2> QED BY <2>2, <2>3
<1>2. LockOK' BY DEF LockOK, Locked
<1>3. CountOK' BY DEF CountOK
<1>4. FirstOK' BY DEF FirstOK
<1>5. CountedOnce'
  <2>1. \A d \in Calls \ {c} : call[d].at # "store"
    BY DEF LockOK, Locked
  <2>2. \A d \in Calls \ {c} : call[d].count < requests + 1
    BY <2>1 DEF CountOK
  <2> QED BY <2>2 DEF CountedOnce
<1> QED BY <1>1, <1>2, <1>3, <1>4, <1>5

LEMMA StoreCall == ASSUME CallInv, NEW c \in Calls, Store(c) PROVE CallInv'
<1> USE DEF CallInv, CallTypes, Store, At
<1>1. CallTypes' BY DEF Steps, Locked
<1>2. LockOK' BY DEF LockOK, Locked
<1>3. CountOK'
  <2>1. requests' = requests + 1 BY DEF CountOK
  <2>2. \A d \in Calls \ {c} : call[d].at # "store" BY DEF LockOK, Locked
  <2> QED BY <2>1, <2>2 DEF CountOK
<1>4. FirstOK' BY DEF FirstOK
<1>5. CountedOnce' BY DEF CountedOnce
<1> QED BY <1>1, <1>2, <1>3, <1>4, <1>5

LEMMA SetEventCall == ASSUME CallInv, NEW c \in Calls, SetEvent(c) PROVE CallInv'
<1> USE DEF CallInv, CallTypes, SetEvent
<1>1. CallTypes' BY DEF Steps, Locked
<1>2. LockOK' BY DEF LockOK, Locked
<1>3. CountOK' BY DEF CountOK
<1>4. FirstOK'
  <2>1. \A d \in Calls : ~call[d].first BY DEF FirstOK
  <2>2. \A d \in Calls \ {c} : call[d].at \notin {"event", "timer"}
    BY <2>1 DEF LockOK, Locked, FirstOK
  <2> QED BY <2>1, <2>2 DEF FirstOK
<1>5. CountedOnce' BY DEF CountedOnce
<1> QED BY <1>1, <1>2, <1>3, <1>4, <1>5

LEMMA FreeCall == ASSUME CallInv, NEW c \in Calls, Free(c) PROVE CallInv'
<1> USE DEF CallInv, CallTypes, Free, At
<1>1. CallTypes' BY DEF Steps
<1>2. LockOK' BY DEF LockOK, Locked
<1>3. CountOK' BY DEF CountOK
<1>4. FirstOK' BY DEF FirstOK
<1>5. CountedOnce' BY DEF CountedOnce
<1> QED BY <1>1, <1>2, <1>3, <1>4, <1>5

(* A call that has let go of the lock moves on.                            *)
LEMMA MoveCall ==
    ASSUME CallInv, NEW c \in Calls, NEW to \in {"react", "done"},
           call[c].at \in {"timer", "react"} \/ (call[c].at = "idle" /\ to = "done"),
           call' = [call EXCEPT ![c].at = to], UNCHANGED <<setup, lock, flag, requests>>
    PROVE  CallInv'
<1> USE DEF CallInv, CallTypes
<1>1. CallTypes' BY DEF Steps
<1>2. LockOK' BY DEF LockOK, Locked
<1>3. CountOK' BY DEF CountOK
<1>4. FirstOK' BY DEF FirstOK
<1>5. CountedOnce' BY DEF CountedOnce
<1> QED BY <1>1, <1>2, <1>3, <1>4, <1>5

LEMMA EnterCall ==
    ASSUME CallInv, NEW c \in Calls, call[c].at = "idle",
           call' = [call EXCEPT ![c].at = "lock"], UNCHANGED <<setup, lock, flag, requests>>
    PROVE  CallInv'
<1> USE DEF CallInv, CallTypes
<1>1. CallTypes' BY DEF Steps
<1>2. LockOK' BY DEF LockOK, Locked
<1>3. CountOK' BY DEF CountOK
<1>4. FirstOK' BY DEF FirstOK
<1>5. CountedOnce' BY DEF CountedOnce
<1> QED BY <1>1, <1>2, <1>3, <1>4, <1>5

LEMMA SignalCall == CallInv /\ Signal => CallInv'
<1> SUFFICES ASSUME CallInv, Signal PROVE CallInv'
  OBVIOUS
<1>1. PICK c \in Handlers, s \in Signals :
          /\ call[c].at = "idle"
          /\ call' = [call EXCEPT ![c].at = IF s \in handled THEN "lock" ELSE "done"]
  BY DEF Signal
<1>2. c \in Calls /\ UNCHANGED <<setup, lock, flag, requests>> BY DEF Calls, Signal
<1>3. CASE s \in handled BY <1>1, <1>2, <1>3, EnterCall
<1>4. CASE s \notin handled BY <1>1, <1>2, <1>4, MoveCall
<1> QED BY <1>3, <1>4

LEMMA CallSetCall == CallInv /\ CallSet => CallInv'
BY EnterCall DEF CallSet, Calls

LEMMA CallStepCall == ASSUME CallInv, NEW c \in Calls, CallStep(c) PROVE CallInv'
<1>1. CASE StartTimer(c) BY <1>1, MoveCall DEF StartTimer, At
<1>2. CASE React(c) BY <1>2, MoveCall DEF React, At
<1> QED BY <1>1, <1>2, AcquireCall, CountCall, StoreCall, SetEventCall, FreeCall
        DEF CallStep

LEMMA MainFrame ==
    (MainStep \/ RunTask \/ Fails) => UNCHANGED setVars
BY DEF MainStep, RunTask, Fails, Install, Look, Take, TakeNothing, AckTask,
       WaitBegins, WaitEnds, Leave, Uninstall, Report, Goes

LEMMA NextCall == CallInv /\ [Next]_vars => CallInv'
<1> SUFFICES ASSUME CallInv, [Next]_vars PROVE CallInv'
  OBVIOUS
<1>1. CASE UNCHANGED setVars BY <1>1, CallFrame, SetupKept
<1>2. CASE UNCHANGED vars BY <1>2, CallFrame DEF vars
<1>3. (Tick \/ Expire \/ OnTimeout \/ Ended) => UNCHANGED setVars
  BY DEF Tick, Expire, OnTimeout, Ended, vars
<1> QED BY <1>1, <1>2, <1>3, MainFrame, CallStepCall, SignalCall, CallSetCall DEF Next

LEMMA SpecCall == Spec => []CallInv
BY InitCall, NextCall, PTL DEF Spec

(* Requests that come in from handlers and threads at once are counted     *)
(* once each (_request_count under _lock), so that exactly one of them is  *)
(* the first.                                                              *)
LEMMA RequestsCounted == Spec => []CountedOnce
<1>1. CallInv => CountedOnce BY DEF CallInv
<1> QED BY <1>1, SpecCall, PTL
-----------------------------------------------------------------------------
(* The timer                                                               *)

(* A step that touches neither timers nor event, and brings no first call  *)
(* to the start of the timer.                                              *)
LEMMA TimerFrame ==
    ASSUME TimerInv, UNCHANGED <<setup, timers, timer, since, flag>>,
           \A c \in Calls : (call'[c].first /\ call'[c].at \in {"free", "timer"})
               => (call[c].first /\ call[c].at \in {"free", "timer"})
    PROVE  TimerInv'
BY TimeoutKept DEF TimerInv

LEMMA CallStepTimer ==
    ASSUME CallInv, TimerInv, NEW c \in Calls, CallStep(c) PROVE TimerInv'
<1> USE DEF CallInv, CallTypes
<1>1. CASE Acquire(c)
  <2>1. call' = [call EXCEPT ![c].at = "count"] BY <1>1 DEF Acquire, At
  <2> QED BY <1>1, <2>1, TimerFrame DEF Acquire, At, timerVars
<1>2. CASE Count(c) BY <1>2, TimerFrame DEF Count, timerVars
<1>3. CASE Store(c)
  <2>1. ~call[c].first BY <1>3 DEF Store, At, FirstOK
  <2> QED BY <1>3, <2>1, TimerFrame DEF Store, At, timerVars
<1>4. CASE SetEvent(c)
  <2>1. ~flag BY <1>4 DEF SetEvent, FirstOK
  <2>2. UNCHANGED <<timers, timer, since>> /\ Len(timers) = 0
    BY <1>4, <2>1 DEF SetEvent, timerVars, TimerInv
  <2> QED BY <1>4, <2>2, TimeoutKept DEF TimerInv, SetEvent
<1>5. CASE Free(c)
  <2>1. call[c].at = "free" /\ call' = [call EXCEPT ![c].at = call'[c].at]
    BY <1>5 DEF Free, At
  <2>2. call'[c].first = call[c].first BY <2>1
  <2> QED BY <1>5, <2>1, <2>2, TimerFrame DEF Free, At, timerVars
<1>7. CASE React(c)
  <2>1. call' = [call EXCEPT ![c].at = "done"] BY <1>7 DEF React, At
  <2> QED BY <1>7, <2>1, TimerFrame DEF React, At, timerVars
<1>6. CASE StartTimer(c)
  <2>1. call[c].at = "timer" /\ call[c].first /\ Len(timers) = 0 /\ flag
        /\ call' = [call EXCEPT ![c].at = "react"] /\ UNCHANGED <<setup, since, flag>>
    BY <1>6 DEF StartTimer, At, FirstOK, TimerInv
  <2>2. \A d \in Calls : ~(call'[d].first /\ call'[d].at \in {"free", "timer"})
    BY <2>1 DEF FirstOK
  <2>3. CASE Timed(c)
    <3> DEFINE new == [st |-> "armed", clock |-> 0]
    <3>1. timers' = Append(timers, new) /\ timer' = Len(timers') BY <1>6, <2>3 DEF StartTimer
    <3>2. new \in Timer BY TimeoutType DEF Timer
    <3>3. timers' \in Seq(Timer) /\ Len(timers') = 1 /\ timers'[1] = new
      BY <2>1, <3>1, <3>2 DEF TimerInv
    <3>4. DOMAIN timers' = {1} BY <3>3
    <3> QED BY <2>1, <2>2, <2>3, <3>1, <3>3, <3>4, TimeoutKept DEF TimerInv, Timed
  <2>4. CASE ~Timed(c)
    <3>1. UNCHANGED <<timers, timer>> BY <1>6, <2>4 DEF StartTimer, timerVars
    <3> QED BY <2>1, <2>2, <3>1, TimeoutKept DEF TimerInv
  <2> QED BY <2>3, <2>4
<1> QED BY <1>1, <1>2, <1>3, <1>4, <1>5, <1>6, <1>7 DEF CallStep

(* Timers change in place.                                                 *)
LEMMA SameTimers ==
    ASSUME timers \in Seq(Timer), timers' \in [DOMAIN timers -> Timer]
    PROVE  /\ timers' \in Seq(Timer) /\ Len(timers') = Len(timers)
           /\ DOMAIN timers' = DOMAIN timers
<1>1. Len(timers) \in Nat /\ DOMAIN timers = 1 .. Len(timers) OBVIOUS
<1> QED BY <1>1

LEMMA TickTimer == CallInv /\ TimerInv /\ Tick => TimerInv'
<1> SUFFICES ASSUME CallInv, TimerInv, Tick PROVE TimerInv'
  OBVIOUS
<1> DEFINE new(k) == [timers[k] EXCEPT !.clock = IF @ < Timeout THEN @ + 1 ELSE @]
<1>1. flag /\ UNCHANGED <<setup, call, flag, timer>> BY DEF Tick, setVars
<1>2. timers \in Seq(Timer) /\ since \in 0 .. Timeout BY DEF TimerInv
<1>3. ASSUME NEW k \in DOMAIN timers
      PROVE  /\ new(k) \in Timer /\ new(k).st = timers[k].st
             /\ new(k).clock = IF timers[k].clock < Timeout THEN timers[k].clock + 1
                                                            ELSE timers[k].clock
  <2>1. timers[k] \in Timer BY <1>2
  <2>2. timers[k] \in [st : {"armed", "firing", "cancelled"}, clock : 0 .. Timeout]
    BY <2>1 DEF Timer
  <2>3. Timeout \in Nat BY TimeoutType DEF CallInv, CallTypes
  <2>4. timers[k].clock \in 0 .. Timeout BY <2>2
  <2> QED BY <2>2, <2>3, <2>4 DEF Timer
<1>4. timers' = [k \in DOMAIN timers |-> new(k)] BY DEF Tick
<1>5. timers' \in Seq(Timer) /\ Len(timers') = Len(timers)
      /\ DOMAIN timers' = DOMAIN timers
  BY <1>2, <1>3, <1>4, SameTimers
<1>6. \A k \in DOMAIN timers : timers'[k] = new(k) BY <1>4
<1>7. since' = (IF since < Timeout THEN since + 1 ELSE since) BY DEF Tick
<1>8. ASSUME NEW k \in DOMAIN timers
      PROVE  /\ timers'[k].st = "firing" => timers'[k].clock = Timeout
             /\ timers'[k].clock <= since'
  <2>1. timers[k] \in Timer /\ timers[k].clock <= since
        /\ (timers[k].st = "firing" => timers[k].clock = Timeout)
    BY <1>2 DEF TimerInv
  <2>2. timers[k].clock \in 0 .. Timeout BY <2>1 DEF Timer
  <2> HIDE DEF new
  <2> QED BY <1>2, <1>3, <1>6, <1>7, <2>1, <2>2
<1>9. \A k \in DOMAIN timers : timers'[k].st = timers[k].st BY <1>3, <1>6
<1>10. Timeout \in Nat /\ Timeout' = Timeout /\ Timer' = Timer
  BY <1>1, TimeoutType, TimeoutKept DEF CallInv, CallTypes
<1> HIDE DEF new
<1>11. since' \in 0 .. Timeout' BY <1>2, <1>7, <1>10
<1>12. timers' \in Seq(Timer') BY <1>5, <1>10
<1> QED BY <1>1, <1>5, <1>8, <1>9, <1>10, <1>11, <1>12 DEF TimerInv

LEMMA ExpireTimer == CallInv /\ TimerInv /\ Expire => TimerInv'
<1> SUFFICES ASSUME CallInv, TimerInv, Expire PROVE TimerInv'
  OBVIOUS
<1>1. PICK k \in DOMAIN timers :
          /\ timers[k].st = "armed" /\ timers[k].clock = Timeout
          /\ timers' = [timers EXCEPT ![k].st = "firing"]
  BY DEF Expire
<1>2. UNCHANGED <<setup, call, flag, timer, since>> BY DEF Expire, setVars
<1>3. timers \in Seq(Timer) BY DEF TimerInv
<1>3a. timers \in [1 .. Len(timers) -> Timer] /\ DOMAIN timers = 1 .. Len(timers)
  BY <1>3
<1>3b. timers'[k] = [timers[k] EXCEPT !.st = "firing"] BY <1>1, <1>3a, Zenon
<1>3c. \A j \in DOMAIN timers : j # k => timers'[j] = timers[j]
  BY <1>1, <1>3a, Zenon
<1>3d. timers[k] \in Timer BY <1>3a
<1>3e. timers'[k] \in Timer /\ timers'[k].clock = timers[k].clock
       /\ timers'[k].st = "firing"
  BY <1>3b, <1>3d DEF Timer
<1>4. \A j \in DOMAIN timers : timers'[j] \in Timer /\ timers'[j].clock = timers[j].clock
                              /\ (j # k => timers'[j] = timers[j])
  BY <1>3a, <1>3c, <1>3e
<1>5. timers' \in [DOMAIN timers -> Timer] BY <1>1, <1>4
<1>6. timers' \in Seq(Timer) /\ Len(timers') = Len(timers)
      /\ DOMAIN timers' = DOMAIN timers
  BY <1>3, <1>5, SameTimers
<1>7. timers'[k].st = "firing" BY <1>3e
<1> QED BY <1>1, <1>2, <1>4, <1>6, <1>7, TimeoutKept DEF TimerInv

LEMMA UninstallTimer == CallInv /\ TimerInv /\ Uninstall => TimerInv'
<1> SUFFICES ASSUME CallInv, TimerInv, Uninstall PROVE TimerInv'
  OBVIOUS
<1>1. UNCHANGED <<setup, call, flag, since>> BY DEF Uninstall, Goes, setVars
<1>2. CASE UNCHANGED timerVars BY <1>1, <1>2, TimerFrame DEF timerVars
<1>3. CASE timers' = CancelTimer /\ timer' = 0
  <2>1. timers \in Seq(Timer) BY DEF TimerInv
  <2>2. \A k \in DOMAIN timers : timers[k] \in Timer BY <2>1
  <2>3. \A k \in DOMAIN timers :
            /\ timers'[k] \in Timer /\ timers'[k].clock = timers[k].clock
            /\ timers'[k].st # "armed"
            /\ timers'[k].st = "firing" => timers[k].st = "firing"
    BY <1>3, <2>2 DEF CancelTimer, Timer, TimerInv
  <2>4. timers' \in [DOMAIN timers -> Timer] BY <1>3, <2>3 DEF CancelTimer
  <2>5. timers' \in Seq(Timer) /\ Len(timers') = Len(timers)
        /\ DOMAIN timers' = DOMAIN timers
    BY <2>1, <2>4, SameTimers
  <2> QED BY <1>1, <2>3, <2>5, TimeoutKept DEF TimerInv
<1> QED BY <1>2, <1>3 DEF Uninstall

LEMMA NextTimer == CallInv /\ TimerInv /\ [Next]_vars => TimerInv'
<1> SUFFICES ASSUME CallInv, TimerInv, [Next]_vars PROVE TimerInv'
  OBVIOUS
<1>1. CASE UNCHANGED vars BY <1>1, TimerFrame DEF vars, setVars, timerVars
<1>2. CASE Signal \/ CallSet
  <2>1. UNCHANGED <<setup, timers, timer, since, flag>> BY <1>2 DEF Signal, CallSet, timerVars
  <2>2. \E c \in Calls, to \in {"lock", "done"} : call' = [call EXCEPT ![c].at = to]
    <3>1. CASE Signal
      <4>1. PICK c \in Handlers, s \in Signals :
                call' = [call EXCEPT ![c].at = IF s \in handled THEN "lock" ELSE "done"]
        BY <3>1 DEF Signal
      <4>2. CASE s \in handled BY <4>1, <4>2 DEF Calls
      <4>3. CASE s \notin handled BY <4>1, <4>3 DEF Calls
      <4> QED BY <4>2, <4>3
    <3>2. CASE CallSet BY <3>2 DEF CallSet, Calls
    <3> QED BY <1>2, <3>1, <3>2
  <2> QED BY <2>1, <2>2, TimerFrame DEF CallInv, CallTypes
<1>3. CASE OnTimeout \/ Ended
  BY <1>3, TimerFrame DEF OnTimeout, Ended, vars, setVars, timerVars
<1>4. CASE Install \/ Look \/ Take \/ TakeNothing \/ AckTask \/ WaitBegins
           \/ WaitEnds \/ Leave \/ Report \/ RunTask \/ Fails
  BY <1>4, TimerFrame DEF Install, Look, Take, TakeNothing, AckTask, WaitBegins,
     WaitEnds, Leave, Report, RunTask, Fails, Goes, setVars, timerVars
<1> QED BY <1>1, <1>2, <1>3, <1>4, CallStepTimer, TickTimer, ExpireTimer,
           UninstallTimer DEF Next, MainStep

LEMMA SpecTimer == Spec => []TimerInv
BY InitRest, SpecCall, NextTimer, PTL DEF Spec

(* However many handlers and threads ask at once one timer is started, and *)
(* as long as it is armed it is the one uninstall cancels (_start_timer).  *)
THEOREM TimerAlone == Spec => []OneTimer
<1>1. CallInv /\ TimerInv => OneTimer BY DEF CallInv, TimerInv, OneTimer
<1> QED BY <1>1, SpecCall, SpecTimer, PTL

-----------------------------------------------------------------------------
(* The exit                                                                *)

LEMMA NextExit ==
    CallInv /\ TimerInv /\ ForcedOnDemand /\ [Next]_vars => ForcedOnDemand'
<1> SUFFICES ASSUME CallInv, TimerInv, ForcedOnDemand, [Next]_vars
             PROVE  ForcedOnDemand'
  OBVIOUS
<1> USE DEF CallInv, CallTypes
<1>1. since \in 0 .. Timeout BY DEF TimerInv
<1>2. CASE UNCHANGED exit
  <2>1. requests' >= requests
    <3>1. \A c \in Calls : Store(c) => requests' = requests + 1
      BY DEF Store, At, CountOK
    <3>2. UNCHANGED requests \/ \E c \in Calls : Store(c)
      BY MainFrame DEF Next, vars, CallStep, Acquire, Count, SetEvent, Free, StartTimer,
         React, Signal, CallSet, Tick, Expire, OnTimeout, Ended, setVars
    <3> QED BY <3>1, <3>2
  <2>2. since' >= since
    <3>1. Tick => since' >= since BY <1>1 DEF Tick
    <3>2. UNCHANGED since \/ Tick
      BY DEF Next, vars, CallStep, Acquire, Count, Store, SetEvent, Free, StartTimer,
         React, Signal, CallSet, Expire, OnTimeout, Ended, MainStep, Install,
         Look, Take, TakeNothing, AckTask, WaitBegins, WaitEnds, Leave, Uninstall,
         Report, RunTask, Fails
    <3> QED BY <1>1, <3>1, <3>2
  <2>3. requests \in Nat /\ requests' \in Nat BY NextCall
  <2>4. since' \in 0 .. Timeout BY NextTimer, SetupKept, TimeoutKept DEF TimerInv
  <2> QED BY <1>1, <1>2, <2>1, <2>2, <2>3, <2>4, SetupKept, TimeoutKept, TimeoutType DEF ForcedOnDemand
<1>3. ASSUME NEW c \in Calls, React(c), exit' # exit PROVE ForcedOnDemand'
  <2>1. Forces(c) /\ exit' = "forced" /\ UNCHANGED requests BY <1>3 DEF React
  <2>2. call[c].count > 0 /\ call[c].count <= requests /\ call[c].count \in Nat
    BY <1>3 DEF React, At, CountOK
  <2>3. ForceOnRepeat /\ ForceOnRepeat'
    BY <1>3, <2>1, TimeoutKept DEF Forces, React, At
  <2> QED BY <2>1, <2>2, <2>3 DEF Forces, ForcedOnDemand
<1>4. CASE OnTimeout
  <2>1. PICK k \in DOMAIN timers : timers[k].st = "firing" BY <1>4 DEF OnTimeout
  <2>2. Len(timers) > 0 BY <2>1 DEF TimerInv
  <2>3. exit' = "timeout" /\ since' = since BY <1>4 DEF OnTimeout
  <2> QED BY <1>1, <2>1, <2>2, <2>3, SetupKept, TimeoutKept DEF TimerInv, ForcedOnDemand
<1>5. CASE Signal /\ exit' # exit BY <1>5 DEF Signal, ForcedOnDemand
<1>6. CASE Report BY <1>6 DEF Report, ForcedOnDemand
<1>7. UNCHANGED exit \/ OnTimeout \/ (Signal /\ exit' # exit) \/ Report
      \/ \E c \in Calls : React(c) /\ exit' # exit
  BY DEF Next, vars, CallStep, Acquire, Count, Store, SetEvent, Free, StartTimer,
     CallSet, Tick, Expire, Ended, MainStep, Install, Look, Take, TakeNothing,
     AckTask, WaitBegins, WaitEnds, Leave, Uninstall, RunTask, Fails
<1> QED BY <1>2, <1>3, <1>4, <1>5, <1>6, <1>7

(* A forced exit follows a second request, one on the timeout the whole    *)
(* timeout after the event was set (_handle_signal, _on_timeout).          *)
THEOREM TasksLeftOnDemand == Spec => []ForcedOnDemand
BY InitRest, SpecCall, SpecTimer, NextExit, PTL DEF Spec

-----------------------------------------------------------------------------
(* The loop                                                                *)

LEMMA NextLate == CallInv /\ LateInv /\ [Next]_vars => LateInv'
<1> SUFFICES ASSUME CallInv, LateInv, [Next]_vars PROVE LateInv'
  OBVIOUS
<1>1. flag => flag'
  <2>1. flag' = flag \/ \E c \in Calls : SetEvent(c)
    BY MainFrame DEF Next, vars, CallStep, Acquire, Count, Store, Free, StartTimer,
       React, Signal, CallSet, Tick, Expire, OnTimeout, Ended, setVars
  <2> QED BY <2>1 DEF SetEvent
<1>2. CASE Take BY <1>1, <1>2 DEF Take, Goes, LateInv
<1>3. CASE Look BY <1>1, <1>3 DEF Look, Goes, Stopped, LateInv, workVars
<1>4. CASE UNCHANGED late /\ (main' = main \/ main' # "receive")
  BY <1>1, <1>4 DEF LateInv
<1>5. CASE ~Take /\ ~Look
  <2>1. UNCHANGED late /\ (main' = main \/ main' # "receive")
    BY <1>5 DEF Next, vars, CallStep, Acquire, Count, Store, SetEvent, Free, StartTimer,
       React, Signal, CallSet, Tick, Expire, OnTimeout, Ended, MainStep, Install,
       TakeNothing, AckTask, WaitBegins, WaitEnds, Leave, Uninstall, Report,
       RunTask, Fails, Goes, workVars
  <2> QED BY <1>4, <2>1
<1> QED BY <1>2, <1>3, <1>5

(* A worker that was asked to stop runs at most the one task whose message *)
(* it was about to read, whatever else is queued (_process_tasks).         *)
THEOREM OneMoreTask == Spec => []OneMoreAtMost
<1>1. Spec => []LateInv BY InitRest, SpecCall, NextLate, PTL DEF Spec
<1>2. LateInv => OneMoreAtMost BY DEF LateInv, OneMoreAtMost
<1> QED BY <1>1, <1>2, PTL
-----------------------------------------------------------------------------
(* After the with-block                                                    *)

(* Once uninstall has restored the handlers none runs and none starts, and *)
(* a timer is only ever started by the call that set the event.            *)
BlockInv ==
    /\ main \in {"cancel", "report"} => handled = {} /\ stack = <<>>
    /\ ~Graceful => /\ handled = {} /\ stack = <<>>
                    /\ main \notin {"enter", "restore", "cancel"}
                    /\ \A c \in Handlers : ~call[c].first
    /\ Len(timers) > 0 => \E c \in Calls : call[c].first

LEMMA InitBlock == Init => BlockInv /\ NoTimerLeft
<1> SUFFICES ASSUME Init PROVE BlockInv /\ NoTimerLeft
  OBVIOUS
<1>1. timers = <<>> /\ Len(timers) = 0 /\ DOMAIN timers = {} BY DEF Init
<1>2. \A c \in Handlers : ~call[c].first BY DEF Init, Calls
<1>3. main \in {"enter", "look"} /\ (~Graceful => main = "look") BY DEF Init
<1>4. handled = {} /\ stack = <<>> BY DEF Init
<1>5. BlockInv BY <1>1, <1>2, <1>3, <1>4 DEF BlockInv
<1>6. NoTimerLeft BY <1>3 DEF NoTimerLeft
<1> QED BY <1>5, <1>6

(* The call that set the event says so for ever.                           *)
LEMMA FirstStays ==
    CallInv /\ [Next]_vars => \A c \in Calls : call[c].first => call'[c].first
<1> SUFFICES ASSUME CallInv, [Next]_vars, NEW c \in Calls, call[c].first
             PROVE  call'[c].first
  OBVIOUS
<1> USE DEF CallInv, CallTypes
<1>1. ASSUME NEW d \in Calls, CallStep(d) PROVE call'[c].first
  <2>1. CASE SetEvent(d) BY <2>1 DEF SetEvent
  <2>2. CASE Count(d) BY <2>2 DEF Count
  <2>3. CASE ~SetEvent(d) /\ ~Count(d)
    <3>1. CASE Acquire(d) BY <3>1 DEF Acquire, At
    <3>2. CASE Store(d) BY <3>2 DEF Store, At
    <3>3. CASE Free(d) BY <3>3 DEF Free, At
    <3>4. CASE StartTimer(d) BY <3>4 DEF StartTimer, At
    <3>5. CASE React(d) BY <3>5 DEF React, At
    <3> QED BY <1>1, <2>3, <3>1, <3>2, <3>3, <3>4, <3>5 DEF CallStep
  <2> QED BY <2>1, <2>2, <2>3
<1>2. CASE Signal BY <1>2 DEF Signal, Calls
<1>3. CASE CallSet BY <1>3 DEF CallSet, Calls
<1>4. UNCHANGED call \/ Signal \/ CallSet \/ \E d \in Calls : CallStep(d)
  BY MainFrame DEF Next, vars, Tick, Expire, OnTimeout, Ended, setVars
<1> QED BY <1>1, <1>2, <1>3, <1>4

(* Only set() itself says that it set the event.                           *)
LEMMA FirstIsNew ==
    ASSUME CallInv, [Next]_vars, NEW c \in Calls, call'[c].first, ~call[c].first
    PROVE  SetEvent(c)
<1> USE DEF CallInv, CallTypes
<1>1. ASSUME NEW d \in Calls, CallStep(d) PROVE SetEvent(c)
  BY <1>1 DEF CallStep, Acquire, Count, Store, SetEvent, Free, StartTimer, React, At
<1>2. ~Signal BY DEF Signal, Calls
<1>3. ~CallSet BY DEF CallSet, Calls
<1>4. UNCHANGED call \/ Signal \/ CallSet \/ \E d \in Calls : CallStep(d)
  BY MainFrame DEF Next, vars, Tick, Expire, OnTimeout, Ended, setVars
<1> QED BY <1>1, <1>2, <1>3, <1>4

(* No step but StartTimer adds a timer; it is for the first call.          *)
LEMMA StartTimerOnly ==
    CallInv /\ TimerInv /\ [Next]_vars
        => Len(timers') = Len(timers) \/ \E c \in Calls : StartTimer(c)
<1> SUFFICES ASSUME CallInv, TimerInv, [Next]_vars, ~\E c \in Calls : StartTimer(c)
             PROVE  Len(timers') = Len(timers)
  OBVIOUS
<1>1. timers \in Seq(Timer) BY DEF TimerInv
<1>2. Len(timers) \in Nat /\ DOMAIN timers = 1 .. Len(timers) BY <1>1
<1>3. CASE DOMAIN timers' = DOMAIN timers
  <2>1. timers' \in Seq(Timer') BY NextTimer DEF TimerInv
  <2> QED BY <1>2, <1>3, <2>1
<1>4. UNCHANGED timers \/ Tick \/ Expire \/ timers' = CancelTimer
  BY DEF Next, vars, CallStep, Acquire, Count, Store, SetEvent, Free, React, Signal,
     CallSet, OnTimeout, Ended, MainStep, Install, Look, Take, TakeNothing, AckTask,
     WaitBegins, WaitEnds, Leave, Uninstall, Report, RunTask, Fails, timerVars
<1> QED BY <1>2, <1>3, <1>4 DEF Tick, Expire, CancelTimer

LEMMA HandlersQuiet ==
    BlockInv /\ [Next]_vars
        => /\ main' \in {"cancel", "report"} => handled' = {} /\ stack' = <<>>
           /\ ~Graceful' => /\ handled' = {} /\ stack' = <<>>
                            /\ main' \notin {"enter", "restore", "cancel"}
<1> SUFFICES ASSUME BlockInv, [Next]_vars
             PROVE  /\ main' \in {"cancel", "report"} => handled' = {} /\ stack' = <<>>
                    /\ ~Graceful' => /\ handled' = {} /\ stack' = <<>>
                                     /\ main' \notin {"enter", "restore", "cancel"}
  OBVIOUS
<1>1. Graceful' = Graceful BY SetupKept DEF Graceful
<1> USE DEF BlockInv
<1>2. CASE MainStep \/ RunTask \/ Fails
  <2>1. CASE Install BY <1>1, <2>1 DEF Install, Goes
  <2>2. CASE Uninstall BY <1>1, <2>2 DEF Uninstall, Goes
  <2>3. CASE Leave BY <1>1, <2>3 DEF Leave, Goes
  <2>4. CASE Report BY <1>1, <2>4 DEF Report, Goes
  <2>5. CASE Look \/ Take \/ TakeNothing \/ AckTask \/ WaitBegins \/ WaitEnds
             \/ RunTask \/ Fails
    <3>1. UNCHANGED <<handled, stack>>
          /\ main' \notin {"enter", "restore", "cancel", "report"}
      BY <2>5 DEF Look, Take, TakeNothing, AckTask, WaitBegins, WaitEnds,
         RunTask, Fails, Goes
    <3> QED BY <1>1, <3>1
  <2> QED BY <1>2, <2>1, <2>2, <2>3, <2>4, <2>5 DEF MainStep
<1>3. ASSUME NEW c \in Calls, CallStep(c) PROVE UNCHANGED <<handled, main>>
  BY <1>3 DEF CallStep, Acquire, Count, Store, SetEvent, Free, StartTimer, React
<1>4. ASSUME NEW c \in Calls, CallStep(c), stack = <<>> PROVE stack' = <<>>
  <2>1. c \in Callers \/ ~Runs(c) BY <1>4 DEF Runs
  <2>2. c \notin Handlers \/ ~React(c)
    BY <2>1, ShutdownAssumption DEF React, At
  <2> QED BY <1>4, <2>2 DEF CallStep, Acquire, Count, Store, SetEvent, Free, StartTimer,
          React
<1>5. CASE Signal
  <2>1. UNCHANGED <<handled, main>> /\ (handled = {} => UNCHANGED stack)
    BY <1>5 DEF Signal
  <2> QED BY <1>1, <2>1
<1>6. UNCHANGED <<handled, stack, main>> \/ MainStep \/ RunTask \/ Fails \/ Signal
      \/ \E c \in Calls : CallStep(c)
  BY DEF Next, vars, CallSet, Tick, Expire, OnTimeout, Ended
<1>7. CASE UNCHANGED <<handled, stack, main>> BY <1>1, <1>7
<1>8. ASSUME NEW c \in Calls, CallStep(c)
      PROVE  /\ main' \in {"cancel", "report"} => handled' = {} /\ stack' = <<>>
             /\ ~Graceful => /\ handled' = {} /\ stack' = <<>>
                             /\ main' \notin {"enter", "restore", "cancel"}
  <2>1. UNCHANGED <<handled, main>> BY <1>3, <1>8
  <2>2. stack = <<>> => stack' = <<>> BY <1>4, <1>8
  <2> QED BY <2>1, <2>2
<1> QED BY <1>1, <1>2, <1>5, <1>6, <1>7, <1>8

LEMMA NextBlock == CallInv /\ TimerInv /\ BlockInv /\ [Next]_vars => BlockInv'
<1> SUFFICES ASSUME CallInv, TimerInv, BlockInv, [Next]_vars PROVE BlockInv'
  OBVIOUS
<1>1. ASSUME ~Graceful', NEW c \in Handlers PROVE ~call'[c].first
  <2>1. ~Graceful BY <1>1, SetupKept DEF Graceful
  <2>2. c \in Calls /\ ~call[c].first /\ stack = <<>> BY <2>1 DEF Calls, BlockInv
  <2>3. ~SetEvent(c) BY <2>2, ShutdownAssumption DEF SetEvent, Runs
  <2> QED BY <2>2, <2>3, FirstIsNew
<1>2. ASSUME Len(timers') > 0 PROVE \E c \in Calls : call'[c].first
  <2>1. CASE Len(timers') = Len(timers) BY <1>2, <2>1, FirstStays DEF BlockInv
  <2>2. ASSUME NEW c \in Calls, StartTimer(c) PROVE call[c].first
    BY <2>2 DEF StartTimer, At, CallInv, FirstOK
  <2> QED BY <2>1, <2>2, FirstStays, StartTimerOnly
<1> QED BY <1>1, <1>2, HandlersQuiet DEF BlockInv

LEMMA NextLeft ==
    CallInv /\ TimerInv /\ BlockInv /\ NoTimerLeft /\ [Next]_vars => NoTimerLeft'
<1> SUFFICES ASSUME CallInv, TimerInv, BlockInv, NoTimerLeft, [Next]_vars,
                    main' = "report", \A c \in Callers : ~call'[c].first
             PROVE  \A k \in DOMAIN timers' : timers'[k].st # "armed"
  BY DEF NoTimerLeft
<1>1. \A c \in Callers : ~call[c].first BY FirstStays DEF Calls
<1>2. timers \in Seq(Timer) BY DEF TimerInv
<1>3. CASE Uninstall
  <2>1. timers' = CancelTimer BY <1>3 DEF Uninstall, Goes
  <2>2. \A k \in DOMAIN timers : timers[k].st = "armed" => timer = k BY DEF TimerInv
  <2>3. \A k \in DOMAIN timers : timers[k] \in Timer BY <1>2
  <2> QED BY <2>1, <2>2, <2>3 DEF CancelTimer, Timer
<1>4. CASE Leave
  <2>1. ~Graceful /\ UNCHANGED timers BY <1>4 DEF Leave, Goes, timerVars
  <2>2. \A c \in Calls : ~call[c].first BY <1>1, <2>1 DEF BlockInv, Calls
  <2>3. Len(timers) = 0 BY <1>2, <2>2 DEF BlockInv
  <2> QED BY <1>2, <2>1, <2>3
<1>5. CASE main = "report" /\ ~Uninstall /\ ~Leave
  <2>1. \A k \in DOMAIN timers : timers[k].st # "armed" BY <1>1, <1>5 DEF NoTimerLeft
  <2>2. ASSUME NEW c \in Calls PROVE ~StartTimer(c)
    <3>1. stack = <<>> BY <1>5 DEF BlockInv
    <3>2. c \in Callers => ~StartTimer(c) BY <1>1 DEF StartTimer, At, CallInv, FirstOK
    <3> QED BY <3>1, <3>2 DEF StartTimer, At, Runs
  <2>3. UNCHANGED timers \/ Tick \/ Expire
    BY <1>5, <2>2 DEF Next, vars, CallStep, Acquire, Count, Store, SetEvent, Free, React,
       Signal, CallSet, OnTimeout, Ended, MainStep, Install, Look, Take, TakeNothing,
       AckTask, WaitBegins, WaitEnds, Report, RunTask, Fails, timerVars
  <2>4. CASE Expire BY <2>1, <2>4 DEF Expire
  <2>5. CASE Tick
    <3>1. \A k \in DOMAIN timers : timers[k] \in Timer BY <1>2
    <3>2. \A k \in DOMAIN timers' : k \in DOMAIN timers /\ timers'[k].st = timers[k].st
      BY <2>5, <3>1 DEF Tick, Timer
    <3> QED BY <2>1, <3>2
  <2> QED BY <2>1, <2>3, <2>4, <2>5
<1>6. main = "report" \/ Uninstall \/ Leave
  BY DEF Next, vars, CallStep, Acquire, Count, Store, SetEvent, Free, StartTimer,
     React, Signal, CallSet, Tick, Expire, OnTimeout, Ended, MainStep, Install,
     Look, Take, TakeNothing, AckTask, WaitBegins, WaitEnds, Report, RunTask, Fails, Goes
<1> QED BY <1>3, <1>4, <1>5, <1>6

(* The timer of a signal is never armed behind the with-block: uninstall   *)
(* restores the handlers before it cancels, so that a signal in between    *)
(* either arms the timer it cancels or ends the process (uninstall).       *)
THEOREM NoTimerIsLeft == Spec => []NoTimerLeft
<1>1. Spec => []BlockInv BY InitBlock, SpecCall, SpecTimer, NextBlock, PTL DEF Spec
<1> QED BY <1>1, InitBlock, SpecCall, SpecTimer, NextLeft, PTL DEF Spec

-----------------------------------------------------------------------------
(* Types and bounds                                                        *)

(* The calls that were counted.                                            *)
Counted == {c \in Calls : call[c].count > 0 /\ call[c].at # "store"}

(* A handler is inside at most one call at a time, and no request is       *)
(* counted twice; a task that is run was in the queue.                     *)
BoundInv ==
    /\ main \in Places /\ exit \in Exits
    /\ handled \subseteq Signals
    /\ eventLock = IF main \in {"check", "woken"} THEN Main ELSE None
    /\ stack \in Seq(Handlers)
    /\ \A i, j \in DOMAIN stack : i # j => stack[i] # stack[j]
    /\ \A i \in DOMAIN stack : call[stack[i]].at \notin {"idle", "done"}
    /\ lock # None => call[lock].at \in Locked
    /\ requests = Cardinality(Counted)
    /\ timer \in 0 .. Len(timers)
    /\ tasks \in Nat /\ tasks + late <= MaxTasks

LEMMA InitBound == Init => BoundInv
<1> SUFFICES ASSUME Init PROVE BoundInv
  OBVIOUS
<1>1. \A c \in Calls : ~(call[c].count > 0) BY DEF Init
<1>2. Counted = {} BY <1>1 DEF Counted
<1>3. Cardinality(Counted) = 0 BY <1>2, FS_EmptySet
<1>4. stack \in Seq(Handlers) /\ DOMAIN stack = {} /\ Len(timers) = 0 BY DEF Init
<1> QED BY <1>3, <1>4, ShutdownAssumption DEF Init, BoundInv, Places, Exits

LEMMA MainBound ==
    BoundInv /\ LateInv /\ [Next]_vars
        => /\ main' \in Places /\ exit' \in Exits
           /\ handled' \subseteq Signals
           /\ eventLock' = IF main' \in {"check", "woken"} THEN Main ELSE None
           /\ tasks' \in Nat /\ tasks' + late' <= MaxTasks
<1> SUFFICES ASSUME BoundInv, LateInv, [Next]_vars
             PROVE  /\ main' \in Places /\ exit' \in Exits
                    /\ handled' \subseteq Signals
                    /\ eventLock' = IF main' \in {"check", "woken"} THEN Main ELSE None
                    /\ tasks' \in Nat /\ tasks' + late' <= MaxTasks
  OBVIOUS
<1>1. main' \in Places
  <2>1. UNCHANGED main \/ MainStep \/ RunTask \/ Fails
    BY DEF Next, vars, CallStep, Acquire, Count, Store, SetEvent, Free, StartTimer,
       React, Signal, CallSet, Tick, Expire, OnTimeout, Ended
  <2> QED BY <2>1 DEF MainStep, RunTask, Fails, Install, Look, Take, TakeNothing,
          AckTask, WaitBegins, WaitEnds, Leave, Uninstall, Report, Goes, BoundInv, Places
<1>2. exit' \in Exits
  BY DEF Next, vars, CallStep, Acquire, Count, Store, SetEvent, Free, StartTimer,
     React, Signal, CallSet, Tick, Expire, OnTimeout, Ended, MainStep, RunTask, Fails,
     Install, Look, Take, TakeNothing, AckTask, WaitBegins, WaitEnds, Leave,
     Uninstall, Report, BoundInv, Exits
<1>3. handled' \subseteq Signals
  <2>1. UNCHANGED handled \/ Install \/ Uninstall
    BY DEF Next, vars, CallStep, Acquire, Count, Store, SetEvent, Free, StartTimer,
       React, Signal, CallSet, Tick, Expire, OnTimeout, Ended, MainStep, RunTask, Fails,
       Look, Take, TakeNothing, AckTask, WaitBegins, WaitEnds, Leave, Report
  <2> QED BY <2>1 DEF Install, Uninstall, BoundInv
<1>4. eventLock' = IF main' \in {"check", "woken"} THEN Main ELSE None
  <2>1. UNCHANGED <<eventLock, main>> \/ MainStep \/ RunTask \/ Fails
    BY DEF Next, vars, CallStep, Acquire, Count, Store, SetEvent, Free, StartTimer,
       React, Signal, CallSet, Tick, Expire, OnTimeout, Ended
  <2>2. CASE WaitBegins BY <2>2 DEF WaitBegins, Goes
  <2>3. CASE WaitEnds BY <2>3 DEF WaitEnds, Goes
  <2>4. CASE RunTask \/ Fails \/ (MainStep /\ ~WaitBegins /\ ~WaitEnds)
    <3>1. UNCHANGED eventLock /\ main \notin {"check", "woken"}
          /\ main' \notin {"check", "woken"}
      BY <2>4 DEF MainStep, RunTask, Fails, Install, Look, Take, TakeNothing,
         AckTask, Leave, Uninstall, Report, Goes
    <3> QED BY <3>1 DEF BoundInv
  <2> QED BY <2>1, <2>2, <2>3, <2>4 DEF BoundInv
<1>5. tasks' \in Nat /\ tasks' + late' <= MaxTasks
  <2>1. UNCHANGED workVars \/ Take
    BY DEF Next, vars, CallStep, Acquire, Count, Store, SetEvent, Free, StartTimer,
       React, Signal, CallSet, Tick, Expire, OnTimeout, Ended, MainStep, RunTask, Fails,
       Install, Look, TakeNothing, AckTask, WaitBegins, WaitEnds, Leave, Uninstall,
       Report
  <2>2. tasks \in Nat /\ tasks + late <= MaxTasks /\ late \in Nat
    BY DEF BoundInv, LateInv
  <2> QED BY <2>1, <2>2, ShutdownAssumption DEF workVars, Take
<1> QED BY <1>1, <1>2, <1>3, <1>4, <1>5

(* A handler is put on the stack when its signal arrives and taken off     *)
(* when it returns.                                                        *)
StackOK ==
    /\ stack \in Seq(Handlers)
    /\ \A i, j \in DOMAIN stack : i # j => stack[i] # stack[j]
    /\ \A i \in DOMAIN stack : call[stack[i]].at \notin {"idle", "done"}

LEMMA StackBound == CallInv /\ StackOK /\ [Next]_vars => StackOK'
<1> SUFFICES ASSUME CallInv, StackOK, [Next]_vars PROVE StackOK'
  OBVIOUS
<1> USE DEF CallInv, CallTypes
<1>1. stack \in Seq(Handlers) /\ DOMAIN stack = 1 .. Len(stack) /\ Len(stack) \in Nat
  BY DEF StackOK
<1>1a. \A i \in DOMAIN stack : stack[i] \in Handlers BY <1>1
<1>2. CASE UNCHANGED <<stack, call>> BY <1>2 DEF StackOK
<1>3. ASSUME NEW c \in Calls, CallStep(c), ~React(c) PROVE StackOK'
  <2>1. UNCHANGED stack /\ call'[c].at \notin {"idle", "done"}
        /\ \A d \in Calls \ {c} : call'[d] = call[d]
    <3>1. CASE Acquire(c) BY <3>1 DEF Acquire, At
    <3>2. CASE Count(c) BY <3>2 DEF Count
    <3>3. CASE Store(c) BY <3>3 DEF Store, At
    <3>4. CASE SetEvent(c) BY <3>4 DEF SetEvent
    <3>5. CASE Free(c) BY <3>5 DEF Free, At
    <3>6. CASE StartTimer(c) BY <3>6 DEF StartTimer, At
    <3> QED BY <1>3, <3>1, <3>2, <3>3, <3>4, <3>5, <3>6 DEF CallStep
  <2> QED BY <1>1a, <2>1 DEF StackOK, Calls
<1>4. ASSUME NEW c \in Calls, React(c) PROVE StackOK'
  <2>1. call' = [call EXCEPT ![c].at = "done"] /\ Runs(c) BY <1>4 DEF React, At
  <2>2. CASE c \in Handlers
    <3>1. stack # <<>> /\ stack[Len(stack)] = c
      BY <2>1, <2>2, ShutdownAssumption DEF Runs
    <3>2. stack' = SubSeq(stack, 1, Len(stack) - 1) BY <1>4, <2>2 DEF React
    <3>3. Len(stack) > 0 BY <1>1, <3>1
    <3>4. stack' \in Seq(Handlers) /\ DOMAIN stack' = 1 .. Len(stack) - 1
          /\ \A i \in 1 .. Len(stack) - 1 : stack'[i] = stack[i]
      BY <1>1, <3>2, <3>3
    <3>5. \A i \in 1 .. Len(stack) - 1 : stack[i] # c /\ i \in DOMAIN stack
      BY <1>1, <3>1, <3>3 DEF StackOK
    <3>6. \A i \in 1 .. Len(stack) - 1 : call'[stack[i]] = call[stack[i]]
      BY <1>1a, <2>1, <3>5 DEF Calls
    <3> QED BY <3>4, <3>5, <3>6 DEF StackOK
  <2>3. CASE c \notin Handlers
    <3>1. UNCHANGED stack BY <1>4, <2>3 DEF React
    <3>2. \A i \in DOMAIN stack : call'[stack[i]] = call[stack[i]]
      BY <1>1a, <2>1, <2>3 DEF Calls
    <3> QED BY <3>1, <3>2 DEF StackOK
  <2> QED BY <2>2, <2>3
<1>5. CASE Signal
  <2>1. PICK c \in Handlers, s \in Signals :
            /\ call[c].at = "idle"
            /\ call' = [call EXCEPT ![c].at = IF s \in handled THEN "lock" ELSE "done"]
            /\ IF s \in handled THEN stack' = Append(stack, c) ELSE UNCHANGED stack
    BY <1>5 DEF Signal
  <2>2. \A i \in DOMAIN stack : stack[i] # c /\ call'[stack[i]] = call[stack[i]]
    BY <1>1a, <2>1 DEF Calls, StackOK
  <2>3. CASE s \in handled
    <3>1. stack' = Append(stack, c) BY <2>1, <2>3
    <3>2. stack' \in Seq(Handlers) /\ DOMAIN stack' = 1 .. Len(stack) + 1
          /\ (\A i \in DOMAIN stack : stack'[i] = stack[i])
          /\ stack'[Len(stack) + 1] = c
      BY <1>1, <3>1
    <3>3. \A i \in DOMAIN stack' : i \in DOMAIN stack \/ i = Len(stack) + 1
      BY <1>1, <3>2
    <3>4. call'[c].at = "lock" BY <2>1, <2>3 DEF Calls
    <3> QED BY <2>2, <3>2, <3>3, <3>4 DEF StackOK
  <2>4. CASE s \notin handled BY <2>1, <2>2, <2>4 DEF StackOK
  <2> QED BY <2>3, <2>4
<1>6. CASE CallSet
  <2>1. PICK c \in Callers : call' = [call EXCEPT ![c].at = "lock"] BY <1>6 DEF CallSet
  <2>2. UNCHANGED stack BY <1>6 DEF CallSet
  <2>3. \A i \in DOMAIN stack : call'[stack[i]] = call[stack[i]]
    BY <1>1a, <2>1, ShutdownAssumption DEF Calls
  <2> QED BY <2>2, <2>3 DEF StackOK
<1>7. UNCHANGED <<stack, call>> \/ Signal \/ CallSet \/ \E c \in Calls : CallStep(c)
  BY MainFrame DEF Next, vars, Tick, Expire, OnTimeout, Ended, setVars, MainStep,
     RunTask, Fails, Install, Look, Take, TakeNothing, AckTask, WaitBegins, WaitEnds,
     Leave, Uninstall, Report, Goes
<1> QED BY <1>2, <1>3, <1>4, <1>5, <1>6, <1>7

LEMMA LockBound ==
    CallInv /\ (lock # None => call[lock].at \in Locked) /\ [Next]_vars
        => (lock' # None => call'[lock'].at \in Locked)
<1> SUFFICES ASSUME CallInv, lock # None => call[lock].at \in Locked, [Next]_vars,
                    lock' # None
             PROVE  call'[lock'].at \in Locked
  OBVIOUS
<1> USE DEF CallInv, CallTypes, Locked
<1>1. CASE UNCHANGED <<lock, call>> BY <1>1
<1>2. CASE Signal BY <1>2 DEF Signal, Calls
<1>3. CASE CallSet BY <1>3 DEF CallSet, Calls
<1>4. ASSUME NEW c \in Calls, CallStep(c) PROVE call'[lock'].at \in Locked
  <2>1. CASE Acquire(c) BY <2>1 DEF Acquire, At
  <2>2. CASE Count(c) BY <2>2 DEF Count
  <2>3. CASE Store(c) BY <2>3 DEF Store, At
  <2>4. CASE SetEvent(c) BY <2>4 DEF SetEvent
  <2>5. CASE Free(c) BY <2>5 DEF Free, At
  <2>6. CASE StartTimer(c) BY <2>6 DEF StartTimer, At
  <2>7. CASE React(c) BY <2>7 DEF React, At
  <2> QED BY <1>4, <2>1, <2>2, <2>3, <2>4, <2>5, <2>6, <2>7 DEF CallStep
<1>5. UNCHANGED <<lock, call>> \/ Signal \/ CallSet \/ \E c \in Calls : CallStep(c)
  BY MainFrame DEF Next, vars, Tick, Expire, OnTimeout, Ended, setVars
<1> QED BY <1>1, <1>2, <1>3, <1>4, <1>5

(* The call that stores the count is the only one that is new to it.       *)
LEMMA CountedBound ==
    CallInv /\ requests = Cardinality(Counted) /\ [Next]_vars
        => requests' = Cardinality(Counted')
<1> SUFFICES ASSUME CallInv, requests = Cardinality(Counted), [Next]_vars
             PROVE  requests' = Cardinality(Counted')
  OBVIOUS
<1> USE DEF CallInv, CallTypes
<1>1. IsFiniteSet(Counted) BY ShutdownAssumption, FS_Subset DEF Counted
<1>2. ASSUME NEW c \in Calls, Store(c) PROVE requests' = Cardinality(Counted')
  <2>1. call[c].at = "store" /\ call' = [call EXCEPT ![c].at = call'[c].at]
        /\ call'[c].at \in {"free", "event"} /\ requests' = call[c].count
    BY <1>2 DEF Store, At
  <2>2. call[c].count = requests + 1 /\ requests \in Nat BY <2>1 DEF CountOK
  <2>3. call'[c].count = call[c].count BY <2>1
  <2>4. c \notin Counted BY <2>1 DEF Counted
  <2>5. \A d \in Calls \ {c} : call'[d] = call[d] BY <2>1
  <2>6. c \in Counted' BY <2>1, <2>2, <2>3 DEF Counted
  <2>7. Counted' = Counted \cup {c} BY <2>5, <2>6 DEF Counted
  <2>8. Cardinality(Counted') = Cardinality(Counted) + 1
    BY <1>1, <2>4, <2>7, FS_AddElement
  <2> QED BY <2>1, <2>2, <2>8
<1>3. ASSUME NEW c \in Calls, CallStep(c), ~Store(c)
      PROVE  Counted' = Counted /\ UNCHANGED requests
  <2>1. CASE Acquire(c) BY <2>1 DEF Acquire, At, Counted
  <2>2. CASE Count(c)
    <3>1. call[c].count = 0 /\ call'[c].at = "store" BY <2>2 DEF Count, CountOK
    <3>2. \A d \in Calls \ {c} : call'[d] = call[d] BY <2>2 DEF Count
    <3> QED BY <2>2, <3>1, <3>2 DEF Count, Counted
  <2>4. CASE SetEvent(c) BY <2>4 DEF SetEvent, Counted
  <2>5. CASE Free(c) BY <2>5 DEF Free, At, Counted
  <2>6. CASE StartTimer(c) BY <2>6 DEF StartTimer, At, Counted
  <2>7. CASE React(c) BY <2>7 DEF React, At, Counted
  <2> QED BY <1>3, <2>1, <2>2, <2>4, <2>5, <2>6, <2>7 DEF CallStep
<1>4. CASE Signal
  <2>1. PICK c \in Handlers, to \in {"lock", "done"} :
            call[c].at = "idle" /\ call' = [call EXCEPT ![c].at = to]
    BY <1>4 DEF Signal
  <2>2. Counted' = Counted BY <2>1 DEF Counted, Calls
  <2> QED BY <1>4, <2>2 DEF Signal
<1>5. CASE CallSet BY <1>5 DEF CallSet, Counted, Calls
<1>6. CASE UNCHANGED <<call, requests>> BY <1>6 DEF Counted
<1>7. UNCHANGED <<call, requests>> \/ Signal \/ CallSet \/ \E c \in Calls : CallStep(c)
  BY MainFrame DEF Next, vars, Tick, Expire, OnTimeout, Ended, setVars
<1> QED BY <1>2, <1>3, <1>4, <1>5, <1>6, <1>7

LEMMA TimerBound ==
    CallInv /\ TimerInv /\ timer \in 0 .. Len(timers) /\ [Next]_vars
        => timer' \in 0 .. Len(timers')
<1> SUFFICES ASSUME CallInv, TimerInv, timer \in 0 .. Len(timers), [Next]_vars
             PROVE  timer' \in 0 .. Len(timers')
  OBVIOUS
<1>1. timers \in Seq(Timer) /\ timers' \in Seq(Timer') BY NextTimer DEF TimerInv
<1>2. Len(timers) \in Nat /\ Len(timers') \in Nat BY <1>1
<1>3. UNCHANGED timer \/ timer' = 0 \/ timer' = Len(timers')
  BY DEF Next, vars, CallStep, Acquire, Count, Store, SetEvent, Free, StartTimer,
     React, Signal, CallSet, Tick, Expire, OnTimeout, Ended, MainStep, RunTask, Fails,
     Install, Look, Take, TakeNothing, AckTask, WaitBegins, WaitEnds, Leave,
     Uninstall, Report, timerVars
<1>4. ASSUME NEW c \in Calls, StartTimer(c) PROVE timer' \in 0 .. Len(timers')
  BY <1>2, <1>4 DEF StartTimer, timerVars
<1> QED BY <1>2, <1>3, <1>4, StartTimerOnly

LEMMA NextBound ==
    CallInv /\ TimerInv /\ LateInv /\ BoundInv /\ [Next]_vars => BoundInv'
<1> SUFFICES ASSUME CallInv, TimerInv, LateInv, BoundInv, [Next]_vars PROVE BoundInv'
  OBVIOUS
<1>1. StackOK' BY StackBound DEF BoundInv, StackOK
<1>2. lock' # None => call'[lock'].at \in Locked BY LockBound DEF BoundInv
<1>3. requests' = Cardinality(Counted') BY CountedBound DEF BoundInv
<1>4. timer' \in 0 .. Len(timers') BY TimerBound DEF BoundInv
<1> QED BY <1>1, <1>2, <1>3, <1>4, MainBound DEF BoundInv, StackOK

(* The innermost handler is one of the handlers, each is on the stack once *)
(* and each call holds the lock while it is inside it.                     *)
LEMMA TypeFollows == CallInv /\ TimerInv /\ LateInv /\ BoundInv => TypeOK
<1> SUFFICES ASSUME CallInv, TimerInv, LateInv, BoundInv PROVE TypeOK
  OBVIOUS
<1> USE DEF CallInv, CallTypes
<1>1. stack \in Seq(Handlers) /\ Len(stack) <= Cardinality(Handlers)
  <2>1. stack \in Seq(Handlers) /\ Len(stack) \in Nat /\ DOMAIN stack = 1 .. Len(stack)
    BY DEF BoundInv
  <2>2. stack \in Injection(1 .. Len(stack), Handlers)
    BY <2>1 DEF BoundInv, Injection, IsInjective
  <2>3. IsFiniteSet(Handlers) BY ShutdownAssumption, FS_Subset DEF Calls
  <2>4. Cardinality(1 .. Len(stack)) <= Cardinality(Handlers)
    BY <2>2, <2>3, FS_Injection
  <2>5. Cardinality(1 .. Len(stack)) = Len(stack)
    <3>1. 1 \in Int /\ Len(stack) \in Int BY <2>1
    <3>2. Cardinality(1 .. Len(stack)) = IF 1 > Len(stack) THEN 0 ELSE Len(stack) - 1 + 1
      BY <3>1, FS_Interval
    <3> QED BY <2>1, <3>2
  <2> QED BY <2>1, <2>4, <2>5
<1>2. IsFiniteSet(Calls) /\ Cardinality(Calls) \in Nat
  BY ShutdownAssumption, FS_CardinalityType
<1>3. requests \in 0 .. Cardinality(Calls)
  <2>1. Counted \in SUBSET Calls BY DEF Counted
  <2> QED BY <1>2, <2>1, FS_Subset DEF BoundInv
<1>4. ASSUME NEW c \in Calls PROVE call[c].count \in 0 .. Cardinality(Calls)
  <2>1. CASE call[c].at # "store" BY <1>2, <1>3, <2>1 DEF CountOK
  <2>2. CASE call[c].at = "store"
    <3>1. c \notin Counted /\ Counted \cup {c} \in SUBSET Calls BY <2>2 DEF Counted
    <3>2. IsFiniteSet(Counted) BY <1>2, FS_Subset DEF Counted
    <3>3. Cardinality(Counted \cup {c}) = requests + 1
      BY <3>1, <3>2, FS_AddElement DEF BoundInv
    <3>4. requests + 1 <= Cardinality(Calls) BY <1>2, <3>1, <3>3, FS_Subset
    <3> QED BY <1>2, <2>2, <3>4 DEF CountOK
  <2> QED BY <2>1, <2>2
<1>5. call \in [Calls -> [at : Steps, count : 0 .. Cardinality(Calls), first : BOOLEAN]]
  <2>1. \A c \in Calls : call[c] \in [at : Steps, count : Nat, first : BOOLEAN] OBVIOUS
  <2>2. \A c \in Calls :
            call[c] \in [at : Steps, count : 0 .. Cardinality(Calls), first : BOOLEAN]
    BY <1>4, <2>1
  <2> QED BY <2>2
<1>6. \A c \in Calls : call[c].at \in Locked <=> lock = c
  BY ShutdownAssumption DEF LockOK, BoundInv
<1>7. timers \in Seq([st : {"armed", "firing", "cancelled"}, clock : 0 .. Timeout])
      /\ since \in 0 .. Timeout
  BY DEF TimerInv, Timer
<1>8. tasks \in 0 .. MaxTasks /\ late \in 0 .. MaxTasks
  BY ShutdownAssumption DEF BoundInv, LateInv
<1> QED BY <1>1, <1>3, <1>5, <1>6, <1>7, <1>8 DEF TypeOK, BoundInv

(* Every signal's handler is on the stack once, between its signal and its *)
(* return; no request is counted twice, and whoever holds the lock of      *)
(* set() is inside it (_handle_signal, set).                               *)
THEOREM TypesHold == Spec => []TypeOK
<1>1. Spec => []LateInv BY InitRest, SpecCall, NextLate, PTL DEF Spec
<1>2. Spec => []BoundInv
  BY <1>1, InitBound, SpecCall, SpecTimer, NextBound, PTL DEF Spec
<1> QED BY <1>1, <1>2, SpecCall, SpecTimer, TypeFollows, PTL
=============================================================================
