-------------------------- MODULE TaskQueue_proofs --------------------------
(***************************************************************************)
(* Theorems about TaskQueue for every number of tasks, workers, streams    *)
(* and messages.                                                           *)
(***************************************************************************)
EXTENDS TaskQueue, TLAPS

(***************************************************************************)
(* Type correctness needs three facts about the locals: an actor that is   *)
(* about to write a task's hash has a task, what _take looks at are        *)
(* entries with a task, and the read of new messages stops after the last  *)
(* stream.                                                                 *)
(***************************************************************************)
JobSteps == RunSteps \cup {"defer", "release", "attempts", "give_up", "record"}

LocalOK ==
    /\ \A a \in Actor : pc[a] \in JobSteps => job[a] \in Task
    /\ \A a \in Actor : \A m \in batch[a] : entry[m] \in Task
    /\ \A a \in Actor : pc[a] = "new" => at[a] <= NumStreams

TypeInv == TypeOK /\ LocalOK

USE StreamAssumption, TaskQueueAssumption

LEMMA TypeInit == Init => TypeInv
BY SMTT(30) DEF Init, TypeInv, TypeOK, StoreTypeOK, LocalTypeOK, LocalOK, StreamInit, StreamTypeOK, Place, Status,
       Steps, RunSteps, ReceiveSteps, SweepSteps, JobSteps, Base, Actor,
       Stream, Msg

LEMMA TypeClient ==
    ASSUME TypeInv, NEW t \in Task, Client(t) \/ ResetDies(t)
    PROVE  TypeInv'
<1> USE DEF TypeInv, TypeOK, StoreTypeOK, LocalTypeOK, LocalOK, StreamTypeOK, Place, Status,
       localVars, boundVars, streamVars, hashVars, delayedVars
<1>1. CASE EnqueueNow(t) BY <1>1 DEF EnqueueNow, XAdd
<1>2. CASE EnqueueLater(t) BY <1>2 DEF EnqueueLater
<1>3. CASE ComesDue(t) BY <1>3 DEF ComesDue
<1>4. CASE Vanish(t) BY <1>4 DEF Vanish
<1>5. CASE ResetRead(t) BY <1>5 DEF ResetRead
<1>6. CASE ResetWrite(t) BY <1>6 DEF ResetWrite, WriteStatus
<1>7. CASE Requeue(t) BY <1>7 DEF Requeue, XAdd
<1>8. CASE ResetDies(t) BY <1>8 DEF ResetDies
<1> QED BY <1>1, <1>2, <1>3, <1>4, <1>5, <1>6, <1>7, <1>8 DEF Client

(* An actor that leaves what it was doing, or only goes on to the next     *)
(* command, keeps its locals well typed.                                   *)
LEMMA LeaveType ==
    ASSUME TypeInv, NEW a \in Actor, NEW p \in Steps, Leave(a, p),
           p \notin JobSteps, p # "new",
           \A m \in Msg : entry[m] \in Task => entry'[m] \in Task
    PROVE  LocalTypeOK' /\ LocalOK'
BY DEF TypeInv, TypeOK, LocalTypeOK, LocalOK, Leave

LEMMA GoType ==
    ASSUME TypeInv, NEW a \in Actor, NEW p \in Steps, Go(a, p),
           p \in JobSteps => job[a] \in Task,
           p = "new" => at[a] <= NumStreams,
           \A m \in Msg : entry[m] \in Task => entry'[m] \in Task
    PROVE  LocalTypeOK' /\ LocalOK'
BY DEF TypeInv, TypeOK, LocalTypeOK, LocalOK, Go

(* So does an actor whose run ends, by returning or by raising.            *)
LEMMA EndRunType ==
    ASSUME TypeInv, NEW a \in Actor, AfterRun(a) \/ Raise(a), UNCHANGED entry
    PROVE  LocalTypeOK' /\ LocalOK'
<1>1. /\ {"ack", "idle", "loop"} \subseteq Steps
      /\ {"ack", "idle", "loop"} \cap JobSteps = {}
  BY DEF Steps, JobSteps, RunSteps
<1>2. Base(a) \in {"idle", "loop"} BY DEF Base
<1>3. Go(a, "ack") \/ Leave(a, "idle") \/ Leave(a, Base(a))
  BY DEF AfterRun, Raise
<1> QED BY <1>1, <1>2, <1>3, LeaveType, GoType

LEMMA WriteType ==
    ASSUME StoreTypeOK, NEW t \in Task, NEW s \in Status, WriteStatus(t, s),
           UNCHANGED <<delayedVars, resetting>>
    PROVE  StoreTypeOK'
BY DEF StoreTypeOK, WriteStatus, delayedVars

(* What a step leaves alone keeps its type.                                *)
LEMMA SameType ==
    ASSUME TypeInv
    PROVE  /\ UNCHANGED streamVars => StreamTypeOK'
           /\ UNCHANGED <<hashVars, delayedVars, resetting>> => StoreTypeOK'
           /\ UNCHANGED boundVars => /\ faults' \in 0 .. MaxFaults
                                    /\ resets' \in 0 .. MaxResets
                                    /\ vanished' \in 0 .. MaxVanish
BY DEF TypeInv, TypeOK, StreamTypeOK, StoreTypeOK, streamVars, hashVars,
       delayedVars, boundVars

LEMMA TypeReceive ==
    ASSUME TypeInv, NEW w \in Worker, w \in Actor, Receive(w)
    PROVE  TypeInv'
<1> USE DEF TypeInv, TypeOK, StoreTypeOK, LocalTypeOK, LocalOK, StreamTypeOK, Place, Status, JobSteps,
       RunSteps, localVars, boundVars, streamVars, hashVars, delayedVars
<1>1. CASE BeginReceive(w) BY <1>1 DEF BeginReceive, Go, Steps, ReceiveSteps
<1>2. CASE PromoteOne(w)
  <2>1. CASE Leave(w, "loop") /\ UNCHANGED <<streamVars, delayed>>
    BY <1>2, <2>1, LeaveType DEF PromoteOne, Steps
  <2>2. ASSUME NEW t \in delayed \cap due,
               Go(w, "promote"), LeaveDelayed(t),
               XAdd(t) \/ UNCHANGED streamVars
        PROVE  TypeInv'
    <3>1. StreamTypeOK' /\ (\A m \in Msg : entry[m] \in Task => entry'[m] \in Task)
      BY <2>2 DEF XAdd
    <3>2. LocalTypeOK' /\ LocalOK'
      BY <2>2, <3>1, GoType DEF Steps, ReceiveSteps
    <3> QED BY <1>2, <2>2, <3>1, <3>2 DEF PromoteOne, LeaveDelayed
  <2> QED BY <1>2, <2>1, <2>2 DEF PromoteOne
<1>3. CASE PromoteDone(w) BY <1>3 DEF PromoteDone, Go, Steps, ReceiveSteps
<1>4. CASE ReadHistory(w) BY <1>4 DEF ReadHistory, Deliver, NextHeld, In, Oldest, Bump, Steps, ReceiveSteps
<1>5. CASE ReadNew(w) BY <1>5 DEF ReadNew, Deliver, NextNew, In, Oldest, Bump, Steps, ReceiveSteps
<1>6. CASE WaitRead(w) BY <1>6 DEF WaitRead, Deliver, NextNew, In, Oldest, Bump, Steps, ReceiveSteps
<1>7. CASE WaitOver(w) BY <1>7 DEF WaitOver, Leave, Steps
<1>8. CASE TakeDone(w) BY <1>8 DEF TakeDone, Handle, FirstOf, Steps
<1>9. CASE TakeEarly(w) BY <1>9 DEF TakeEarly, Handle, FirstOf, Steps, ReceiveSteps
<1>10. CASE TakeReady(w) BY <1>10 DEF TakeReady, Handle, FirstOf, Steps
<1>11. CASE TakeNext(w) BY <1>11 DEF TakeNext, Go, Steps, ReceiveSteps, Stream
<1>12. CASE Defer(w) BY <1>12 DEF Defer, Go, Steps
<1>13. CASE Ack(w) BY <1>13 DEF Ack, Go, XAck, DropPending, Steps
<1>14. CASE Delete(w)
  <2>1. StreamTypeOK' BY <1>14 DEF Delete, XDel
  <2>2. CASE then[w] = "loop" /\ Leave(w, "loop")
    BY <1>14, <2>1, <2>2 DEF Delete, XDel, Leave, Steps
  <2>3. CASE /\ then[w] = "take"
             /\ pc' = [pc EXCEPT ![w] = "take"]
             /\ cur' = [cur EXCEPT ![w] = 0]
             /\ job' = [job EXCEPT ![w] = NoTask]
             /\ then' = [then EXCEPT ![w] = "loop"]
             /\ UNCHANGED <<batch, at, claims, doomed>>
    BY <1>14, <2>1, <2>3 DEF Delete, XDel, Steps, ReceiveSteps
  <2>4. CASE then[w] = "sweep" /\ Go(w, "sweep")
    BY <1>14, <2>1, <2>4 DEF Delete, XDel, Go, Steps, SweepSteps
  <2> QED BY <1>14, <2>2, <2>3, <2>4 DEF Delete
<1> QED BY <1>1, <1>2, <1>3, <1>4, <1>5, <1>6, <1>7, <1>8, <1>9, <1>10, <1>11, <1>12, <1>13, <1>14 DEF Receive

LEMMA TypeRun ==
    ASSUME TypeInv, NEW a \in Actor, Run(a)
    PROVE  TypeInv'
<1>1. pc[a] \in RunSteps => job[a] \in Task
  BY DEF TypeInv, LocalOK, JobSteps
<1>2. {"start", "run", "sent", "failed"} \subseteq RunSteps
  BY DEF RunSteps
<1>3. RunSteps \subseteq Steps /\ "new" \notin RunSteps
  BY DEF RunSteps, Steps
<1>4. {"RUNNING", "SUCCESSFUL", "FAILED"} \subseteq Status BY DEF Status
<1>5. StreamTypeOK'
  BY SameType DEF Run, Call, Claim, Start, SetupFails, Finish, ReportSuccess,
                  ReportFailure
<1>6. faults' \in 0 .. MaxFaults /\ resets' \in 0 .. MaxResets
      /\ vanished' \in 0 .. MaxVanish
  BY SameType DEF Run, Call, Claim, Start, SetupFails, Finish, ReportSuccess,
                  ReportFailure
<1>7. UNCHANGED entry /\ UNCHANGED <<delayedVars, resetting>>
  BY DEF Run, Call, Claim, Start, SetupFails, Finish, ReportSuccess,
         ReportFailure, streamVars
<1>8. \A t \in Task, s \in Status : WriteStatus(t, s) => StoreTypeOK'
  BY <1>7, WriteType DEF TypeInv, TypeOK
<1>9. UNCHANGED hashVars => StoreTypeOK'
  BY <1>7, SameType
<1>10. \A p \in RunSteps :
          job[a] \in Task /\ Go(a, p) => LocalTypeOK' /\ LocalOK'
  BY <1>3, <1>7, GoType
<1>11. AfterRun(a) \/ Raise(a) => LocalTypeOK' /\ LocalOK'
  BY <1>7, EndRunType
<1>12. StoreTypeOK' /\ LocalTypeOK' /\ LocalOK'
  <2>1. CASE Call(a)
    <3>1. StoreTypeOK' BY <2>1, <1>9 DEF Call
    <3> QED BY <2>1, <3>1 DEF Call, TypeInv, TypeOK, LocalTypeOK, LocalOK, Steps,
                      RunSteps, streamVars
  <2>2. CASE Claim(a)
    <3>1. job[a] \in Task BY <1>1, <2>2 DEF Claim, RunSteps
    <3>2. CASE /\ status' = [status EXCEPT ![job[a]] = "RUNNING"]
               /\ attempts' = [attempts EXCEPT ![job[a]] = Bump(@)]
               /\ UNCHANGED partial
               /\ Go(a, "start")
      <4>1. StoreTypeOK'
        BY <3>1, <3>2, <1>4, <1>7
        DEF TypeInv, TypeOK, StoreTypeOK, Bump, delayedVars
      <4> QED BY <3>1, <3>2, <4>1, <1>2, <1>10
    <3>3. CASE UNCHANGED hashVars /\ (AfterRun(a) \/ Raise(a))
      BY <3>3, <1>9, <1>11
    <3> QED BY <2>2, <3>2, <3>3 DEF Claim
  <2>3. CASE Start(a)
    <3>1. job[a] \in Task BY <1>1, <2>3 DEF Start, RunSteps
    <3> QED BY <2>3, <3>1, <1>2, <1>4, <1>8, <1>9, <1>10, <1>11 DEF Start
  <2>4. CASE SetupFails(a)
    <3>1. job[a] \in Task BY <1>1, <2>4 DEF SetupFails, RunSteps
    <3> QED BY <2>4, <3>1, <1>4, <1>8, <1>11 DEF SetupFails
  <2>5. CASE Finish(a)
    <3>1. job[a] \in Task BY <1>1, <2>5 DEF Finish, RunSteps
    <3> QED BY <2>5, <3>1, <1>2, <1>4, <1>8, <1>10 DEF Finish
  <2>6. CASE ReportSuccess(a)
    <3>1. job[a] \in Task BY <1>1, <2>6 DEF ReportSuccess, RunSteps
    <3> QED BY <2>6, <3>1, <1>2, <1>4, <1>8, <1>9, <1>10, <1>11
        DEF ReportSuccess
  <2>7. CASE ReportFailure(a)
    BY <2>7, <1>9, <1>11 DEF ReportFailure
  <2> QED BY <2>1, <2>2, <2>3, <2>4, <2>5, <2>6, <2>7 DEF Run
<1> QED BY <1>5, <1>6, <1>12 DEF TypeInv, TypeOK

LEMMA TypeSweep ==
    ASSUME TypeInv, NEW w \in Worker, w \in Actor, Sweep(w)
    PROVE  TypeInv'
<1> USE DEF TypeInv, TypeOK, StoreTypeOK, LocalTypeOK, LocalOK, StreamTypeOK, Place, Status, JobSteps,
       RunSteps, localVars, boundVars, streamVars, hashVars, delayedVars
<1>1. CASE BeginSweep(w) BY <1>1 DEF BeginSweep, Steps, SweepSteps
<1>2. CASE SweepClaim(w) BY <1>2 DEF SweepClaim, XClaim, In, Bump, Steps, SweepSteps
<1>3. CASE SweepNext(w) BY <1>3 DEF SweepNext, Steps, SweepSteps
<1>4. CASE Release(w)
  <2>1. StoreTypeOK' BY <1>4 DEF Release, HandBack
  <2>2. LocalTypeOK' /\ LocalOK'
    <3>1. CASE LimitReached(w)
      BY <1>4, <3>1, LeaveType DEF Release, Steps
    <3>2. CASE ~LimitReached(w)
      BY <1>4, <3>2 DEF Release, LimitReached, Steps, SweepSteps
    <3> QED BY <3>1, <3>2
  <2> QED BY <1>4, <2>1, <2>2 DEF Release
<1>5. CASE Attempts(w) BY <1>5 DEF Attempts, Go, Steps, SweepSteps
<1>6. CASE GiveUp(w) BY <1>6 DEF GiveUp, Go, Steps, SweepSteps
<1>7. CASE Record(w) BY <1>7 DEF Record, Go, WriteStatus, Steps
<1>8. CASE ReapScan(w) BY <1>8 DEF ReapScan, Steps, SweepSteps
<1>9. CASE RemoveOne(w) BY <1>9 DEF RemoveOne, DelConsumer, DropPending
<1>10. CASE RemoveDone(w)
  <2>1. CASE at[w] < NumStreams
    BY <1>10, <2>1 DEF RemoveDone, Steps, SweepSteps
  <2>2. CASE ~(at[w] < NumStreams)
    BY <1>10, <2>2, LeaveType DEF RemoveDone, Steps
  <2> QED BY <2>1, <2>2
<1> QED BY <1>1, <1>2, <1>3, <1>4, <1>5, <1>6, <1>7, <1>8, <1>9, <1>10 DEF Sweep

LEMMA TypeEnd ==
    ASSUME TypeInv, NEW a \in Actor,
           Crash(a) \/ Fault(a) \/ (a \in Worker /\ Exit(a))
    PROVE  TypeInv'
<1> USE DEF TypeInv, TypeOK, StoreTypeOK, LocalTypeOK, LocalOK, StreamTypeOK, Place, Status, JobSteps,
       RunSteps, localVars, boundVars, streamVars, hashVars, delayedVars
<1>1. CASE Crash(a) BY <1>1 DEF Crash, Leave, Steps
<1>2. CASE Fault(a) BY <1>2 DEF Fault, Raise, Leave, Base, Steps
<1>3. CASE a \in Worker /\ Exit(a)
  BY <1>3 DEF Exit, DelConsumer, DropPending, Leave, Steps
<1> QED BY <1>1, <1>2, <1>3

LEMMA TypeStep == TypeInv /\ [Next]_vars => TypeInv'
<1> SUFFICES ASSUME TypeInv, [Next]_vars PROVE TypeInv' OBVIOUS
<1>1. CASE UNCHANGED vars
  BY <1>1 DEF vars, TypeInv, TypeOK, StoreTypeOK, LocalTypeOK, LocalOK, StreamTypeOK, Place, Status, JobSteps,
       RunSteps, localVars, boundVars, streamVars, hashVars, delayedVars
<1>2. ASSUME NEW t \in Task, Client(t) \/ ResetDies(t) PROVE TypeInv'
  BY <1>2, TypeClient
<1>3. ASSUME NEW w \in Worker, Receive(w) \/ Sweep(w) \/ Exit(w) PROVE TypeInv'
  BY <1>3, TypeReceive, TypeSweep, TypeEnd DEF Actor
<1>4. ASSUME NEW a \in Actor, Run(a) \/ Crash(a) \/ Fault(a) PROVE TypeInv'
  BY <1>4, TypeRun, TypeEnd
<1> QED BY <1>1, <1>2, <1>3, <1>4 DEF Next

(* Every variable keeps its type in every behaviour, whatever the numbers  *)
(* of tasks, workers, triggers and streams and whatever fails.             *)
THEOREM TypeCorrect == Spec => []TypeOK
<1>1. Init => TypeInv BY TypeInit
<1>2. TypeInv /\ [Next]_vars => TypeInv' BY TypeStep
<1>3. TypeInv => TypeOK BY DEF TypeInv
<1> QED BY <1>1, <1>2, <1>3, PTL DEF Spec
============================================================================
