---------------------------- MODULE Result_proofs ----------------------------
(***************************************************************************)
(* What becomes of a task: its result stays, the queue implements the life *)
(* of a task, and a task is given up on after as many starts as allowed.   *)
(* All three are about workers alone, none of them slow, without resets    *)
(* and deletions; workers may die and commands may fail.                   *)
(***************************************************************************)
EXTENDS Custody_proofs

USE StreamAssumption, TaskQueueAssumption

(***************************************************************************)
(* A worker that handles a task is the only one that does, so the status   *)
(* it has seen, or has written, is still there at its next command.        *)
(***************************************************************************)
StatusSeen(w) ==
    /\ Executing(w) => status[job[w]] = "RUNNING"
    /\ pc[w] = "sent" => status[job[w]] = "SUCCESSFUL"
    /\ pc[w] = "record" => status[job[w]] = "FAILED"

StatusInv == \A w \in Worker : StatusSeen(w)

QueueInv == TypeInv /\ CustodyInv /\ MessageInv

OnlyWorkers == Trigger = {} /\ Slow = {} /\ MaxResets = 0 /\ MaxVanish = 0

(* No two workers handle messages of the same task.                        *)
LEMMA OneHandler ==
    ASSUME QueueInv, NEW v \in Worker, NEW w \in Worker, v # w,
           pc[v] \in HandSteps, pc[w] \in HandSteps
    PROVE  job[v] # job[w]
<1>1. \A u \in {v, w} : /\ cur[u] \in Msg /\ Live(cur[u])
                        /\ owner[cur[u]] = u /\ job[u] = entry[cur[u]]
  BY DEF QueueInv, CustodyInv, CustodyOf, InHand, Live
<1> QED BY <1>1 DEF QueueInv, MessageInv, OneMessage

(* The steps of a worker that change a status, and how; every other step   *)
(* of anybody leaves the status of all tasks but new ones alone.           *)
StatusStep(w) ==
    /\ pc[w] \in HandSteps /\ job[w] \in Task
    /\ \E s \in Status :
          /\ status' = [status EXCEPT ![job[w]] = s]
          /\ \/ pc[w] = "claim" /\ status[job[w]] = "READY" /\ s = "RUNNING"
                  /\ Go(w, "start")
             \/ Executing(w) /\ s = "FAILED" /\ (Raise(w) \/ Go(w, "failed"))
             \/ pc[w] = "run" /\ s = "SUCCESSFUL" /\ Go(w, "sent")
             \/ pc[w] = "sent" /\ s = "FAILED" /\ Go(w, "failed")
             \/ /\ pc[w] = "release" /\ status[job[w]] = "RUNNING" /\ s = "READY"
                /\ \/ Leave(w, "loop")
                   \/ /\ pc' = [pc EXCEPT ![w] = "sweep"]
                      /\ UNCHANGED job
             \/ /\ pc[w] = "give_up" /\ status[job[w]] \in {"READY", "RUNNING"}
                /\ s = "FAILED" /\ Go(w, "record")
             \/ pc[w] = "record" /\ s = "FAILED" /\ Go(w, "ack")

(* A step that changes no status: the worker goes from start to run, or it *)
(* comes to no place where it would have a status in mind.                 *)
QuietStep(w) ==
    /\ UNCHANGED status
    /\ \/ pc[w] = "start" /\ Go(w, "run")
       \/ /\ \E p \in Steps \ {"start", "run", "sent", "record"} :
                pc' = [pc EXCEPT ![w] = p]
          /\ Executing(w) => Leave(w, pc'[w])
          /\ UNCHANGED job \/ \E t : job' = [job EXCEPT ![w] = t]
       \/ pc' = pc /\ job' = job

NewStep ==
    /\ UNCHANGED <<pc, job>>
    /\ \/ UNCHANGED status
       \/ \E t \in Task : status[t] = "NEW" /\ status' = [status EXCEPT ![t] = "READY"]

LEMMA ClientStep ==
    ASSUME OnlyWorkers, QueueInv, NEW t \in Task, Client(t) \/ ResetDies(t)
    PROVE  NewStep
<1>1. ~Vanish(t) BY DEF Vanish, OnlyWorkers, QueueInv, TypeInv, TypeOK
<1>2. ~ResetRead(t) /\ ~ResetWrite(t) /\ ~Requeue(t) /\ ~ResetDies(t)
  BY DEF QueueInv, MessageInv, OnlyWorkers, TypeInv, TypeOK, ResetRead,
         ResetWrite, Requeue, ResetDies
<1> QED
  BY <1>1, <1>2 DEF Client, EnqueueNow, EnqueueLater, ComesDue, NewStep,
                    localVars, hashVars

LEMMA ReceiveStep ==
    ASSUME QueueInv, NEW w \in Worker, Receive(w)
    PROVE  QuietStep(w)
<1> USE DEF QuietStep, hashVars, Executing
<1>1. CASE \E p \in {"loop", "promote", "history", "new", "wait", "ack", "xdel"} :
              (Go(w, p) \/ Leave(w, p)) /\ UNCHANGED hashVars /\ ~Executing(w)
  BY <1>1 DEF Go, Leave, Steps, ReceiveSteps
<1>2. CASE ReadHistory(w) \/ ReadNew(w) \/ WaitRead(w)
  BY <1>2 DEF ReadHistory, ReadNew, WaitRead, Steps, ReceiveSteps
<1>3. CASE TakeDone(w) \/ TakeEarly(w) \/ TakeReady(w)
  BY <1>3 DEF TakeDone, TakeEarly, TakeReady, Handle, Steps, ReceiveSteps, RunSteps
<1>4. CASE Delete(w)
  BY <1>4 DEF Delete, Go, Leave, Steps, ReceiveSteps, SweepSteps
<1> QED BY <1>1, <1>2, <1>3, <1>4
  DEF Receive, BeginReceive, PromoteOne, PromoteDone, WaitOver, TakeNext,
      Defer, Ack

LEMMA RunStep ==
    ASSUME OnlyWorkers, QueueInv, NEW w \in Worker, Run(w)
    PROVE  StatusStep(w) \/ QuietStep(w)
<1>1. pc[w] \in HandSteps /\ job[w] \in Task /\ ~Call(w)
  BY DEF QueueInv, TypeInv, LocalOK, JobSteps, HandSteps, RunSteps, Actor,
         Run, Call, Claim, Start, SetupFails, Finish, ReportSuccess, ReportFailure
<1>2. AfterRun(w) => Go(w, "ack") BY DEF AfterRun
<1>3. Raise(w) => Leave(w, "loop") BY DEF Raise, Base
<1>4. {"RUNNING", "SUCCESSFUL", "FAILED"} \subseteq Status BY DEF Status
<1>5. {"ack", "loop"} \subseteq Steps \ {"start", "run", "sent", "record"}
  BY DEF Steps
<1>6. ASSUME UNCHANGED status, Go(w, "ack") \/ Leave(w, "loop"),
             Executing(w) => Leave(w, "loop")
      PROVE  QuietStep(w)
  <2>1. pc'[w] = "loop" \/ ~Leave(w, "loop")
    BY DEF Leave, QueueInv, TypeInv, TypeOK, LocalTypeOK, Actor
  <2> QED BY <1>5, <1>6, <2>1 DEF QuietStep, Go, Leave
<1>7. CASE Claim(w)
  <2>1. CASE MayMove(job[w], {"READY"}) /\ status' = [status EXCEPT ![job[w]] = "RUNNING"]
             /\ Go(w, "start")
    BY <1>1, <1>4, <1>7, <2>1 DEF Claim, StatusStep, MayMove
  <2>2. CASE UNCHANGED hashVars /\ (AfterRun(w) \/ Raise(w))
    BY <1>2, <1>3, <1>6, <1>7, <2>2 DEF Claim, Executing, hashVars
  <2> QED BY <1>7, <2>1, <2>2 DEF Claim, ClaimFrom
<1>8. CASE Start(w)
  <2>1. CASE Go(w, "run") /\ UNCHANGED hashVars
    BY <1>8, <2>1 DEF Start, QuietStep, hashVars
  <2>2. CASE WriteStatus(job[w], "FAILED") /\ Raise(w)
    BY <1>1, <1>4, <1>8, <2>2 DEF Start, StatusStep, WriteStatus, Executing
  <2>3. CASE Raise(w) /\ UNCHANGED hashVars
    BY <1>3, <1>6, <2>3 DEF hashVars
  <2> QED BY <1>8, <2>1, <2>2, <2>3 DEF Start
<1>9. CASE SetupFails(w)
  BY <1>1, <1>4, <1>9 DEF SetupFails, StatusStep, WriteStatus, Executing
<1>10. CASE Finish(w)
  BY <1>1, <1>4, <1>10 DEF Finish, StatusStep, WriteStatus, Executing
<1>11. CASE ReportSuccess(w)
  <2>1. CASE AfterRun(w) /\ UNCHANGED hashVars
    BY <1>2, <1>6, <1>11, <2>1 DEF ReportSuccess, Executing, hashVars
  <2>2. CASE WriteStatus(job[w], "FAILED") /\ Go(w, "failed")
    BY <1>1, <1>4, <1>11, <2>2 DEF ReportSuccess, StatusStep, WriteStatus
  <2> QED BY <1>11, <2>1, <2>2 DEF ReportSuccess
<1>12. CASE ReportFailure(w)
  BY <1>2, <1>3, <1>6, <1>12 DEF ReportFailure, Executing, hashVars
<1> QED BY <1>1, <1>7, <1>8, <1>9, <1>10, <1>11, <1>12 DEF Run

LEMMA SweepStep ==
    ASSUME QueueInv, NEW w \in Worker, Sweep(w)
    PROVE  StatusStep(w) \/ QuietStep(w)
<1>1. pc[w] \in {"release", "attempts", "give_up", "record"} =>
         pc[w] \in HandSteps /\ job[w] \in Task
  BY DEF QueueInv, TypeInv, LocalOK, JobSteps, HandSteps, Actor
<1>2. {"READY", "FAILED"} \subseteq Status BY DEF Status
<1>3. CASE Release(w)
  <2>1. \/ Leave(w, "loop")
        \/ pc' = [pc EXCEPT ![w] = "sweep"] /\ UNCHANGED job
    BY <1>3 DEF Release
  <2>2. CASE UNCHANGED status
    BY <1>3, <2>1, <2>2 DEF Release, QuietStep, Executing, Leave, Steps, SweepSteps
  <2>3. CASE status[job[w]] = "RUNNING" /\ status' = [status EXCEPT ![job[w]] = "READY"]
    BY <1>1, <1>2, <1>3, <2>1, <2>3 DEF Release, StatusStep
  <2> QED BY <1>3, <2>2, <2>3 DEF Release, HandBack, MayMove, hashVars
<1>4. CASE GiveUp(w)
  BY <1>1, <1>2, <1>4
  DEF GiveUp, MayGiveUp, MayMove, StatusStep, QuietStep, Go, Executing, Steps,
      hashVars
<1>5. CASE Record(w)
  BY <1>1, <1>2, <1>5 DEF Record, WriteStatus, StatusStep
<1>6. CASE Attempts(w)
  BY <1>6 DEF Attempts, Go, QuietStep, Executing, Steps, SweepSteps, hashVars
<1>7. CASE BeginSweep(w) \/ SweepClaim(w) \/ SweepNext(w) \/ ReapScan(w)
  BY <1>7 DEF BeginSweep, SweepClaim, SweepNext, ReapScan, QuietStep,
              Executing, Steps, SweepSteps, hashVars
<1>8. CASE RemoveOne(w) \/ RemoveDone(w)
  BY <1>8 DEF RemoveOne, RemoveDone, Leave, QuietStep, Executing, Steps,
              SweepSteps, hashVars
<1> QED BY <1>3, <1>4, <1>5, <1>6, <1>7, <1>8 DEF Sweep

LEMMA EndStep ==
    ASSUME QueueInv, NEW w \in Worker, Crash(w) \/ Fault(w) \/ Exit(w)
    PROVE  QuietStep(w)
<1>1. PICK p \in {"loop", "down"} : Leave(w, p) /\ UNCHANGED hashVars
  BY DEF Crash, Fault, Exit, Raise, Base
<1>2. pc'[w] = p
  BY <1>1 DEF Leave, QueueInv, TypeInv, TypeOK, LocalTypeOK, Actor
<1> QED BY <1>1, <1>2 DEF QuietStep, Leave, Steps, hashVars

(* So every step is one of the three.                                      *)
LEMMA ThreeSteps ==
    ASSUME OnlyWorkers, QueueInv, [Next]_vars
    PROVE  NewStep \/ \E w \in Worker : StatusStep(w) \/ QuietStep(w)
<1>1. CASE UNCHANGED vars
  BY <1>1 DEF vars, localVars, hashVars, NewStep
<1>2. Actor = Worker BY DEF OnlyWorkers, Actor
<1> QED
  BY <1>1, <1>2, ClientStep, ReceiveStep, RunStep, SweepStep, EndStep DEF Next

LEMMA StatusInit == Init => StatusInv
<1>1. \A w \in Worker : pc[w] \in {"loop", "idle"} => StatusSeen(w)
  BY DEF StatusSeen, Executing
<1> QED BY <1>1 DEF Init, StatusInv, Base, Actor

LEMMA NextStatus ==
    ASSUME OnlyWorkers, QueueInv, StatusInv, [Next]_vars
    PROVE  StatusInv'
<1> USE DEF StatusSeen, Executing
<1>1. /\ pc \in [Actor -> Steps] /\ job \in [Actor -> Task \cup {NoTask}]
      /\ status \in [Task -> Status] /\ Worker \subseteq Actor
  BY DEF QueueInv, TypeInv, TypeOK, LocalTypeOK, StoreTypeOK, Actor
<1>2. \A w \in Worker : pc[w] \in {"start", "run", "sent", "record"} =>
         pc[w] \in HandSteps /\ job[w] \in Task
  BY <1>1 DEF QueueInv, TypeInv, LocalOK, JobSteps, RunSteps, HandSteps
<1>3. CASE NewStep
  BY <1>1, <1>2, <1>3 DEF NewStep, StatusInv
<1>4. ASSUME NEW w \in Worker, StatusStep(w) \/ QuietStep(w)
      PROVE  StatusInv'
  <2>1. \A v \in Worker \ {w} : pc'[v] = pc[v] /\ job'[v] = job[v]
    BY <1>1, <1>4 DEF StatusStep, QuietStep, Go, Leave, Raise
  <2>2. \A v \in Worker \ {w} :
           pc[v] \in HandSteps /\ job[v] \in Task => status'[job[v]] = status[job[v]]
    BY <1>1, <1>4, OneHandler DEF StatusStep, QuietStep
  <2>3. \A v \in Worker \ {w} : StatusSeen(v)'
    BY <1>2, <2>1, <2>2 DEF StatusInv
  <2>4. StatusSeen(w)'
    <3>1. CASE StatusStep(w)
      BY <1>1, <3>1 DEF StatusStep, Go, Leave, Raise, Base
    <3>2. CASE QuietStep(w)
      <4>1. CASE pc[w] = "start" /\ Go(w, "run")
        BY <1>1, <3>2, <4>1 DEF QuietStep, Go, StatusInv
      <4>2. CASE \E p \in Steps \ {"start", "run", "sent", "record"} :
                    pc' = [pc EXCEPT ![w] = p]
        BY <1>1, <4>2
      <4>3. CASE pc' = pc /\ job' = job
        BY <3>2, <4>3 DEF QuietStep, StatusInv
      <4> QED BY <3>2, <4>1, <4>2, <4>3 DEF QuietStep
    <3> QED BY <1>4, <3>1, <3>2
  <2> QED BY <2>3, <2>4 DEF StatusInv
<1> QED BY <1>3, <1>4, ThreeSteps

LEMMA QueueInit == Init => QueueInv /\ StatusInv
BY TypeInit, CustodyInit, MessageInit, StatusInit DEF QueueInv

LEMMA QueueStep ==
    ASSUME OnlyWorkers, QueueInv, StatusInv, [Next]_vars
    PROVE  QueueInv' /\ StatusInv'
BY TypeStep, CustodyStep, MessageStep, NextStatus DEF QueueInv, OnlyWorkers

(* A result stays: no sweep, no late worker and no second delivery changes *)
(* it, but for the worker whose report of a success raises.                *)
THEOREM ResultKept == ASSUME OnlyWorkers PROVE Spec => ResultIsFinal
<1> DEFINE A == \A t \in Task :
          status[t] \in {"SUCCESSFUL", "FAILED"} =>
             \/ status'[t] = status[t]
             \/ /\ status[t] = "SUCCESSFUL" /\ status'[t] = "FAILED"
                /\ \E a \in Actor : job[a] = t /\ pc[a] = "sent"
<1>1. Init => QueueInv /\ StatusInv BY QueueInit
<1>2. QueueInv /\ StatusInv /\ [Next]_vars => (QueueInv /\ StatusInv)'
  BY QueueStep
<1>3. QueueInv /\ StatusInv /\ [Next]_vars => [A]_vars
  <2> SUFFICES ASSUME QueueInv, StatusInv, [Next]_vars, NEW t \in Task,
                      status[t] \in {"SUCCESSFUL", "FAILED"}
               PROVE  \/ status'[t] = status[t]
                      \/ /\ status[t] = "SUCCESSFUL" /\ status'[t] = "FAILED"
                         /\ \E a \in Actor : job[a] = t /\ pc[a] = "sent"
    OBVIOUS
  <2>1. status \in [Task -> Status] /\ Worker \subseteq Actor
    BY DEF QueueInv, TypeInv, TypeOK, StoreTypeOK, Actor
  <2>2. CASE NewStep BY <2>1, <2>2 DEF NewStep
  <2>3. ASSUME NEW w \in Worker, QuietStep(w) PROVE status'[t] = status[t]
    BY <2>3 DEF QuietStep
  <2>4. ASSUME NEW w \in Worker, StatusStep(w), status'[t] # status[t]
        PROVE  /\ status[t] = "SUCCESSFUL" /\ status'[t] = "FAILED"
               /\ job[w] = t /\ pc[w] = "sent"
    <3>1. job[w] = t BY <2>1, <2>4 DEF StatusStep
    <3>2. StatusSeen(w) BY DEF StatusInv
    <3> QED
      BY <2>1, <2>4, <3>1, <3>2 DEF StatusStep, StatusSeen, Executing
  <2> QED BY <2>1, <2>2, <2>3, <2>4, ThreeSteps
<1> QED BY <1>1, <1>2, <1>3, PTL DEF Spec, ResultIsFinal

----------------------------------------------------------------------------
(* The refinement of TaskLifecycle: a step of the queue moves at most one  *)
(* task, from the stage and the runners the abstract action asks for.      *)
LEMMA Stages ==
    /\ StageOf("NEW") = "new" /\ StageOf("READY") = "waiting"
    /\ StageOf("RUNNING") = "running" /\ StageOf("SUCCESSFUL") = "successful"
    /\ StageOf("FAILED") = "failed"
BY DEF StageOf

LEMMA MoveIs ==
    ASSUME NEW t \in Task, NEW s, NEW R,
           StageOf(status'[t]) = s, Runners(t)' = R,
           \A u \in Task \ {t} :
              status'[u] = status[u] /\ Runners(u)' = Runners(u)
    PROVE  Lifecycle!Move(t, s, R)
<1> DEFINE stage == [u \in Task |-> StageOf(status[u])]
           runs == [u \in Task |-> Runners(u)]
<1>1. stage' = [stage EXCEPT ![t] = s] OBVIOUS
<1>2. runs' = [runs EXCEPT ![t] = R] OBVIOUS
<1> QED BY <1>1, <1>2 DEF Lifecycle!Move

LEMMA StutterIs ==
    ASSUME \A u \in Task : status'[u] = status[u] /\ Runners(u)' = Runners(u)
    PROVE  UNCHANGED Lifecycle!vars
<1>1. [u \in Task |-> StageOf(status[u])]' = [u \in Task |-> StageOf(status[u])]
  OBVIOUS
<1>2. [u \in Task |-> Runners(u)]' = [u \in Task |-> Runners(u)] OBVIOUS
<1> QED BY <1>1, <1>2 DEF Lifecycle!vars

(* Who runs a task: nobody unless it is RUNNING, and nobody but the worker *)
(* that handles its message.                                               *)
LEMMA RunnersAre ==
    ASSUME OnlyWorkers, QueueInv, StatusInv, NEW t \in Task
    PROVE  /\ Runners(t) # {} => status[t] = "RUNNING"
           /\ \A w \in Worker :
                 pc[w] \in HandSteps /\ job[w] = t => Runners(t) \subseteq {w}
<1>1. Actor = Worker BY DEF OnlyWorkers, Actor
<1>2. \A w \in Worker : Executing(w) => pc[w] \in HandSteps
  BY DEF Executing, HandSteps, RunSteps
<1>3. Runners(t) # {} => status[t] = "RUNNING"
  BY <1>1 DEF Runners, StatusInv, StatusSeen
<1>4. ASSUME NEW w \in Worker, pc[w] \in HandSteps, job[w] = t, NEW v \in Runners(t)
      PROVE  v = w
  BY <1>1, <1>2, <1>4, OneHandler DEF Runners
<1> QED BY <1>3, <1>4

LEMMA RunnersStep ==
    ASSUME NEW w \in Actor, NEW t \in Task,
           \A v \in Actor \ {w} : pc'[v] = pc[v] /\ job'[v] = job[v]
    PROVE  Runners(t)' = (Runners(t) \ {w})
                            \cup {v \in {w} : Executing(v)' /\ job'[v] = t}
BY DEF Runners, Executing

LEMMA LifecycleInit == Init => Lifecycle!Init
<1> SUFFICES ASSUME Init PROVE Lifecycle!Init OBVIOUS
<1>1. \A a \in Actor : pc[a] \in {"loop", "idle"} BY DEF Init, Base
<1>2. \A t \in Task : Runners(t) = {} BY <1>1 DEF Runners, Executing
<1>3. \A t \in Task : StageOf(status[t]) = "new" BY Stages DEF Init
<1> QED BY <1>2, <1>3 DEF Lifecycle!Init

LEMMA LifecycleStep ==
    ASSUME OnlyWorkers, QueueInv, StatusInv, [Next]_vars
    PROVE  [Lifecycle!Next]_Lifecycle!vars
<1>1. /\ pc \in [Actor -> Steps] /\ job \in [Actor -> Task \cup {NoTask}]
      /\ status \in [Task -> Status] /\ Worker \subseteq Actor
  BY DEF QueueInv, TypeInv, TypeOK, LocalTypeOK, StoreTypeOK, Actor
<1>2. CASE NewStep
  <2>1. \A t \in Task : Runners(t)' = Runners(t)
    BY <1>2 DEF NewStep, Runners, Executing
  <2>2. CASE UNCHANGED status
    BY <2>1, <2>2, StutterIs
  <2>3. ASSUME NEW t \in Task, status[t] = "NEW",
               status' = [status EXCEPT ![t] = "READY"]
        PROVE  Lifecycle!Submit(t)
    <3>1. Runners(t) = {} BY <2>3, RunnersAre
    <3>2. Lifecycle!Move(t, "waiting", {})
      BY <1>1, <2>1, <2>3, <3>1, Stages, MoveIs
    <3> QED BY <2>3, <3>2, Stages DEF Lifecycle!Submit
  <2> QED BY <1>2, <2>2, <2>3 DEF NewStep, Lifecycle!Next
<1>3. ASSUME NEW w \in Worker, QuietStep(w)
      PROVE  [Lifecycle!Next]_Lifecycle!vars
  <2>1. \A v \in Actor \ {w} : pc'[v] = pc[v] /\ job'[v] = job[v]
    BY <1>1, <1>3 DEF QuietStep, Go, Leave
  <2>2. CASE \A u \in Task : Runners(u)' = Runners(u)
    BY <1>3, <2>2, StutterIs DEF QuietStep
  <2>3. CASE Executing(w) /\ Leave(w, pc'[w]) /\ pc'[w] \notin {"start", "run"}
    <3>1. job[w] \in Task
      BY <1>1, <2>3 DEF QueueInv, TypeInv, LocalOK, JobSteps, RunSteps, Executing
    <3>2. Runners(job[w]) = {w}
      BY <1>1, <2>3, <3>1, RunnersAre
      DEF Runners, Executing, HandSteps, RunSteps
    <3>3. \A u \in Task : Runners(u)' = Runners(u) \ {w}
      BY <1>1, <2>1, <2>3, RunnersStep DEF Executing
    <3>4. \A u \in Task \ {job[w]} : Runners(u)' = Runners(u)
      BY <3>3 DEF Runners
    <3>5. Lifecycle!Move(job[w], StageOf(status[job[w]]), {})
      BY <1>3, <3>1, <3>2, <3>3, <3>4, MoveIs DEF QuietStep
    <3>6. Lifecycle!Lose(job[w]) BY <3>1, <3>2, <3>5 DEF Lifecycle!Lose
    <3> QED BY <3>1, <3>6 DEF Lifecycle!Next
  <2>4. CASE ~Executing(w) /\ pc'[w] \notin {"start", "run"}
    <3>1. \A u \in Task : Runners(u)' = Runners(u) \ {w}
      BY <1>1, <2>1, <2>4, RunnersStep DEF Executing
    <3> QED BY <2>2, <2>4, <3>1 DEF Runners
  <2>5. CASE pc[w] = "start" /\ Go(w, "run")
    <3>1. \A u \in Task : Runners(u)' = Runners(u)
      BY <1>1, <2>5 DEF Go, Runners, Executing
    <3> QED BY <2>2, <3>1
  <2>6. CASE pc' = pc /\ job' = job
    <3>1. \A u \in Task : Runners(u)' = Runners(u)
      BY <2>6 DEF Runners, Executing
    <3> QED BY <2>2, <3>1
  <2> QED BY <1>1, <1>3, <2>3, <2>4, <2>5, <2>6 DEF QuietStep
<1>4. ASSUME NEW w \in Worker, StatusStep(w)
      PROVE  [Lifecycle!Next]_Lifecycle!vars
  <2>0. PICK t \in Task : t = job[w] BY <1>4 DEF StatusStep
  <2>1. t \in Task /\ t = job[w] /\ pc[w] \in HandSteps
    BY <1>4, <2>0 DEF StatusStep
  <2>2. \A v \in Actor \ {w} : pc'[v] = pc[v] /\ job'[v] = job[v]
    BY <1>1, <1>4 DEF StatusStep, Go, Leave, Raise
  <2>3. Runners(t) \subseteq {w} /\ (Runners(t) # {} => status[t] = "RUNNING")
    BY <2>1, RunnersAre
  <2>4. \A u \in Task \ {t} : status'[u] = status[u]
    BY <1>1, <1>4, <2>1 DEF StatusStep
  <2>5. ASSUME pc'[w] \notin {"start", "run"}
        PROVE  /\ Runners(t)' = {}
               /\ \A u \in Task \ {t} : Runners(u)' = Runners(u)
    <3>1. \A u \in Task : Runners(u)' = Runners(u) \ {w}
      BY <1>1, <2>2, <2>5, RunnersStep DEF Executing
    <3> QED BY <2>1, <2>3, <3>1 DEF Runners
  <2>6. CASE /\ pc[w] = "claim" /\ status[t] = "READY" /\ status'[t] = "RUNNING"
             /\ Go(w, "start")
    <3>1. Runners(t) = {} BY <2>3, <2>6
    <3>2. \A u \in Task : Runners(u)' = (Runners(u) \ {w})
                             \cup {v \in {w} : job[v] = u}
      BY <1>1, <2>2, <2>6, RunnersStep DEF Go, Executing
    <3>3. Runners(t)' = {w} BY <2>1, <3>1, <3>2
    <3>4. \A u \in Task \ {t} : Runners(u)' = Runners(u)
      BY <2>1, <2>6, <3>2 DEF Runners, Executing
    <3>5. Lifecycle!Move(t, "running", {w})
      BY <2>1, <2>4, <2>6, <3>3, <3>4, Stages, MoveIs
    <3>6. Lifecycle!Start(t, w)
      BY <2>1, <2>6, <3>1, <3>5, Stages DEF Lifecycle!Start
    <3> QED BY <1>1, <2>1, <3>6 DEF Lifecycle!Next
  <2>7. CASE /\ Executing(w) /\ status'[t] \in {"SUCCESSFUL", "FAILED"}
             /\ pc'[w] \notin {"start", "run"}
    <3>1. status[t] = "RUNNING" /\ Runners(t) # {}
      BY <1>1, <2>1, <2>7 DEF StatusInv, StatusSeen, Runners
    <3>2. \E s \in {"successful", "failed"} : Lifecycle!Move(t, s, {})
      BY <2>1, <2>4, <2>5, <2>7, Stages, MoveIs
    <3>3. Lifecycle!Finish(t)
      BY <2>1, <3>1, <3>2, Stages DEF Lifecycle!Finish
    <3> QED BY <2>1, <3>3 DEF Lifecycle!Next
  <2>8. CASE pc[w] = "sent" /\ status'[t] = "FAILED" /\ pc'[w] \notin {"start", "run"}
    <3>1. status[t] = "SUCCESSFUL"
      BY <2>1, <2>8 DEF StatusInv, StatusSeen
    <3>2. Lifecycle!Move(t, "failed", {})
      BY <2>1, <2>4, <2>5, <2>8, Stages, MoveIs
    <3>3. Lifecycle!Revoke(t)
      BY <2>1, <3>1, <3>2, Stages DEF Lifecycle!Revoke
    <3> QED BY <2>1, <3>3 DEF Lifecycle!Next
  <2>9. ASSUME ~Executing(w) PROVE Runners(t) = {}
    BY <2>3, <2>9 DEF Runners
  <2>10. CASE /\ pc[w] = "release" /\ status[t] = "RUNNING" /\ status'[t] = "READY"
              /\ pc'[w] \notin {"start", "run"}
    <3>1. Runners(t) = {} BY <2>9, <2>10 DEF Executing
    <3>2. Lifecycle!Move(t, "waiting", {})
      BY <2>1, <2>4, <2>5, <2>10, Stages, MoveIs
    <3>3. Lifecycle!Return(t)
      BY <2>1, <2>10, <3>1, <3>2, Stages DEF Lifecycle!Return
    <3> QED BY <2>1, <3>3 DEF Lifecycle!Next
  <2>11. CASE /\ pc[w] = "give_up" /\ status[t] \in {"READY", "RUNNING"}
              /\ status'[t] = "FAILED" /\ pc'[w] \notin {"start", "run"}
    <3>1. Runners(t) = {} BY <2>9, <2>11 DEF Executing
    <3>2. Lifecycle!Move(t, "failed", {})
      BY <2>1, <2>4, <2>5, <2>11, Stages, MoveIs
    <3>3. Lifecycle!Abandon(t)
      BY <2>1, <2>11, <3>1, <3>2, Stages DEF Lifecycle!Abandon
    <3> QED BY <2>1, <3>3 DEF Lifecycle!Next
  <2>12. CASE /\ pc[w] = "record" /\ status'[t] = "FAILED"
              /\ pc'[w] \notin {"start", "run"}
    <3>1. status[t] = "FAILED" BY <2>1, <2>12 DEF StatusInv, StatusSeen
    <3>2. Runners(t) = {} BY <2>9, <2>12 DEF Executing
    <3>3. \A u \in Task : status'[u] = status[u] /\ Runners(u)' = Runners(u)
      BY <2>1, <2>4, <2>5, <2>12, <3>1, <3>2
    <3> QED BY <3>3, StutterIs
  <2> QED
    BY <1>1, <1>4, <2>1, <2>6, <2>7, <2>8, <2>10, <2>11, <2>12
    DEF StatusStep, Go, Leave, Raise, Base, Executing
<1> QED BY <1>2, <1>3, <1>4, ThreeSteps

(* Workers alone, none slow, no resets, no deletions: the queue implements *)
(* the life of a task.  It is started only when it waits, goes back to     *)
(* waiting or is given up on only when nobody runs it, and keeps its       *)
(* result.                                                                 *)
THEOREM QueueImplements == ASSUME OnlyWorkers PROVE Spec => ImplementsLifecycle
<1>1. Init => QueueInv /\ StatusInv BY QueueInit
<1>2. QueueInv /\ StatusInv /\ [Next]_vars => (QueueInv /\ StatusInv)'
  BY QueueStep
<1>3. Init => Lifecycle!Init BY LifecycleInit
<1>4. QueueInv /\ StatusInv /\ [Next]_vars => [Lifecycle!Next]_Lifecycle!vars
  BY LifecycleStep
<1> QED BY <1>1, <1>2, <1>3, <1>4, PTL
        DEF Spec, ImplementsLifecycle, Lifecycle!Spec

----------------------------------------------------------------------------
(***************************************************************************)
(* How often a task is started.  A start uses up a delivery, so a task has *)
(* never more starts than its message has deliveries, and fewer when the   *)
(* message is about to be claimed; and a sweep hands a task back only if a *)
(* start is left.                                                          *)
(***************************************************************************)
Tried(t) ==
    /\ attempts[t] <= MaxDeliveries
    /\ status[t] = "READY" => attempts[t] < MaxDeliveries
    /\ attempts[t] > 0 => t \notin delayed /\ status[t] # "NEW"
    /\ \A m \in LiveMessages(t) : attempts[t] <= deliveries[m]

Unclaimed(w, m) == m \in batch[w] \/ (pc[w] = "claim" /\ cur[w] = m)

StartLeft(m) == status[entry[m]] = "READY" => attempts[entry[m]] < deliveries[m]

Decided(w) ==
    /\ pc[w] = "release" => attempts[job[w]] < MaxDeliveries
    /\ pc[w] = "give_up" => attempts[job[w]] = MaxDeliveries

StartsInv ==
    /\ \A t \in Task : Tried(t)
    /\ \A w \in Worker : Decided(w) /\ \A m \in Msg : Unclaimed(w, m) => StartLeft(m)

Capped == OnlyWorkers /\ MaxDeliveries > 0

(* A start is a claim, and nothing else counts one.                        *)
LEMMA AttemptsMove ==
    ASSUME OnlyWorkers, TypeInv, Next, NEW t \in Task, attempts'[t] # attempts[t]
    PROVE  \E w \in Worker : /\ Claim(w) /\ job[w] = t
                             /\ status[t] = "READY" /\ status'[t] = "RUNNING"
                             /\ attempts'[t] = Bump(attempts[t])
<1> USE DEF TypeInv, TypeOK, StoreTypeOK
<1>1. ~UNCHANGED attempts OBVIOUS
<1>2. PICK a \in Actor : Claim(a)
  <2>1. ~\E u \in Task : Client(u) \/ ResetDies(u)
    BY <1>1 DEF Client, EnqueueNow, EnqueueLater, ComesDue, Vanish, ResetRead, ResetWrite,
                Requeue, ResetDies, WriteStatus, hashVars, OnlyWorkers
  <2>2. ~\E w \in Worker : Receive(w) \/ Exit(w)
    BY <1>1 DEF Exit, Receive, BeginReceive, PromoteOne, PromoteDone, ReadHistory, ReadNew,
                WaitRead, WaitOver, TakeDone, TakeEarly, TakeReady, TakeNext, Defer, Ack,
                Delete, hashVars
  <2>3. ~\E w \in Worker : Sweep(w)
    BY <1>1 DEF Sweep, BeginSweep, SweepClaim, SweepNext, Release, HandBack, Attempts, GiveUp,
                Record, ReapScan, RemoveOne, RemoveDone, WriteStatus, hashVars
  <2>4. PICK a \in Actor : Run(a) \/ Crash(a) \/ Fault(a)
    BY <2>1, <2>2, <2>3 DEF Next
  <2> QED
    BY <1>1, <2>4 DEF Crash, Fault, Run, Call, Start, SetupFails, Finish, ReportSuccess,
                      ReportFailure, WriteStatus, hashVars
<1>3. a \in Worker /\ ClaimFrom(a) = {{"READY"}}
  BY DEF Actor, OnlyWorkers, ClaimFrom
<1>4. /\ MayMove(job[a], {"READY"})
      /\ status' = [status EXCEPT ![job[a]] = "RUNNING"]
      /\ attempts' = [attempts EXCEPT ![job[a]] = Bump(@)]
  BY <1>1, <1>2, <1>3 DEF Claim, hashVars
<1>5. job[a] = t BY <1>4
<1> QED BY <1>2, <1>3, <1>4, <1>5 DEF MayMove

(* A task comes to wait when it is enqueued or handed back.                *)
LEMMA ReadyMove ==
    ASSUME OnlyWorkers, QueueInv, Next, NEW t \in Task, status[t] # "READY",
           status'[t] = "READY"
    PROVE  status[t] = "NEW" \/ \E w \in Worker : pc[w] = "release" /\ job[w] = t
<1>1. status \in [Task -> Status]
  BY DEF QueueInv, TypeInv, TypeOK, StoreTypeOK
<1>2. CASE NewStep BY <1>1, <1>2 DEF NewStep
<1>3. ASSUME NEW w \in Worker, StatusStep(w) PROVE pc[w] = "release" /\ job[w] = t
  BY <1>1, <1>3 DEF StatusStep
<1>4. ~\E w \in Worker : QuietStep(w) BY DEF QuietStep
<1> QED BY <1>2, <1>3, <1>4, ThreeSteps

LEMMA DelayedMove ==
    ASSUME QueueInv, Next, NEW t \in delayed', t \notin delayed
    PROVE  status[t] = "NEW"
<1>1. ~UNCHANGED delayed OBVIOUS
<1>2. CASE \E u \in Task : Client(u) \/ ResetDies(u)
  BY <1>1, <1>2 DEF Client, EnqueueNow, EnqueueLater, ComesDue, Vanish, ResetRead,
                    ResetWrite, Requeue, ResetDies, delayedVars
<1>3. CASE \E w \in Worker : Receive(w) \/ Sweep(w) \/ Exit(w)
  <2>1. \A w \in Worker : ~Defer(w) BY DEF Defer, QueueInv, MessageInv
  <2> QED
    BY <1>1, <1>3, <2>1
    DEF Exit, Receive, BeginReceive, PromoteOne, LeaveDelayed, PromoteDone, ReadHistory,
        ReadNew, WaitRead, WaitOver, TakeDone, TakeEarly, TakeReady, TakeNext, Ack, Delete,
        Sweep, BeginSweep, SweepClaim, SweepNext, Release, Attempts, GiveUp, Record,
        ReapScan, RemoveOne, RemoveDone, delayedVars
<1>4. CASE \E a \in Actor : Run(a) \/ Crash(a) \/ Fault(a)
  BY <1>1, <1>4 DEF Crash, Fault, Run, Call, Claim, Start, SetupFails, Finish, ReportSuccess,
                    ReportFailure, delayedVars
<1> QED BY <1>2, <1>3, <1>4 DEF Next

(* Deliveries of a message only grow until it is acknowledged; a new one   *)
(* is for a task that was new or in the delayed set.                       *)
LEMMA DeliveriesMove ==
    ASSUME QueueInv, Next, NEW m \in Msg, Live(m)'
    PROVE  \/ Live(m) /\ entry'[m] = entry[m] /\ deliveries'[m] >= deliveries[m]
           \/ /\ ~Live(m) /\ entry'[m] \in Task
              /\ entry'[m] \in delayed \/ status[entry'[m]] = "NEW"
<1> USE DEF QueueInv, TypeInv, TypeOK, StreamTypeOK, Live
<1>0. deliveries[m] \in Nat /\ Bump(deliveries[m]) >= deliveries[m]
  BY DEF Bump
<1>1. CASE UNCHANGED streamVars BY <1>0, <1>1 DEF streamVars
<1>2. ASSUME NEW t \in Task, XAdd(t), t \in delayed \/ status[t] = "NEW"
      PROVE  \/ Live(m) /\ entry'[m] = entry[m] /\ deliveries'[m] >= deliveries[m]
             \/ /\ ~Live(m) /\ entry'[m] \in Task
                /\ entry'[m] \in delayed \/ status[entry'[m]] = "NEW"
  BY <1>0, <1>2 DEF XAdd
<1>3. ASSUME NEW M, DropPending(M)
      PROVE  Live(m) /\ entry'[m] = entry[m] /\ deliveries'[m] >= deliveries[m]
  BY <1>0, <1>3 DEF DropPending
<1>4. ASSUME NEW c, NEW M, Deliver(c, M), \A n \in M : Live(n)
      PROVE  Live(m) /\ entry'[m] = entry[m] /\ deliveries'[m] >= deliveries[m]
  BY <1>0, <1>4 DEF Deliver
<1>5. ASSUME NEW c, NEW n, XClaim(c, n)
      PROVE  Live(m) /\ entry'[m] = entry[m] /\ deliveries'[m] >= deliveries[m]
  BY <1>0, <1>5 DEF XClaim
<1>6. ASSUME NEW n, XDel(n)
      PROVE  Live(m) /\ entry'[m] = entry[m] /\ deliveries'[m] >= deliveries[m]
  BY <1>0, <1>6 DEF XDel
<1>7. CASE \E t \in Task : Client(t) \/ ResetDies(t)
  <2>1. ASSUME NEW t \in Task, EnqueueNow(t) PROVE XAdd(t) /\ status[t] = "NEW"
    BY <2>1 DEF EnqueueNow
  <2>2. \A t \in Task : ~Requeue(t) BY DEF Requeue, MessageInv
  <2> QED
    BY <1>1, <1>2, <1>7, <2>1, <2>2
    DEF Client, EnqueueLater, ComesDue, Vanish, ResetRead, ResetWrite, ResetDies
<1>8. ASSUME NEW w \in Worker, Receive(w)
      PROVE  \/ Live(m) /\ entry'[m] = entry[m] /\ deliveries'[m] >= deliveries[m]
             \/ /\ ~Live(m) /\ entry'[m] \in Task
                /\ entry'[m] \in delayed \/ status[entry'[m]] = "NEW"
  <2>1. CASE PromoteOne(w)
    <3>1. \/ UNCHANGED streamVars
          \/ \E t \in delayed : XAdd(t)
      BY <2>1 DEF PromoteOne
    <3> QED BY <1>1, <1>2, <3>1 DEF StoreTypeOK
  <2>2. ReadHistory(w) \/ ReadNew(w) \/ WaitRead(w) =>
           \E M : Deliver(w, M) /\ \A n \in M : Live(n)
    <3>1. CASE ReadHistory(w)
      BY <3>1 DEF ReadHistory, NextHeld, Oldest
    <3>2. CASE ReadNew(w)
      BY <3>2 DEF ReadNew, NextNew, Oldest
    <3>3. CASE WaitRead(w)
      BY <3>3 DEF WaitRead, NextNew, Oldest
    <3> QED BY <3>1, <3>2, <3>3
  <2>3. CASE Ack(w) \/ Delete(w)
    BY <1>3, <1>6, <2>3 DEF Ack, XAck, Delete
  <2> QED
    BY <1>1, <1>4, <1>8, <2>1, <2>2, <2>3
    DEF Receive, BeginReceive, PromoteDone, WaitOver, TakeDone, TakeEarly, TakeReady, TakeNext,
        Defer
<1>9. CASE \E w \in Worker : Sweep(w) \/ Exit(w)
  BY <1>1, <1>3, <1>5, <1>9
  DEF Exit, DelConsumer, Sweep, BeginSweep, SweepClaim, SweepNext, Release, Attempts, GiveUp,
      Record, ReapScan, RemoveOne, RemoveDone
<1>10. CASE \E a \in Actor : Run(a) \/ Crash(a) \/ Fault(a)
  BY <1>1, <1>10 DEF Crash, Fault, Run, Call, Claim, Start, SetupFails, Finish, ReportSuccess,
                     ReportFailure
<1> QED BY <1>7, <1>8, <1>9, <1>10 DEF Next

(* What a claim will find, if it still finds the task waiting: a start that*)
(* a delivery has paid for.                                                *)
LEMMA StartStays ==
    ASSUME OnlyWorkers, QueueInv, StartsInv, Next, NEW v \in Worker, NEW m \in Msg,
           Unclaimed(v, m), Live(m)'
    PROVE  StartLeft(m)'
<1>1. /\ entry[m] \in Task /\ place[m] = "pending" /\ owner[m] = v
      /\ pc[v] = "release" => cur[v] # m
  BY DEF Unclaimed, QueueInv, TypeInv, LocalOK, JobSteps, RunSteps, CustodyInv, CustodyOf,
         InHand, InBatch, HandSteps, Actor
<1>2. Live(m) BY <1>1 DEF Live
<1>3. entry'[m] = entry[m] /\ deliveries'[m] >= deliveries[m]
  BY <1>2, DeliveriesMove
<1> SUFFICES ASSUME status'[entry[m]] = "READY"
             PROVE  attempts'[entry[m]] < deliveries'[m]
  BY <1>3 DEF StartLeft
<1>4. attempts'[entry[m]] = attempts[entry[m]]
  BY <1>1, AttemptsMove DEF QueueInv
<1>5. status[entry[m]] = "READY"
  <2>1. status[entry[m]] # "NEW"
    BY <1>1, <1>2 DEF QueueInv, MessageInv, LiveMessages
  <2>2. ASSUME NEW w \in Worker, pc[w] = "release", job[w] = entry[m] PROVE FALSE
    <3>1. cur[w] \in Msg /\ Live(cur[w]) /\ owner[cur[w]] = w /\ job[w] = entry[cur[w]]
      BY <2>2 DEF QueueInv, CustodyInv, CustodyOf, InHand, HandSteps, Live
    <3>2. cur[w] = m BY <1>2, <2>2, <3>1 DEF QueueInv, MessageInv, OneMessage
    <3> QED BY <1>1, <2>2, <3>1, <3>2
  <2> QED BY <1>1, <2>1, <2>2, ReadyMove
<1>6. attempts[entry[m]] < deliveries[m] BY <1>5 DEF StartsInv, StartLeft
<1>7. /\ attempts[entry[m]] \in Nat /\ deliveries[m] \in Nat
      /\ deliveries'[m] \in Nat
  BY <1>1, TypeStep DEF QueueInv, TypeInv, TypeOK, StoreTypeOK, StreamTypeOK
<1> QED BY <1>3, <1>4, <1>6, <1>7

LEMMA TriedKept ==
    ASSUME Capped, QueueInv, StartsInv, Next, NEW t \in Task
    PROVE  Tried(t)'
<1>1. /\ attempts[t] \in 0 .. DeliveryCap /\ status \in [Task -> Status]
      /\ \A m \in Msg : deliveries[m] \in Nat /\ deliveries'[m] \in Nat
      /\ OnlyWorkers /\ MaxDeliveries \in Nat \ {0} /\ MaxDeliveries <= DeliveryCap
      /\ DeliveryCap \in Nat
  BY TypeStep DEF QueueInv, TypeInv, TypeOK, StoreTypeOK, StreamTypeOK, Capped
<1>2. Tried(t) BY DEF StartsInv
<1>3. status'[t] = "NEW" => status[t] = "NEW" BY NeverNewAgain DEF QueueInv
<1>4. ASSUME NEW m \in LiveMessages(t)'
      PROVE  \/ m \in LiveMessages(t) /\ deliveries'[m] >= deliveries[m]
             \/ t \in delayed \/ status[t] = "NEW"
  BY <1>4, DeliveriesMove DEF LiveMessages
<1>5. CASE attempts'[t] = attempts[t]
  <2>1. attempts'[t] <= MaxDeliveries BY <1>2, <1>5 DEF Tried
  <2>2. status'[t] = "READY" => attempts'[t] < MaxDeliveries
    <3>1. status[t] = "NEW" => attempts[t] = 0 BY <1>1, <1>2 DEF Tried
    <3>2. ASSUME NEW w \in Worker, pc[w] = "release", job[w] = t
          PROVE  attempts[t] < MaxDeliveries
      BY <3>2 DEF StartsInv, Decided
    <3> QED BY <1>1, <1>2, <1>5, <3>1, <3>2, ReadyMove DEF Tried
  <2>3. attempts'[t] > 0 => t \notin delayed' /\ status'[t] # "NEW"
    BY <1>2, <1>3, <1>5, DelayedMove DEF Tried
  <2>4. \A m \in LiveMessages(t)' : attempts'[t] <= deliveries'[m]
    <3> SUFFICES ASSUME NEW m \in LiveMessages(t)' PROVE attempts[t] <= deliveries'[m]
      BY <1>5
    <3>1. m \in Msg BY DEF LiveMessages
    <3>2. CASE m \in LiveMessages(t) /\ deliveries'[m] >= deliveries[m]
      BY <1>1, <1>2, <3>1, <3>2 DEF Tried
    <3>3. CASE t \in delayed \/ status[t] = "NEW"
      BY <1>1, <1>2, <3>1, <3>3 DEF Tried
    <3> QED BY <1>4, <3>2, <3>3
  <2> QED BY <2>1, <2>2, <2>3, <2>4 DEF Tried
<1>6. CASE attempts'[t] # attempts[t]
  <2>1. PICK w \in Worker : /\ Claim(w) /\ job[w] = t
                            /\ status[t] = "READY" /\ status'[t] = "RUNNING"
                            /\ attempts'[t] = Bump(attempts[t])
    BY <1>1, <1>6, AttemptsMove DEF QueueInv
  <2>2. attempts[t] < MaxDeliveries BY <1>2, <2>1 DEF Tried
  <2>3. attempts'[t] = attempts[t] + 1 BY <1>1, <2>1, <2>2 DEF Bump
  <2>4. pc[w] = "claim" /\ UNCHANGED <<streamVars, delayedVars>> BY <2>1 DEF Claim
  <2>5. cur[w] \in Msg /\ Live(cur[w]) /\ entry[cur[w]] = t
    BY <2>1, <2>4 DEF QueueInv, CustodyInv, CustodyOf, InHand, HandSteps, RunSteps, Live
  <2>6. t \notin delayed' BY <2>4, <2>5 DEF QueueInv, MessageInv, OneMessage, delayedVars
  <2>7. attempts[t] < deliveries[cur[w]]
    BY <2>1, <2>4, <2>5 DEF StartsInv, StartLeft, Unclaimed
  <2>8. \A m \in LiveMessages(t)' : m = cur[w] /\ deliveries'[m] = deliveries[m]
    BY <2>4, <2>5 DEF LiveMessages, Live, streamVars, QueueInv, MessageInv, OneMessage
  <2>9. \A m \in LiveMessages(t)' : attempts'[t] <= deliveries'[m]
    BY <1>1, <2>3, <2>5, <2>7, <2>8
  <2> QED BY <1>1, <2>1, <2>2, <2>3, <2>6, <2>9 DEF Tried
<1> QED BY <1>5, <1>6

(* The hand of a worker after a step: as before, or its own step leads to  *)
(* a decision, or to messages it has just read.                            *)
Hand(w) == <<pc[w], cur[w], job[w], batch[w]>>

LEMMA HandStays ==
    ASSUME TypeInv, Next, NEW w \in Worker, Hand(w)' # Hand(w)
    PROVE  Own(w)
BY OwnOrClient, OthersLocals, ClientLocals DEF localVars, Hand, Actor

LEMMA Decides ==
    ASSUME Capped, QueueInv, StartsInv, Next, NEW w \in Worker
    PROVE  Decided(w)'
<1> USE DEF TypeInv, TypeOK, LocalTypeOK, StoreTypeOK, StreamTypeOK
<1>1. /\ w \in Actor /\ pc \in [Actor -> Steps] /\ job \in [Actor -> Task \cup {NoTask}]
      /\ attempts \in [Task -> 0 .. DeliveryCap] /\ OnlyWorkers
      /\ MaxDeliveries \in Nat \ {0}
  BY DEF QueueInv, Actor, Capped
<1> SUFFICES ASSUME pc'[w] \in {"release", "give_up"} PROVE Decided(w)'
  BY DEF Decided
<1>2. CASE Hand(w)' = Hand(w)
  <2>1. pc'[w] = pc[w] /\ job'[w] = job[w] BY <1>2 DEF Hand
  <2>2. job[w] \in Task /\ pc[w] \in HandSteps
    BY <1>1, <2>1 DEF QueueInv, LocalOK, JobSteps, HandSteps
  <2>3. attempts'[job[w]] = attempts[job[w]]
    <3> SUFFICES ASSUME NEW v \in Worker, Claim(v), job[v] = job[w] PROVE FALSE
      BY <1>1, <2>2, AttemptsMove DEF QueueInv
    <3>1. pc[v] = "claim" BY DEF Claim
    <3> QED BY <2>1, <2>2, <3>1, OneHandler DEF HandSteps, RunSteps
  <2> QED BY <2>1, <2>3 DEF StartsInv, Decided
<1>3. CASE Own(w)
  <2>0. ~\E p \in Steps \ {"release", "give_up"} : Go(w, p) \/ Leave(w, p)
    BY <1>1 DEF Go, Leave
  <2>1. ~Run(w)
    <3>1. {"ack", "loop", "start", "run", "sent", "failed"}
             \subseteq Steps \ {"release", "give_up"}
      BY DEF Steps, RunSteps
    <3>2. ~Call(w) BY DEF Call
    <3>3. Run(w) => \E p \in {"ack", "loop", "start", "run", "sent", "failed"} :
                      Go(w, p) \/ Leave(w, p)
      BY <3>2 DEF Run, Claim, Start, SetupFails, Finish, ReportSuccess, ReportFailure, AfterRun,
                  Raise, Base
    <3> QED BY <2>0, <3>1, <3>3
  <2>2. ~Crash(w) /\ ~Fault(w) /\ ~Exit(w)
    BY <2>0 DEF Crash, Fault, Exit, Raise, Base, Steps
  <2>3. ~Receive(w)
    BY <1>1
    DEF Receive, BeginReceive, PromoteOne, PromoteDone, ReadHistory, ReadNew, WaitRead, WaitOver,
        TakeDone, TakeEarly, TakeReady, TakeNext, Handle, Defer, Ack, Delete, Go, Leave
  <2>4. CASE SweepClaim(w)
    <3>1. PICK m \in Msg :
             /\ In(m, at[w]) /\ XClaim(w, m)
             /\ job' = [job EXCEPT ![w] = entry[m]]
             /\ pc' = [pc EXCEPT ![w] = IF CapReached(m) THEN "attempts" ELSE "release"]
             /\ UNCHANGED hashVars
      BY <2>4 DEF SweepClaim
    <3>2. pc'[w] = "release" /\ ~CapReached(m) /\ job'[w] = entry[m] /\ entry[m] \in Task
      BY <1>1, <3>1 DEF In
    <3>3. attempts[entry[m]] <= deliveries[m] /\ deliveries[m] \in Nat
      BY <3>1, <3>2 DEF StartsInv, Tried, LiveMessages, Live, XClaim, QueueInv
    <3>4. deliveries[m] < MaxDeliveries BY <1>1, <3>2, <3>3 DEF CapReached
    <3>5. attempts[entry[m]] < MaxDeliveries BY <1>1, <3>2, <3>3, <3>4
    <3> QED BY <3>1, <3>2, <3>5 DEF Decided, hashVars
  <2>5. CASE Attempts(w)
    <3>1. job[w] \in Task BY <1>1, <2>5 DEF Attempts, QueueInv, LocalOK, JobSteps
    <3>2. attempts[job[w]] <= MaxDeliveries BY <3>1 DEF StartsInv, Tried
    <3>3. /\ job'[w] = job[w] /\ attempts' = attempts
          /\ pc'[w] = IF StartedOften(job[w]) THEN "give_up" ELSE "release"
      BY <1>1, <2>5 DEF Attempts, Go, hashVars
    <3> QED BY <1>1, <3>1, <3>2, <3>3 DEF Decided, StartedOften
  <2>6. CASE Sweep(w) /\ ~SweepClaim(w) /\ ~Attempts(w)
    BY <1>1, <2>6
    DEF Sweep, BeginSweep, SweepNext, Release, GiveUp, Record, ReapScan, RemoveOne, RemoveDone,
        Go, Leave
  <2> QED BY <1>3, <2>1, <2>2, <2>3, <2>4, <2>5, <2>6 DEF Own
<1> QED BY <1>2, <1>3, HandStays DEF QueueInv

(* A read pays for a start: what it returns has a delivery more than its   *)
(* task has starts, if the task waits.                                     *)
LEMMA ReadPays ==
    ASSUME Capped, QueueInv, StartsInv, NEW w \in Worker, NEW M \in SUBSET Msg,
           Deliver(w, M), UNCHANGED hashVars, NEW m \in M, entry[m] \in Task, Live(m)
    PROVE  StartLeft(m)'
<1> SUFFICES ASSUME status[entry[m]] = "READY" PROVE attempts[entry[m]] < deliveries'[m]
  BY DEF StartLeft, Deliver, hashVars
<1>1. /\ attempts[entry[m]] <= deliveries[m] /\ attempts[entry[m]] < MaxDeliveries
  BY DEF StartsInv, Tried, LiveMessages
<1>2. /\ attempts[entry[m]] \in Nat /\ deliveries[m] \in 0 .. DeliveryCap
      /\ MaxDeliveries \in Nat /\ MaxDeliveries <= DeliveryCap /\ DeliveryCap \in Nat
  BY DEF QueueInv, TypeInv, TypeOK, StoreTypeOK, StreamTypeOK
<1>3. deliveries'[m] = Bump(deliveries[m]) BY DEF Deliver
<1> QED BY <1>1, <1>2, <1>3 DEF Bump

LEMMA Unclaims ==
    ASSUME Capped, QueueInv, StartsInv, Next, NEW w \in Worker, NEW m \in Msg,
           Unclaimed(w, m)'
    PROVE  StartLeft(m)'
<1> USE DEF TypeInv, TypeOK, LocalTypeOK
<1>1. /\ w \in Actor /\ pc \in [Actor -> Steps] /\ cur \in [Actor -> Msg \cup {0}]
      /\ batch \in [Actor -> SUBSET Msg]
  BY DEF QueueInv, Actor
<1>2. Live(m)'
  <2>1. CustodyInv' BY CustodyStep DEF Capped, OnlyWorkers, QueueInv
  <2> QED
    BY <2>1 DEF CustodyInv, CustodyOf, InHand, InBatch, Unclaimed, Live, HandSteps, RunSteps
<1>3. CASE Unclaimed(w, m) BY <1>2, <1>3, StartStays DEF Capped
<1>4. CASE ~Unclaimed(w, m)
  <2>1. Own(w)
    BY <1>4, HandStays DEF Unclaimed, Hand, QueueInv
  <2>2. ~\E p \in Steps \ {"claim"} : Go(w, p) \/ Leave(w, p)
    BY <1>1, <1>4 DEF Go, Leave, Unclaimed
  <2>3. ~Run(w)
    <3>1. {"ack", "loop", "start", "run", "sent", "failed"} \subseteq Steps \ {"claim"}
      BY DEF Steps, RunSteps
    <3>2. ~Call(w) BY DEF Call
    <3>3. Run(w) => \E p \in {"ack", "loop", "start", "run", "sent", "failed"} :
                      Go(w, p) \/ Leave(w, p)
      BY <3>2 DEF Run, Claim, Start, SetupFails, Finish, ReportSuccess, ReportFailure, AfterRun,
                  Raise, Base
    <3> QED BY <2>2, <3>1, <3>3
  <2>4. ~Crash(w) /\ ~Fault(w) /\ ~Exit(w)
    BY <2>2 DEF Crash, Fault, Exit, Raise, Base, Steps
  <2>5. ~Sweep(w)
    BY <1>1, <1>4
    DEF Sweep, BeginSweep, SweepClaim, SweepNext, Release, Attempts, GiveUp, Record, ReapScan,
        RemoveOne, RemoveDone, Go, Leave, Unclaimed
  <2>6. ASSUME NEW M \in SUBSET Msg, Deliver(w, M), \A n \in M : Live(n) /\ entry[n] \in Task,
               batch' = [batch EXCEPT ![w] = M], pc' = [pc EXCEPT ![w] = "take"],
               UNCHANGED hashVars
        PROVE  StartLeft(m)'
    <3>1. m \in M BY <1>1, <2>6 DEF Unclaimed
    <3> QED BY <2>6, <3>1, ReadPays
  <2>7. CASE ReadHistory(w)
    <3> DEFINE M == UNION {NextHeld(w, s) : s \in Serves[w]}
    <3>1. M \in SUBSET Msg /\ \A n \in M : Live(n) /\ entry[n] \in Task
      BY DEF NextHeld, Oldest, Live, In
    <3>2. /\ Deliver(w, M) /\ batch' = [batch EXCEPT ![w] = M]
          /\ pc' = [pc EXCEPT ![w] = "take"] /\ UNCHANGED hashVars
      BY <2>7 DEF ReadHistory
    <3> HIDE DEF M
    <3> QED BY <2>6, <3>1, <3>2
  <2>8. CASE ReadNew(w)
    <3> DEFINE M == IF at[w] \in Serves[w] THEN NextNew(at[w]) ELSE {}
    <3>1. M \in SUBSET Msg /\ \A n \in M : Live(n) /\ entry[n] \in Task
      BY DEF NextNew, Oldest, Live, In
    <3>2. /\ Deliver(w, M) /\ batch' = [batch EXCEPT ![w] = M]
          /\ pc' = [pc EXCEPT ![w] = "take"] /\ UNCHANGED hashVars
      BY <2>8 DEF ReadNew
    <3> HIDE DEF M
    <3> QED BY <2>6, <3>1, <3>2
  <2>9. CASE WaitRead(w)
    <3> DEFINE M == UNION {NextNew(s) : s \in Serves[w]}
    <3>1. M \in SUBSET Msg /\ \A n \in M : Live(n) /\ entry[n] \in Task
      BY DEF NextNew, Oldest, Live, In
    <3>2. /\ Deliver(w, M) /\ batch' = [batch EXCEPT ![w] = M]
          /\ pc' = [pc EXCEPT ![w] = "take"] /\ UNCHANGED hashVars
      BY <2>9 DEF WaitRead
    <3> HIDE DEF M
    <3> QED BY <2>6, <3>1, <3>2
  <2>10. ~TakeDone(w) /\ ~TakeEarly(w)
    BY <1>1, <1>4 DEF TakeDone, TakeEarly, Handle, Unclaimed
  <2>11. ~TakeReady(w)
    BY <1>1, <1>4 DEF TakeReady, FirstOf, Handle, Unclaimed
  <2>12. Receive(w) => ReadHistory(w) \/ ReadNew(w) \/ WaitRead(w)
    BY <1>1, <1>4, <2>10, <2>11
    DEF Receive, BeginReceive, PromoteOne, PromoteDone, WaitOver, TakeNext, Defer, Ack, Delete,
        Go, Leave, Unclaimed
  <2> QED BY <2>1, <2>3, <2>4, <2>5, <2>7, <2>8, <2>9, <2>12 DEF Own
<1> QED BY <1>3, <1>4

LEMMA StartsInit == Capped /\ Init => StartsInv
<1> SUFFICES ASSUME Capped, Init PROVE StartsInv OBVIOUS
<1>1. \A t \in Task : attempts[t] = 0 /\ status[t] = "NEW" /\ LiveMessages(t) = {}
  BY DEF Init, StreamInit, LiveMessages, Live
<1>2. \A w \in Worker : pc[w] = "loop" /\ batch[w] = {} BY DEF Init, Base, Actor
<1> QED
  BY <1>1, <1>2 DEF Capped, StartsInv, Tried, Decided, Unclaimed

LEMMA StartsStep ==
    ASSUME Capped, QueueInv, StartsInv, [Next]_vars
    PROVE  StartsInv'
<1>1. CASE Next BY <1>1, TriedKept, Decides, Unclaims DEF StartsInv
<1>2. CASE UNCHANGED vars
  BY <1>2
  DEF vars, streamVars, hashVars, delayedVars, localVars, StartsInv, Tried, Decided, Unclaimed,
      StartLeft, LiveMessages, Live
<1> QED BY <1>1, <1>2

(* A task that takes every worker down with it is started MaxDeliveries    *)
(* times at most, and a sweep gives up only on one that was started that   *)
(* often.                                                                  *)
THEOREM AbandonedInTime == ASSUME Capped PROVE Spec => AbandonedAfterStarts
<1> DEFINE A == \A t \in Task :
          /\ attempts'[t] > attempts[t] => attempts'[t] <= MaxDeliveries
          /\ (/\ status[t] \in {"READY", "RUNNING"} /\ status'[t] = "FAILED"
              /\ \A a \in Actor : job[a] = t => ~Executing(a))
                => attempts[t] = MaxDeliveries
<1>1. Init => QueueInv /\ StatusInv /\ StartsInv BY QueueInit, StartsInit
<1>2. QueueInv /\ StatusInv /\ StartsInv /\ [Next]_vars => (QueueInv /\ StatusInv /\ StartsInv)'
  BY QueueStep, StartsStep DEF Capped
<1>3. QueueInv /\ StatusInv /\ StartsInv /\ [Next]_vars => [A]_vars
  <2> SUFFICES ASSUME QueueInv, StatusInv, StartsInv, Next, NEW t \in Task
               PROVE  /\ attempts'[t] <= MaxDeliveries
                      /\ (/\ status[t] \in {"READY", "RUNNING"} /\ status'[t] = "FAILED"
                          /\ \A a \in Actor : job[a] = t => ~Executing(a))
                            => attempts[t] = MaxDeliveries
    OBVIOUS
  <2>1. attempts'[t] <= MaxDeliveries BY TriedKept DEF Tried
  <2>2. ASSUME status[t] \in {"READY", "RUNNING"}, status'[t] = "FAILED",
               \A a \in Actor : job[a] = t => ~Executing(a)
        PROVE  attempts[t] = MaxDeliveries
    <3>1. status \in [Task -> Status] /\ Worker \subseteq Actor
      BY DEF QueueInv, TypeInv, TypeOK, StoreTypeOK, Actor
    <3>2. PICK w \in Worker : StatusStep(w)
      BY <2>2, <3>1, ThreeSteps DEF NewStep, QuietStep, Capped
    <3>3. job[w] = t BY <2>2, <3>1, <3>2 DEF StatusStep
    <3>4. StatusSeen(w) BY DEF StatusInv
    <3>5. pc[w] = "give_up"
      BY <2>2, <3>1, <3>2, <3>3, <3>4 DEF StatusStep, StatusSeen
    <3> QED BY <3>3, <3>5 DEF StartsInv, Decided
  <2> QED BY <2>1, <2>2
<1> QED BY <1>1, <1>2, <1>3, PTL DEF Spec, AbandonedAfterStarts

============================================================================
