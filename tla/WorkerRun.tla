----------------------------- MODULE WorkerRun -----------------------------
(***************************************************************************)
(* One run of a worker, from its first pass to its exit code: the loop of  *)
(* run_redis_tasks with its counters, --max-tasks and the exit codes, or a *)
(* call of executor.process_tasks (the HTTP endpoints; process_one_task is *)
(* the call with max_tasks 1), over the receive of the streams broker.     *)
(*                                                                         *)
(* TaskQueue looks at many workers and asks what becomes of the tasks.     *)
(* Here one worker runs among others and the questions are what it takes   *)
(* next, when it stops and what it reports.  An acknowledgement is one     *)
(* step, delayed tasks enter as messages when they are due, and what other *)
(* workers, triggers and operators do to a task is one step as well: the   *)
(* worker can only tell READY, gone and the rest apart.                    *)
(***************************************************************************)
EXTENDS RedisStream

CONSTANTS
    Me, Peer,       \* the consumer of this run, and that of another worker
    Setups,         \* how the run may be started, and among what: see Setup
    MaxFaults       \* bound: failed commands

ReceiveSteps == {"history", "take", "new", "wait"}
Steps == {"loop", "claim", "run", "ack", "empty", "error", "done"}
            \cup ReceiveSteps
Outcome == {"SUCCESSFUL", "FAILED", "raised"}

Setup == [mode : {"once", "continuous", "call"}, waits : BOOLEAN,
          maxTasks : Nat, broken : SUBSET Task,
          others : SUBSET {"trigger", "delete", "peer", "stop"},
          faultAt : SUBSET {"receive", "run", "ack"}]

ASSUME WorkerRunAssumption ==
    /\ Worker = {Me, Peer} /\ Me # Peer
    /\ Setups \subseteq Setup
    /\ \A u \in Setups : u.waits => u.mode = "continuous"
    /\ MaxFaults \in Nat

VARIABLES
    setup,          \* how this run was started; it never changes
    status,         \* the hash's status; "NEW" not enqueued, "GONE" no hash
    stop,           \* the shutdown event, or stop_event
    pc,             \* what the run does next
    batch,          \* messages a read returned and _take has not looked at
    at,             \* the stream it reads new messages from next
    cur,            \* the message in hand, 0 for none
    result,         \* what run_task returned for it, "none" for None
    processed,      \* tasks_processed
    failed,         \* self.tasks_failed
    code,           \* "running", then what the run reports
    offered,        \* history: messages to serve when the receive began
    owned,          \* history: those this consumer held already
    dropped,        \* history: those it acknowledged since, nothing to run
    tally,          \* history: how often run_task came to each outcome
    faults          \* what is used up of the bound

Mode == setup.mode          \* --continuous or not, or a call of process_tasks
Waits == setup.waits        \* continuous, with REDIS_BLOCK_TIMEOUT
MaxTasks == setup.maxTasks  \* --max-tasks, max_tasks; 0 for no limit
Broken == setup.broken      \* tasks that cannot be started: no import, say
Others == setup.others      \* what goes on around the run
FaultAt == setup.faultAt    \* where a Redis command of the run may fail

taskVars == <<streamVars, status>>
counters == <<processed, failed, code, tally>>
history == <<offered, owned, dropped>>
receiveVars == <<batch, at, cur, result, history>>
vars == <<taskVars, stop, pc, receiveVars, counters, faults, setup>>

TypeOK ==
    /\ setup \in Setups
    /\ StreamTypeOK
    /\ status \in [Task -> {"NEW", "GONE", "READY", "RUNNING", "SUCCESSFUL", "FAILED"}]
    /\ stop \in BOOLEAN
    /\ pc \in Steps
    /\ batch \subseteq Msg
    /\ offered \subseteq Msg /\ owned \subseteq Msg /\ dropped \subseteq Msg
    /\ at \in 1 .. NumStreams + 1
    /\ cur \in Msg \cup {0}
    /\ result \in Outcome \cup {"none"}
    /\ processed \in Nat /\ failed \in Nat
    /\ code \in {"running", "ok", "empty", "failed", "raised"}
    /\ tally \in [Outcome -> Nat]
    /\ faults \in 0 .. MaxFaults

Init ==
    /\ setup \in Setups
    /\ StreamInit
    /\ status = [t \in Task |-> "NEW"]
    /\ stop = FALSE
    /\ pc = "loop"
    /\ batch = {} /\ at = 1 /\ cur = 0 /\ result = "none"
    /\ processed = 0 /\ failed = 0
    /\ code = "running"
    /\ offered = {} /\ owned = {} /\ dropped = {}
    /\ tally = [o \in Outcome |-> 0]
    /\ faults = 0

----------------------------------------------------------------------------
(* Around the run                                                          *)

Gone == {t \in Task : status[t] = "GONE"}

Mine(m) == place[m] = "pending" /\ owner[m] = Me

(* A message this worker could be served and whose task could run.         *)
Runnable(m) == (place[m] = "queued" \/ Mine(m)) /\ status[entry[m]] = "READY"

(* XACK and XDEL.                                                          *)
Remove(m) ==
    /\ place' = [place EXCEPT ![m] = "deleted"]
    /\ owner' = [owner EXCEPT ![m] = NoWorker]
    /\ deliveries' = [deliveries EXCEPT ![m] = 0]
    /\ UNCHANGED entry

Enqueue(t) ==
    /\ status[t] = "NEW"
    /\ status' = [status EXCEPT ![t] = "READY"]
    /\ XAdd(t)

(* run_task_by_id of another process, which needs no message.              *)
TriggerRuns(t) ==
    /\ "trigger" \in Others /\ status[t] = "READY"
    /\ status' = [status EXCEPT ![t] = "SUCCESSFUL"]
    /\ UNCHANGED streamVars

OperatorDeletes(t) ==
    /\ "delete" \in Others /\ status[t] \notin {"NEW", "GONE"}
    /\ status' = [status EXCEPT ![t] = "GONE"]
    /\ UNCHANGED streamVars

(* Another worker reads a message, and runs and acknowledges it, unless it *)
(* dies and leaves it pending.                                             *)
PeerReads(s) ==
    /\ "peer" \in Others /\ NextNew(s) # {}
    /\ Deliver(Peer, NextNew(s))
    /\ UNCHANGED status

PeerRuns(m) ==
    /\ place[m] = "pending" /\ owner[m] = Peer /\ status[entry[m]] = "READY"
    /\ status' = [status EXCEPT ![entry[m]] = "SUCCESSFUL"]
    /\ Remove(m)

Around ==
    /\ \/ \E t \in Task : Enqueue(t) \/ TriggerRuns(t) \/ OperatorDeletes(t)
       \/ \E s \in Stream : PeerReads(s)
       \/ \E m \in Msg : PeerRuns(m)
    /\ UNCHANGED <<stop, pc, receiveVars, counters, faults, setup>>

Stop ==
    /\ "stop" \in Others /\ ~stop
    /\ stop' = TRUE
    /\ UNCHANGED <<taskVars, pc, receiveVars, counters, faults, setup>>

----------------------------------------------------------------------------
(* The end of the run                                                      *)

(* With both options given; a call returns its results instead.            *)
ExitCode(p, f) == IF f > 0 THEN "failed" ELSE IF p = 0 THEN "empty" ELSE "ok"

Leave(p, f) ==
    /\ pc' = "done"
    /\ code' = IF Mode = "call" THEN "ok" ELSE ExitCode(p, f)

(* An exception leaves process_tasks, and the results with it.             *)
Raise == pc' = "done" /\ code' = "raised"

Continue(p) == pc' = p /\ UNCHANGED code

----------------------------------------------------------------------------
(* A pass: sweep, receive                                                  *)

(* claim_stale_messages makes a message of another worker this one's.      *)
Sweep ==
    /\ pc = "loop" /\ ~stop /\ Mode # "call"
    /\ \E m \in Msg : owner[m] = Peer /\ XClaim(Me, m)
    /\ UNCHANGED <<status, stop, pc, receiveVars, counters, faults, setup>>

BeginReceive ==
    /\ batch' = {} /\ at' = 1 /\ cur' = 0 /\ result' = "none"
    /\ offered' = {m \in Msg : Runnable(m)}
    /\ owned' = {m \in Msg : Mine(m)}
    /\ dropped' = {}
    /\ Continue("history")

Pass ==
    /\ pc = "loop"
    /\ \/ stop /\ Leave(processed, failed) /\ UNCHANGED receiveVars
       \/ ~stop /\ BeginReceive
    /\ UNCHANGED <<taskVars, stop, processed, failed, tally, faults, setup>>

Read(M) ==
    /\ Deliver(Me, M)
    /\ batch' = M
    /\ Continue("take")
    /\ UNCHANGED <<status, stop, cur, result, history,
                   processed, failed, tally, faults, setup>>

(* Mutant: what this consumer holds is not read again.                     *)
NothingHeld == {}

Held == UNION {NextHeld(Me, s) : s \in Stream}

ReadHistory == pc = "history" /\ Read(Held) /\ UNCHANGED at

(* New messages of one stream, then of the next.                           *)
ReadNew == pc = "new" /\ Read(NextNew(at)) /\ at' = at + 1

(* Every stream at once, as soon as one has a message.                     *)
WaitRead ==
    /\ pc = "wait"
    /\ LET M == UNION {NextNew(s) : s \in Stream} IN M # {} /\ Read(M)
    /\ UNCHANGED at

WaitOver ==
    /\ pc = "wait"
    /\ Continue("empty")
    /\ UNCHANGED <<taskVars, stop, receiveVars, processed, failed, tally, faults, setup>>

----------------------------------------------------------------------------
(* _take and _resolve                                                      *)

(* Mutant: the messages of a read are served in any order.                 *)
AnyOf(M) == M

(* The batch in the order its streams are served.                          *)
FirstOf(M) ==
    {m \in M : \A n \in M : StreamOf[entry[m]] <= StreamOf[entry[n]]}

(* Nothing to run: acknowledged, and nothing is read in its place.         *)
Drop ==
    /\ pc = "take"
    /\ \E m \in FirstOf(batch) :
          /\ status[entry[m]] # "READY"
          /\ Remove(m)
          /\ batch' = batch \ {m} /\ dropped' = dropped \cup {m}
    /\ UNCHANGED <<status, stop, pc, at, cur, result, offered, owned,
                   counters, faults, setup>>

(* The first message that runs; the rest of the batch stays pending.       *)
Take ==
    /\ pc = "take"
    /\ \E m \in FirstOf(batch) : status[entry[m]] = "READY" /\ cur' = m
    /\ batch' = {}
    /\ Continue("claim")
    /\ UNCHANGED <<taskVars, stop, at, result, history,
                   processed, failed, tally, faults, setup>>

(* Mutant: receive returns after the first stream.                         *)
AfterFirst == IF at = 1 THEN "new" ELSE IF Waits THEN "wait" ELSE "empty"

(* Mutant: one stream more.                                                *)
OneMore == IF at <= NumStreams + 1 THEN "new" ELSE "empty"

NextRead == IF at <= NumStreams THEN "new" ELSE IF Waits THEN "wait" ELSE "empty"

TakeOver ==
    /\ pc = "take" /\ batch = {}
    /\ Continue(NextRead)
    /\ UNCHANGED <<taskVars, stop, receiveVars, processed, failed, tally, faults, setup>>

(* Mutant: a one-shot run goes on when there is nothing to do.             *)
NeverEnds == FALSE

OneShot == Mode # "continuous"

(* Nothing to run.  A continuous worker waits for the next pass, until a   *)
(* shutdown ends the wait.                                                 *)
Empty ==
    /\ pc = "empty"
    /\ \/ OneShot /\ Leave(processed, failed)
       \/ ~OneShot /\ stop /\ ~Waits /\ Leave(processed, failed)
       \/ ~OneShot /\ ~(stop /\ ~Waits) /\ Continue("loop")
    /\ UNCHANGED <<taskVars, stop, receiveVars, processed, failed, tally, faults, setup>>

Receive ==
    \/ Pass \/ ReadHistory \/ ReadNew \/ WaitRead \/ WaitOver
    \/ Drop \/ Take \/ TakeOver \/ Empty

----------------------------------------------------------------------------
(* run_task, acknowledge, count                                            *)

Tally(o) == tally' = [tally EXCEPT ![o] = @ + 1]

(* The claim: a hash that is gone raises, one in another status is None.   *)
Claim ==
    /\ pc = "claim"
    /\ LET t == entry[cur] IN
          \/ /\ status[t] = "READY"
             /\ status' = [status EXCEPT ![t] = "RUNNING"]
             /\ Continue("run") /\ UNCHANGED result
          \/ /\ t \in Gone
             /\ Continue("error") /\ UNCHANGED <<status, result>>
          \/ /\ t \notin Gone /\ status[t] # "READY"
             /\ Continue("ack") /\ result' = "none" /\ UNCHANGED status
    /\ UNCHANGED <<streamVars, stop, batch, at, cur, history,
                   processed, failed, tally, faults, setup>>

(* The function ran and its result is written, if there is still a hash.   *)
Finish ==
    /\ pc = "run" /\ entry[cur] \notin Gone /\ entry[cur] \notin Broken
    /\ \E o \in {"SUCCESSFUL", "FAILED"} :
          /\ status' = [status EXCEPT ![entry[cur]] = o]
          /\ result' = o /\ Tally(o)
    /\ Continue("ack")
    /\ UNCHANGED <<streamVars, stop, batch, at, cur, history,
                   processed, failed, faults, setup>>

(* The task could not be started, or its result not be read back from a    *)
(* hash that was deleted: a failure is recorded, and run_task raises.      *)
CannotRun ==
    /\ pc = "run" /\ (entry[cur] \in Gone \/ entry[cur] \in Broken)
    /\ status' = [status EXCEPT ![entry[cur]] = "FAILED"]
    /\ Tally("raised")
    /\ Continue("error")
    /\ UNCHANGED <<streamVars, stop, receiveVars, processed, failed, faults, setup>>

(* Mutant: a claim that was lost counts as a processed task.               *)
CountsAny == TRUE

Counts == result # "none"

Limit == MaxTasks > 0 /\ processed + 1 >= MaxTasks

(* Mutant: only what raised counts as a failure.                           *)
NoFailure == 0

Failure == IF result = "FAILED" THEN 1 ELSE 0

(* A task that was not run here is no result: process_one_task receives    *)
(* again at once, the worker starts its next pass.                         *)
Acknowledge ==
    /\ pc = "ack"
    /\ Remove(cur)
    /\ IF Counts
       THEN /\ processed' = processed + 1 /\ failed' = failed + Failure
            /\ \/ Limit /\ Leave(processed', failed')
               \/ ~Limit /\ Continue("loop")
            /\ UNCHANGED receiveVars
       ELSE /\ \/ Mode = "call" /\ BeginReceive
               \/ Mode # "call" /\ Continue("loop") /\ UNCHANGED receiveVars
            /\ UNCHANGED <<processed, failed>>
    /\ UNCHANGED <<status, stop, tally, faults, setup>>

(* The except clause around the run of a message.                          *)
Error ==
    /\ pc = "error"
    /\ IF Mode = "call" THEN Raise /\ UNCHANGED failed
       ELSE /\ failed' = failed + 1
            /\ \/ Mode = "once" /\ Leave(processed, failed')
               \/ Mode = "continuous" /\ stop /\ Leave(processed, failed')
               \/ Mode = "continuous" /\ ~stop /\ Continue("loop")
    /\ UNCHANGED <<taskVars, stop, receiveVars, processed, tally, faults, setup>>

RunMessage == Claim \/ Finish \/ CannotRun \/ Acknowledge \/ Error

----------------------------------------------------------------------------
(* Redis commands fail                                                     *)

ReceiveFails ==
    /\ pc \in ReceiveSteps /\ "receive" \in FaultAt
    /\ \/ Mode = "call" /\ Raise
       \/ Mode = "once" /\ Leave(processed, failed)
       \/ Mode = "continuous" /\ stop /\ Leave(processed, failed)
       \/ Mode = "continuous" /\ ~stop /\ Continue("loop")
    /\ UNCHANGED tally

(* The task stays as it is, and its message pending.                       *)
RunFails ==
    /\ pc \in {"claim", "run"} /\ "run" \in FaultAt
    /\ Tally("raised") /\ Continue("error")

AckFails ==
    /\ pc = "ack" /\ "ack" \in FaultAt
    /\ Continue("error") /\ UNCHANGED tally

Fault ==
    /\ faults < MaxFaults /\ faults' = faults + 1
    /\ ReceiveFails \/ RunFails \/ AckFails
    /\ UNCHANGED <<taskVars, stop, receiveVars, processed, failed, setup>>

Step == Receive \/ RunMessage

Next == Step \/ Sweep \/ Around \/ Stop \/ Fault

Spec == Init /\ [][Next]_vars

(* The process runs: it goes on with its next command.                     *)
FairSpec == Spec /\ WF_vars(Step)

----------------------------------------------------------------------------
(* Properties                                                              *)

(* A message that needs no run is acknowledged and none is read from its   *)
(* stream in its place: those behind it wait for the next receive.         *)
Hidden(n) == \E k \in dropped : k < n /\ StreamOf[entry[k]] = StreamOf[entry[n]]

(* "No tasks available" is true but for those: nothing else that was       *)
(* waiting for this worker when the receive began is waiting still         *)
(* (receive, process_one_task).                                            *)
EmptyMeansEmpty ==
    pc = "empty" => \A m \in offered : Runnable(m) => Hidden(m)

(* What is served before m: every message this consumer holds, and among   *)
(* those of one kind the streams of higher priority.                       *)
Before(n, m) ==
    \/ n \in owned /\ m \notin owned
    \/ (n \in owned <=> m \in owned) /\ StreamOf[entry[n]] < StreamOf[entry[m]]

(* A message is only taken when nothing that goes before it was there      *)
(* when the receive began and could still run, but for what is hidden      *)
(* (receive's docstring).                                                  *)
PriorityKept ==
    pc = "claim" =>
        \A n \in offered : Runnable(n) /\ Before(n, cur) => Hidden(n)

(* The count a run ends with is the number of tasks it ran to a result,    *)
(* and at no time are those more than --max-tasks or max_tasks, as long as *)
(* every acknowledgement succeeds.                                         *)
Results == tally["SUCCESSFUL"] + tally["FAILED"]

CountIsExact ==
    "ack" \notin FaultAt =>
        /\ MaxTasks > 0 => Results <= MaxTasks
        /\ pc = "done" /\ code # "raised" => processed = Results

(* The table of exit codes: 0 if something ran and all of it succeeded,    *)
(* the failed code whenever a task failed or could not be run, and only    *)
(* then unless an acknowledgement failed or a task was deleted under the   *)
(* run, the empty code only if nothing was run.                            *)
Failures == tally["FAILED"] + tally["raised"]

CodeTellsTheRun ==
    pc = "done" /\ Mode # "call" =>
        /\ Failures > 0 => code = "failed"
        /\ code = "failed" /\ "ack" \notin FaultAt /\ "delete" \notin Others
              => Failures > 0
        /\ code = "ok" => tally["SUCCESSFUL"] > 0
        /\ code = "empty" => tally["SUCCESSFUL"] = 0

(* A run that is not continuous ends, whatever goes on around it.          *)
RunEnds == Mode # "continuous" ~> pc = "done"

(* A continuous worker comes to every task, those included it read with    *)
(* another one and left pending, until its limit or a shutdown ends it.    *)
EveryTaskServed ==
    \A t \in Task : (Mode = "continuous" /\ "peer" \notin Others /\ status[t] = "READY")
        ~> (status[t] # "READY" \/ pc = "done")

============================================================================
