----------------------------- MODULE TaskQueue -----------------------------
(***************************************************************************)
(* The core of django_tasks_redis: clients enqueue tasks, worker processes *)
(* receive, claim and run them, sweeps take over what dead workers left,   *)
(* external triggers run a task by its id, and operators reset or delete   *)
(* tasks.  All of them share the task hash, the delayed set and the        *)
(* streams, and interleave at every Redis command (a pipeline with MULTI   *)
(* and a Lua script are one command each).                                 *)
(*                                                                         *)
(* A worker is a control state pc[w] that names the Redis command it       *)
(* issues next, and the locals the code carries between two commands.      *)
(* Fields of the hash nothing here depends on are left out; the status     *)
(* index is kept with the hash in one transaction and has its own module   *)
(* in the plan.                                                            *)
(***************************************************************************)
EXTENDS RedisStream

CONSTANTS
    Trigger,        \* callers of run_task_by_id: HTTP view, admin, own code
    Slow,           \* workers that run tasks longer than REDIS_CLAIM_TIMEOUT
    Sweeper,        \* workers whose --claim-interval comes round
    MayStop,        \* actors that may crash or be told to stop
    Serves,         \* the streams a worker receives from (--queue)
    Swept,          \* the streams of the backend's QUEUES, which sweeps visit
    MaxDeliveries,  \* REDIS_MAX_DELIVERIES, 0 disables the cap
    SweepLimit,     \* MAX_CLAIMS_PER_SWEEP
    ResetFrom,      \* statuses reset_task_for_retry is called in
    FaultSteps,     \* control states whose Redis command may fail
    MaxFaults,      \* bound: failed Redis commands
    MaxResets,      \* bound: calls of reset_task_for_retry
    MaxVanish       \* bound: hashes deleted or expired

Actor == Worker \cup Trigger
RunSteps == {"claim", "start", "run", "sent", "failed"}
ReceiveSteps == {"promote", "history", "take", "new", "wait", "defer"}
SweepSteps == {"sweep", "release", "attempts", "give_up", "record",
               "reap", "remove"}
Steps == {"loop", "down", "idle", "ack", "xdel"}
            \cup RunSteps \cup ReceiveSteps \cup SweepSteps

ASSUME TaskQueueAssumption ==
    /\ Worker \cap Trigger = {}
    /\ Slow \subseteq Worker
    /\ Sweeper \subseteq Worker
    /\ MayStop \subseteq Actor
    /\ Serves \in [Worker -> SUBSET Stream]
    /\ Swept \subseteq Stream
    /\ MaxDeliveries \in Nat /\ MaxDeliveries <= DeliveryCap
    /\ SweepLimit \in Nat \ {0}
    /\ ResetFrom \subseteq {"READY", "RUNNING", "SUCCESSFUL", "FAILED"}
    /\ FaultSteps \subseteq Steps \ {"loop", "down", "idle"}
    /\ MaxFaults \in Nat /\ MaxResets \in Nat /\ MaxVanish \in Nat

VARIABLES
    status,         \* the hash's status; "NEW" not enqueued, "GONE" no hash
    partial,        \* hashes a late HSET re-created: they hold a status only
    attempts,       \* length of worker_ids_json, saturating at DeliveryCap
    delayed,        \* the delayed set
    due,            \* tasks whose run_after has passed, or that have none
    resetting,      \* where a call of reset_task_for_retry is
    pc,             \* the command an actor issues next
    cur,            \* the message a worker handles; the sweep's position
    job,            \* the task an actor handles
    batch,          \* messages a read returned and _take has not looked at
    at,             \* the stream a worker reads, sweeps or reaps next
    then,           \* where a worker goes on after an acknowledgement
    claims,         \* messages claimed by the running sweep
    doomed,         \* consumers _remove_idle_consumers is about to remove
    faults, resets, vanished    \* what is used up of the bounds

hashVars == <<status, partial, attempts>>
delayedVars == <<delayed, due>>
localVars == <<pc, cur, job, batch, at, then, claims, doomed>>
boundVars == <<faults, resets, vanished>>
vars == <<streamVars, hashVars, delayedVars, resetting, localVars, boundVars>>

Status == {"NEW", "GONE", "READY", "RUNNING", "SUCCESSFUL", "FAILED"}

StoreTypeOK ==
    /\ status \in [Task -> Status]
    /\ partial \subseteq Task
    /\ attempts \in [Task -> 0 .. DeliveryCap]
    /\ delayed \subseteq Task
    /\ due \subseteq Task
    /\ resetting \in [Task -> {"no", "write", "write_only", "requeue", "cut"}]

LocalTypeOK ==
    /\ pc \in [Actor -> Steps]
    /\ cur \in [Actor -> Msg \cup {0}]
    /\ job \in [Actor -> Task \cup {NoTask}]
    /\ batch \in [Actor -> SUBSET Msg]
    /\ at \in [Actor -> 1 .. NumStreams + 1]
    /\ then \in [Actor -> {"loop", "take", "sweep"}]
    /\ claims \in [Actor -> 0 .. SweepLimit - 1]
    /\ doomed \in [Actor -> SUBSET Worker]

TypeOK ==
    /\ StreamTypeOK
    /\ StoreTypeOK
    /\ LocalTypeOK
    /\ faults \in 0 .. MaxFaults
    /\ resets \in 0 .. MaxResets
    /\ vanished \in 0 .. MaxVanish

Base(a) == IF a \in Worker THEN "loop" ELSE "idle"

Init ==
    /\ StreamInit
    /\ status = [t \in Task |-> "NEW"]
    /\ partial = {}
    /\ attempts = [t \in Task |-> 0]
    /\ delayed = {}
    /\ due = {}
    /\ resetting = [t \in Task |-> "no"]
    /\ pc = [a \in Actor |-> Base(a)]
    /\ cur = [a \in Actor |-> 0]
    /\ job = [a \in Actor |-> NoTask]
    /\ batch = [a \in Actor |-> {}]
    /\ at = [a \in Actor |-> 1]
    /\ then = [a \in Actor |-> "loop"]
    /\ claims = [a \in Actor |-> 0]
    /\ doomed = [a \in Actor |-> {}]
    /\ faults = 0 /\ resets = 0 /\ vanished = 0

----------------------------------------------------------------------------
(* Control and the task hash                                               *)

Go(a, p) ==
    /\ pc' = [pc EXCEPT ![a] = p]
    /\ UNCHANGED <<cur, job, batch, at, then, claims, doomed>>

(* The actor leaves what it was doing, and its locals with it.             *)
Leave(a, p) ==
    /\ pc' = [pc EXCEPT ![a] = p]
    /\ cur' = [cur EXCEPT ![a] = 0]
    /\ job' = [job EXCEPT ![a] = NoTask]
    /\ batch' = [batch EXCEPT ![a] = {}]
    /\ at' = [at EXCEPT ![a] = 1]
    /\ then' = [then EXCEPT ![a] = "loop"]
    /\ claims' = [claims EXCEPT ![a] = 0]
    /\ doomed' = [doomed EXCEPT ![a] = {}]

(* The worker turns to message m of the batch it has read.                 *)
Handle(w, m, p, next) ==
    /\ pc' = [pc EXCEPT ![w] = p]
    /\ cur' = [cur EXCEPT ![w] = m]
    /\ job' = [job EXCEPT ![w] = entry[m]]
    /\ then' = [then EXCEPT ![w] = next]
    /\ UNCHANGED <<claims, doomed>>

Exists(t) == status[t] \notin {"NEW", "GONE"}
Full(t) == Exists(t) /\ t \notin partial

(* HSET of a status: on a hash that is gone it makes one that holds only   *)
(* the fields written.                                                     *)
WriteStatus(t, s) ==
    /\ status' = [status EXCEPT ![t] = s]
    /\ partial' = IF Exists(t) THEN partial ELSE partial \cup {t}
    /\ UNCHANGED attempts

(* The transition script: the write happens only from the given statuses,  *)
(* and never for a hash without a queue_name.                              *)
MayMove(t, from) == Full(t) /\ status[t] \in from

Executing(a) == pc[a] \in {"start", "run"}

Handling(w, m) ==
    \/ m \in batch[w]
    \/ cur[w] = m /\ pc[w] \in RunSteps \cup (SweepSteps \ {"sweep"})
                                   \cup {"defer", "ack", "xdel"}

(* A worker that may have read nothing for the claim timeout: it is down,  *)
(* or it is slow and in the middle of a long run.                          *)
Silent(w) ==
    \/ pc[w] = "down"
    \/ w \in Slow /\ pc[w] \in {"run", "sent", "failed"}

(* Mutant: no minimum idle time.                                           *)
AnyPending(m) == place[m] = "pending"

(***************************************************************************)
(* A pending message may have been idle for the claim timeout when its     *)
(* consumer was silent for that long, or does not have it in hand (it is   *)
(* left over from a sweep, or from a run that raised).  A worker that has  *)
(* it in hand and is not slow gets to the end within the timeout: the      *)
(* condition README.md states for REDIS_CLAIM_TIMEOUT.                     *)
(***************************************************************************)
MayBeStale(m) ==
    /\ place[m] = "pending"
    /\ Silent(owner[m]) \/ ~Handling(owner[m], m)

----------------------------------------------------------------------------
(* Clients: enqueue, the clock, deletion and expiry, reset                 *)

(* One transaction stores the hash and adds the message.                   *)
EnqueueNow(t) ==
    /\ status[t] = "NEW"
    /\ status' = [status EXCEPT ![t] = "READY"]
    /\ due' = due \cup {t}
    /\ XAdd(t)
    /\ UNCHANGED <<partial, attempts, delayed, resetting, localVars, boundVars>>

(* With a run_after in the future the task goes to the delayed set.        *)
EnqueueLater(t) ==
    /\ status[t] = "NEW"
    /\ status' = [status EXCEPT ![t] = "READY"]
    /\ delayed' = delayed \cup {t}
    /\ UNCHANGED <<partial, attempts, due, streamVars, resetting, localVars,
                   boundVars>>

ComesDue(t) ==
    /\ status[t] # "NEW" /\ t \notin due
    /\ due' = due \cup {t}
    /\ UNCHANGED <<streamVars, hashVars, delayed, resetting, localVars, boundVars>>

(* delete_task_data, or the TTL of the hash.  Neither touches the delayed  *)
(* set, the streams or the pending lists.                                  *)
Vanish(t) ==
    /\ Exists(t) /\ vanished < MaxVanish
    /\ status' = [status EXCEPT ![t] = "GONE"]
    /\ partial' = partial \ {t}
    /\ attempts' = [attempts EXCEPT ![t] = 0]
    /\ vanished' = vanished + 1
    /\ UNCHANGED <<streamVars, delayedVars, resetting, localVars, faults, resets>>

(* reset_task_status reads the hash, writes READY and adds a message from  *)
(* the copy it read; a copy without its fields cannot be requeued.         *)
ResetRead(t) ==
    /\ resetting[t] \in {"no", "cut"}
    /\ status[t] \in ResetFrom /\ resets < MaxResets
    /\ resetting' = [resetting EXCEPT
                        ![t] = IF t \in partial THEN "write_only" ELSE "write"]
    /\ resets' = resets + 1
    /\ UNCHANGED <<streamVars, hashVars, delayedVars, localVars, faults, vanished>>

ResetWrite(t) ==
    /\ resetting[t] \in {"write", "write_only"}
    /\ WriteStatus(t, "READY")
    /\ resetting' = [resetting EXCEPT
                        ![t] = IF @ = "write" THEN "requeue" ELSE "no"]
    /\ UNCHANGED <<streamVars, delayedVars, localVars, boundVars>>

(* Mutant: a reset only writes the status.                                 *)
RequeueNothing(t) ==
    /\ resetting[t] = "requeue"
    /\ resetting' = [resetting EXCEPT ![t] = "no"]
    /\ UNCHANGED <<streamVars, hashVars, delayedVars, localVars, boundVars>>

Requeue(t) ==
    /\ resetting[t] = "requeue"
    /\ XAdd(t)
    /\ resetting' = [resetting EXCEPT ![t] = "no"]
    /\ UNCHANGED <<hashVars, delayedVars, localVars, boundVars>>

Client(t) ==
    \/ EnqueueNow(t) \/ EnqueueLater(t) \/ ComesDue(t) \/ Vanish(t)
    \/ ResetRead(t) \/ ResetWrite(t) \/ Requeue(t)

----------------------------------------------------------------------------
(* A worker receives                                                       *)

BeginReceive(w) ==
    /\ pc[w] = "loop"
    /\ Go(w, "promote")
    /\ UNCHANGED <<streamVars, hashVars, delayedVars, resetting, boundVars>>

(* Mutant: the promoted task stays in the delayed set.                     *)
KeepDelayed(t) == delayed' = delayed

LeaveDelayed(t) == delayed' = delayed \ {t}

(* One due task of the delayed set: the script removes it from the set and *)
(* adds its message only if this call removed it and it is still READY.    *)
(* A partial hash has no fields to build the message from: receive raises. *)
PromoteOne(w) ==
    /\ pc[w] = "promote"
    /\ \E t \in delayed \cap due :
          \/ /\ t \in partial
             /\ Leave(w, "loop")
             /\ UNCHANGED <<streamVars, delayed>>
          \/ /\ t \notin partial
             /\ Go(w, "promote")
             /\ LeaveDelayed(t)
             /\ IF status[t] = "READY" THEN XAdd(t) ELSE UNCHANGED streamVars
    /\ UNCHANGED <<hashVars, due, resetting, boundVars>>

(* The listing of the due tasks is exhausted.                              *)
PromoteDone(w) ==
    /\ pc[w] = "promote" /\ delayed \cap due = {}
    /\ Go(w, "history")
    /\ UNCHANGED <<streamVars, hashVars, delayedVars, resetting, boundVars>>

(* What this consumer holds already, the oldest of every stream at once.   *)
ReadHistory(w) ==
    /\ pc[w] = "history"
    /\ LET M == UNION {NextHeld(w, s) : s \in Serves[w]} IN
          /\ Deliver(w, M)
          /\ batch' = [batch EXCEPT ![w] = M]
    /\ pc' = [pc EXCEPT ![w] = "take"]
    /\ UNCHANGED <<hashVars, delayedVars, resetting, boundVars,
                   cur, job, at, then, claims, doomed>>

(* The new messages of one stream, then of the next.                       *)
ReadNew(w) ==
    /\ pc[w] = "new"
    /\ LET M == IF at[w] \in Serves[w] THEN NextNew(at[w]) ELSE {} IN
          /\ Deliver(w, M)
          /\ batch' = [batch EXCEPT ![w] = M]
    /\ at' = [at EXCEPT ![w] = @ + 1]
    /\ pc' = [pc EXCEPT ![w] = "take"]
    /\ UNCHANGED <<hashVars, delayedVars, resetting, boundVars,
                   cur, job, then, claims, doomed>>

(* The blocking read: every stream at once, as soon as one has a message.  *)
WaitRead(w) ==
    /\ pc[w] = "wait"
    /\ LET M == UNION {NextNew(s) : s \in Serves[w]} IN
          /\ M # {}
          /\ Deliver(w, M)
          /\ batch' = [batch EXCEPT ![w] = M]
    /\ pc' = [pc EXCEPT ![w] = "take"]
    /\ UNCHANGED <<hashVars, delayedVars, resetting, boundVars,
                   cur, job, at, then, claims, doomed>>

(* The wait is over, or was never asked for: receive returns no message.   *)
WaitOver(w) ==
    /\ pc[w] = "wait"
    /\ Leave(w, "loop")
    /\ UNCHANGED <<streamVars, hashVars, delayedVars, resetting, boundVars>>

----------------------------------------------------------------------------
(* _take and _resolve: what becomes of the messages a read returned        *)

(* The batch in the order its streams are served.                          *)
FirstOf(M) ==
    {m \in M : \A n \in M : StreamOf[entry[m]] <= StreamOf[entry[n]]}

(* Not READY, or no hash: acknowledged on the spot.                        *)
TakeDone(w) ==
    /\ pc[w] = "take"
    /\ \E m \in FirstOf(batch[w]) :
          /\ status[entry[m]] # "READY"
          /\ Handle(w, m, "ack", "take")
          /\ batch' = [batch EXCEPT ![w] = @ \ {m}]
    /\ UNCHANGED <<streamVars, hashVars, delayedVars, resetting, boundVars, at>>

(* READY but not due: back to the delayed set, then acknowledged.          *)
TakeEarly(w) ==
    /\ pc[w] = "take"
    /\ \E m \in FirstOf(batch[w]) :
          /\ status[entry[m]] = "READY"
          /\ entry[m] \notin due \cup partial
          /\ Handle(w, m, "defer", "take")
          /\ batch' = [batch EXCEPT ![w] = @ \ {m}]
    /\ UNCHANGED <<streamVars, hashVars, delayedVars, resetting, boundVars, at>>

(* READY and due: receive returns it, and what else was read stays pending *)
(* for this consumer.                                                      *)
TakeReady(w) ==
    /\ pc[w] = "take"
    /\ \E m \in FirstOf(batch[w]) :
          /\ status[entry[m]] = "READY"
          /\ entry[m] \in due \cup partial
          /\ Handle(w, m, "claim", "loop")
    /\ batch' = [batch EXCEPT ![w] = {}]
    /\ at' = [at EXCEPT ![w] = 1]
    /\ UNCHANGED <<streamVars, hashVars, delayedVars, resetting, boundVars>>

TakeNext(w) ==
    /\ pc[w] = "take" /\ batch[w] = {}
    /\ Go(w, IF at[w] <= NumStreams THEN "new" ELSE "wait")
    /\ UNCHANGED <<streamVars, hashVars, delayedVars, resetting, boundVars>>

Defer(w) ==
    /\ pc[w] = "defer"
    /\ delayed' = delayed \cup {job[w]}
    /\ Go(w, "ack")
    /\ UNCHANGED <<streamVars, hashVars, due, resetting, boundVars>>

(* ack is two commands: the pending entry goes first, then the message.    *)
Ack(w) ==
    /\ pc[w] = "ack"
    /\ XAck(cur[w])
    /\ Go(w, "xdel")
    /\ UNCHANGED <<hashVars, delayedVars, resetting, boundVars>>

Delete(w) ==
    /\ pc[w] = "xdel"
    /\ XDel(cur[w])
    /\ \/ then[w] = "loop" /\ Leave(w, "loop")
       \/ /\ then[w] = "take"
          /\ pc' = [pc EXCEPT ![w] = "take"]
          /\ cur' = [cur EXCEPT ![w] = 0]
          /\ job' = [job EXCEPT ![w] = NoTask]
          /\ then' = [then EXCEPT ![w] = "loop"]
          /\ UNCHANGED <<batch, at, claims, doomed>>
       \/ then[w] = "sweep" /\ Go(w, "sweep")
    /\ UNCHANGED <<hashVars, delayedVars, resetting, boundVars>>

Receive(w) ==
    \/ BeginReceive(w) \/ PromoteOne(w) \/ PromoteDone(w) \/ ReadHistory(w)
    \/ ReadNew(w) \/ WaitRead(w) \/ WaitOver(w)
    \/ TakeDone(w) \/ TakeEarly(w) \/ TakeReady(w) \/ TakeNext(w)
    \/ Defer(w) \/ Ack(w) \/ Delete(w)

----------------------------------------------------------------------------
(* run_task, by a worker for a message or by a trigger for a task id       *)

Call(a) ==
    /\ a \in Trigger /\ pc[a] = "idle"
    /\ \E t \in Task :
          /\ status[t] # "NEW"
          /\ job' = [job EXCEPT ![a] = t]
    /\ pc' = [pc EXCEPT ![a] = "claim"]
    /\ UNCHANGED <<streamVars, hashVars, delayedVars, resetting, boundVars,
                   cur, batch, at, then, claims, doomed>>

(* A worker acknowledges after the run, a trigger has no message.          *)
AfterRun(a) == IF a \in Worker THEN Go(a, "ack") ELSE Leave(a, "idle")

(* Mutant: the message is acknowledged even when the run raises.           *)
RaiseAcks(a) ==
    IF a \in Worker /\ cur[a] # 0 THEN Go(a, "ack") ELSE Leave(a, Base(a))

(* run_task raises: the message stays pending for the worker (nack).       *)
Raise(a) == Leave(a, Base(a))

(* Mutant: the claim does not mind that the task is running.               *)
ClaimRunning(a) == {{"READY", "RUNNING"}}

(* Statuses a caller may claim from; allow_retry adds FAILED.              *)
ClaimFrom(a) ==
    IF a \in Worker THEN {{"READY"}} ELSE {{"READY"}, {"READY", "FAILED"}}

(* The claim script: check and write are one step, and a hash without      *)
(* queue_name does not exist for it.                                       *)
Claim(a) ==
    /\ pc[a] = "claim"
    /\ \E from \in ClaimFrom(a) :
          LET t == job[a] IN
          \/ /\ MayMove(t, from)
             /\ status' = [status EXCEPT ![t] = "RUNNING"]
             /\ attempts' = [attempts EXCEPT ![t] = Bump(@)]
             /\ UNCHANGED partial
             /\ Go(a, "start")
          \/ /\ ~MayMove(t, from)
             /\ UNCHANGED hashVars
             /\ IF Full(t) THEN AfterRun(a) ELSE Raise(a)
    /\ UNCHANGED <<streamVars, delayedVars, resetting, boundVars>>

(* The claimed hash is read back.  A hash that is gone raises; one without *)
(* its task_path is an error of the setup, recorded before it is raised.   *)
Start(a) ==
    /\ pc[a] = "start"
    /\ LET t == job[a] IN
       \/ Full(t) /\ Go(a, "run") /\ UNCHANGED hashVars
       \/ Exists(t) /\ t \in partial /\ WriteStatus(t, "FAILED") /\ Raise(a)
       \/ ~Exists(t) /\ Raise(a) /\ UNCHANGED hashVars
    /\ UNCHANGED <<streamVars, delayedVars, resetting, boundVars>>

(* The task cannot be imported, or a receiver of task_started raises: the  *)
(* error is recorded, then raised.                                         *)
SetupFails(a) ==
    /\ pc[a] = "run"
    /\ WriteStatus(job[a], "FAILED")
    /\ Raise(a)
    /\ UNCHANGED <<streamVars, delayedVars, resetting, boundVars>>

(* The function returns or raises, and the result is written.              *)
Finish(a) ==
    /\ pc[a] = "run"
    /\ \/ WriteStatus(job[a], "SUCCESSFUL") /\ Go(a, "sent")
       \/ WriteStatus(job[a], "FAILED") /\ Go(a, "failed")
    /\ UNCHANGED <<streamVars, delayedVars, resetting, boundVars>>

(* After SUCCESSFUL the hash is read again and task_finished sent inside   *)
(* the same try block: a hash without its fields, or a receiver that       *)
(* raises, records the task as FAILED.                                     *)
ReportSuccess(a) ==
    /\ pc[a] = "sent"
    /\ \/ Full(job[a]) /\ AfterRun(a) /\ UNCHANGED hashVars
       \/ WriteStatus(job[a], "FAILED") /\ Go(a, "failed")
    /\ UNCHANGED <<streamVars, delayedVars, resetting, boundVars>>

(* After FAILED the same read and the same signal, with nothing around     *)
(* them: what is raised here leaves run_task.                              *)
ReportFailure(a) ==
    /\ pc[a] = "failed"
    /\ \/ Full(job[a]) /\ AfterRun(a)
       \/ Raise(a)
    /\ UNCHANGED <<streamVars, hashVars, delayedVars, resetting, boundVars>>

Run(a) ==
    \/ Call(a) \/ Claim(a) \/ Start(a) \/ SetupFails(a) \/ Finish(a)
    \/ ReportSuccess(a) \/ ReportFailure(a)

----------------------------------------------------------------------------
(* The sweep: claim_stale_messages                                         *)

BeginSweep(w) ==
    /\ pc[w] = "loop" /\ w \in Sweeper
    /\ pc' = [pc EXCEPT ![w] = "sweep"]
    /\ then' = [then EXCEPT ![w] = "sweep"]
    /\ UNCHANGED <<streamVars, hashVars, delayedVars, resetting, boundVars,
                   cur, job, batch, at, claims, doomed>>

(* The cap is reached: only then is the number of starts looked at.        *)
CapReached(m) == MaxDeliveries > 0 /\ deliveries[m] >= MaxDeliveries

(* One message of the listing that has been idle for the claim timeout.    *)
(* XCLAIM checks the idle time again, so the two are one step; messages    *)
(* of the listing that are not stale are passed over.                      *)
SweepClaim(w) ==
    /\ pc[w] = "sweep" /\ at[w] \in Swept
    /\ \E m \in Msg :
          /\ m > cur[w] /\ In(m, at[w]) /\ MayBeStale(m)
          /\ XClaim(w, m)
          /\ cur' = [cur EXCEPT ![w] = m]
          /\ job' = [job EXCEPT ![w] = entry[m]]
          /\ pc' = [pc EXCEPT
                      ![w] = IF CapReached(m) THEN "attempts" ELSE "release"]
    /\ UNCHANGED <<hashVars, delayedVars, resetting, boundVars,
                   batch, at, then, claims, doomed>>

(* The end of a stream's listing; after the last one, the idle consumers.  *)
SweepNext(w) ==
    /\ pc[w] = "sweep"
    /\ cur' = [cur EXCEPT ![w] = 0]
    /\ job' = [job EXCEPT ![w] = NoTask]
    /\ at' = [at EXCEPT ![w] = IF @ < NumStreams THEN @ + 1 ELSE 1]
    /\ pc' = [pc EXCEPT ![w] = IF at[w] < NumStreams THEN "sweep" ELSE "reap"]
    /\ UNCHANGED <<streamVars, hashVars, delayedVars, resetting, boundVars,
                   batch, then, claims, doomed>>

(* Mutant: a reclaimed task is made READY whatever its status.             *)
HandBackAlways(t) ==
    /\ status' = [status EXCEPT ![t] = "READY"]
    /\ UNCHANGED <<partial, attempts>>

(* _release_interrupted_task: RUNNING goes back to READY.                  *)
HandBack(t) ==
    IF MayMove(t, {"RUNNING"})
    THEN /\ status' = [status EXCEPT ![t] = "READY"]
         /\ UNCHANGED <<partial, attempts>>
    ELSE UNCHANGED hashVars

(* Mutant: one message more than the limit.                                *)
LimitPassed(w) == claims[w] >= SweepLimit

LimitReached(w) == claims[w] + 1 >= SweepLimit

(* The claimed message is counted, and its task handed back.               *)
Release(w) ==
    /\ pc[w] = "release"
    /\ HandBack(job[w])
    /\ IF LimitReached(w)
       THEN Leave(w, "loop")
       ELSE /\ pc' = [pc EXCEPT ![w] = "sweep"]
            /\ claims' = [claims EXCEPT ![w] = @ + 1]
            /\ UNCHANGED <<cur, job, batch, at, then, doomed>>
    /\ UNCHANGED <<streamVars, delayedVars, resetting, boundVars>>

(* Mutant: one start too late.                                             *)
StartedPast(t) == attempts[t] > MaxDeliveries

StartedOften(t) == attempts[t] >= MaxDeliveries

(* _abandon reads how often the task was started.                          *)
Attempts(w) ==
    /\ pc[w] = "attempts"
    /\ Go(w, IF StartedOften(job[w]) THEN "give_up" ELSE "release")
    /\ UNCHANGED <<streamVars, hashVars, delayedVars, resetting, boundVars>>

(* Mutant: a success can be given up on.                                   *)
GiveUpAny(t) == MayMove(t, {"READY", "RUNNING", "SUCCESSFUL"})

MayGiveUp(t) == MayMove(t, {"READY", "RUNNING"})

(* mark_task_failed: the transition, and the record of its reason.         *)
GiveUp(w) ==
    /\ pc[w] = "give_up"
    /\ LET t == job[w] IN
       \/ /\ MayGiveUp(t)
          /\ status' = [status EXCEPT ![t] = "FAILED"]
          /\ UNCHANGED <<partial, attempts>>
          /\ Go(w, "record")
       \/ /\ ~MayGiveUp(t)
          /\ UNCHANGED hashVars
          /\ Go(w, "ack")
    /\ UNCHANGED <<streamVars, delayedVars, resetting, boundVars>>

Record(w) ==
    /\ pc[w] = "record"
    /\ WriteStatus(job[w], "FAILED")
    /\ Go(w, "ack")
    /\ UNCHANGED <<streamVars, delayedVars, resetting, boundVars>>

(* Mutant: what the consumer holds is not looked at.                       *)
AlwaysRemovable(c, s) == TRUE

Removable(c, s) == ~Holds(c, s)

(* XINFO CONSUMERS of one stream: the consumers idle for the timeout that  *)
(* hold nothing on it.  Which of the silent ones are is up to the clock.   *)
(* Membership of the group is not kept: removing a consumer that is no     *)
(* member changes nothing.                                                 *)
ReapScan(w) ==
    /\ pc[w] = "reap"
    /\ \E D \in SUBSET {c \in Worker \ {w} : Silent(c)} :
          doomed' = [doomed EXCEPT
                        ![w] = {c \in D : at[w] \in Swept /\ Removable(c, at[w])}]
    /\ pc' = [pc EXCEPT ![w] = "remove"]
    /\ UNCHANGED <<streamVars, hashVars, delayedVars, resetting, boundVars,
                   cur, job, batch, at, then, claims>>

RemoveOne(w) ==
    /\ pc[w] = "remove"
    /\ \E c \in doomed[w] :
          /\ DelConsumer(c, {at[w]})
          /\ doomed' = [doomed EXCEPT ![w] = @ \ {c}]
    /\ UNCHANGED <<hashVars, delayedVars, resetting, boundVars,
                   pc, cur, job, batch, at, then, claims>>

RemoveDone(w) ==
    /\ pc[w] = "remove" /\ doomed[w] = {}
    /\ IF at[w] < NumStreams
       THEN /\ pc' = [pc EXCEPT ![w] = "reap"]
            /\ at' = [at EXCEPT ![w] = @ + 1]
            /\ UNCHANGED <<cur, job, batch, then, claims, doomed>>
       ELSE Leave(w, "loop")
    /\ UNCHANGED <<streamVars, hashVars, delayedVars, resetting, boundVars>>

Sweep(w) ==
    \/ BeginSweep(w) \/ SweepClaim(w) \/ SweepNext(w) \/ Release(w)
    \/ Attempts(w) \/ GiveUp(w) \/ Record(w)
    \/ ReapScan(w) \/ RemoveOne(w) \/ RemoveDone(w)

----------------------------------------------------------------------------
(* The end of a worker, and what goes wrong                                *)

(* The loop ends and remove_consumer takes the consumer out of the streams *)
(* on which it holds nothing.  Only the worker itself adds to what it      *)
(* holds, so looking and removing are one step.                            *)
Exit(w) ==
    /\ w \in MayStop /\ pc[w] = "loop"
    /\ DelConsumer(w, {s \in Swept : Removable(w, s)})
    /\ Leave(w, "down")
    /\ UNCHANGED <<hashVars, delayedVars, resetting, boundVars>>

(* The process dies between two commands; a worker's id does not come back.*)
Crash(a) ==
    /\ a \in MayStop /\ pc[a] \notin {"down", "idle"}
    /\ Leave(a, IF a \in Worker THEN "down" ELSE "idle")
    /\ UNCHANGED <<streamVars, hashVars, delayedVars, resetting, boundVars>>

(* A Redis command fails.  Every caller in the worker loop catches it and  *)
(* goes on with the next pass; run_task passes it on to them when it       *)
(* cannot record the failure either.                                       *)
Fault(a) ==
    /\ pc[a] \in FaultSteps /\ faults < MaxFaults
    /\ faults' = faults + 1
    /\ Raise(a)
    /\ UNCHANGED <<streamVars, hashVars, delayedVars, resetting,
                   resets, vanished>>

(* The process that resets a task dies; between the write and the message  *)
(* that leaves a task READY with nothing to deliver it.                    *)
ResetDies(t) ==
    /\ resetting[t] \notin {"no", "cut"}
    /\ resetting' = [resetting EXCEPT
                        ![t] = IF @ = "requeue" THEN "cut" ELSE "no"]
    /\ UNCHANGED <<streamVars, hashVars, delayedVars, localVars, boundVars>>

Next ==
    \/ \E t \in Task : Client(t) \/ ResetDies(t)
    \/ \E w \in Worker : Receive(w) \/ Sweep(w) \/ Exit(w)
    \/ \E a \in Actor : Run(a) \/ Crash(a) \/ Fault(a)

Spec == Init /\ [][Next]_vars

(***************************************************************************)
(* Fairness.  A worker that is up goes on with its next command.  At the   *)
(* top of its loop it may do three things over and over; the claim         *)
(* interval comes round in all of them, so a sweep that is due again and   *)
(* again is made, and a message of a dead consumer, which only grows older,*)
(* is not passed over forever.  A task that is not due becomes due.        *)
(***************************************************************************)
Fairness ==
    /\ \A w \in Worker :
          /\ WF_vars(Receive(w) \/ Sweep(w) \/ Run(w))
          /\ SF_vars(BeginReceive(w))
          /\ SF_vars(BeginSweep(w))
          /\ SF_vars(SweepClaim(w))
    /\ \A t \in Task : WF_vars(ComesDue(t))

LiveSpec == Spec /\ Fairness

----------------------------------------------------------------------------
(* Properties                                                              *)

(* A task is never executed by two actors at once: the claim of a task and *)
(* the release of one by a sweep exclude each other while it runs (_CLAIM_ *)
(* TASK, _release_interrupted_task).                                       *)
ExclusiveRun ==
    \A a, b \in Actor :
        Executing(a) /\ Executing(b) /\ job[a] = job[b] => a = b

(* The same beside triggers, which claim like a worker and hold no message,*)
(* as long as nobody resets the task; a task may be deleted or expire.     *)
ExclusiveUntilReset == resets = 0 => ExclusiveRun

(* A task that has not finished is always somewhere: in the delayed set,   *)
(* in a message that will be delivered or reclaimed, in the hands of the   *)
(* operator who resets it, or of the actor that runs it.  The one          *)
(* exception is a reset cut off between its write and its message.         *)
NothingStranded ==
    \A t \in Task :
        status[t] \in {"READY", "RUNNING"} /\ t \notin partial =>
            \/ t \in delayed
            \/ LiveMessages(t) # {}
            \/ resetting[t] \in {"requeue", "cut"}
            \/ \E a \in Actor : job[a] = t /\ Executing(a)

(* Promotion, deferral and recovery move a task between the delayed set    *)
(* and the streams; without a reset it is in one place only, so it is not  *)
(* delivered twice (_PROMOTE_DELAYED_TASK).                                *)
OneMessage ==
    /\ \A m, n \in Msg : Live(m) /\ Live(n) /\ entry[m] = entry[n] => m = n
    /\ \A m \in Msg : Live(m) => entry[m] \notin delayed

(* A task that takes its worker down every time is started at most         *)
(* REDIS_MAX_DELIVERIES times: the delivery counter, reset by nothing but  *)
(* an acknowledgement, makes the sweep look at the starts in time.  And a  *)
(* sweep gives up only on a task that was started that often: a delivery   *)
(* that led to no start uses up nothing (_abandon).                        *)
AbandonedAfterStarts ==
    [][\A t \in Task :
          /\ attempts'[t] > attempts[t] => attempts'[t] <= MaxDeliveries
          /\ (/\ status[t] \in {"READY", "RUNNING"} /\ status'[t] = "FAILED"
              /\ \A a \in Actor : job[a] = t => ~Executing(a))
                => attempts[t] = MaxDeliveries]_vars

(* A task that has its result keeps it: only the actor that wrote it can   *)
(* still turn its success into a failure.  A worker that wrote the result  *)
(* and died before the acknowledgement does not make the sweep fail or     *)
(* rerun the task (mark_task_failed, _release_interrupted_task).           *)
ResultIsFinal ==
    [][\A t \in Task :
          status[t] \in {"SUCCESSFUL", "FAILED"} =>
             \/ status'[t] = status[t]
             \/ /\ status[t] = "SUCCESSFUL" /\ status'[t] = "FAILED"
                /\ \E a \in Actor : job[a] = t /\ pc[a] = "sent"]_vars

(* Removing a consumer never takes a pending message with it: no message   *)
(* leaves the pending list but by an acknowledgement of its handler        *)
(* (_remove_idle_consumers, remove_consumer).                              *)
PendingOnlyAcked ==
    [][\A m \in Msg :
          place[m] = "pending" /\ place'[m] # "pending" =>
             \E w \in Worker : pc[w] = "ack" /\ cur[w] = m]_vars

(* What a worker that is up has in hand is pending in its own name, and it *)
(* has it in hand once: a sweep takes nothing from a worker that is not    *)
(* slow, and a read hands out nothing twice (claim_stale_messages, _take). *)
HandSteps ==
    RunSteps \cup {"defer", "ack", "release", "attempts", "give_up", "record"}

Custody ==
    \A w \in Worker :
        /\ pc[w] \in HandSteps =>
              /\ cur[w] \in Msg \ batch[w]
              /\ place[cur[w]] = "pending" /\ owner[cur[w]] = w
              /\ job[w] = entry[cur[w]]
        /\ \A m \in batch[w] : place[m] = "pending" /\ owner[m] = w

Finished(t) == status[t] \in {"SUCCESSFUL", "FAILED", "GONE"}

(* Every task enqueued gets a result as long as a worker is up, whichever  *)
(* workers die and wherever they do.                                       *)
EventuallyFinished ==
    \A t \in Task :
        status[t] # "NEW" ~> \/ Finished(t)
                             \/ \A w \in Worker : pc[w] = "down"

(* The queue implements the life of a task as TaskLifecycle states it: a   *)
(* task's runners are the actors between its claim and its result.         *)
Runners(t) == {a \in Actor : Executing(a) /\ job[a] = t}

StageOf(s) ==
    CASE s = "NEW" -> "new"             [] s = "READY" -> "waiting"
      [] s = "RUNNING" -> "running"     [] s = "SUCCESSFUL" -> "successful"
      [] s \in {"FAILED", "GONE"} -> "failed"

Lifecycle ==
    INSTANCE TaskLifecycle WITH
        stage <- [t \in Task |-> StageOf(status[t])],
        runners <- [t \in Task |-> Runners(t)]

ImplementsLifecycle == Lifecycle!Spec

============================================================================
