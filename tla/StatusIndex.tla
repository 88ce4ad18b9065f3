---------------------------- MODULE StatusIndex -----------------------------
(***************************************************************************)
(* What a task's result is stored in, and what counts it: the hash with    *)
(* its TTL, the set of results, and the status index, one sorted set per   *)
(* status, backend-wide and per queue, scored by the time of entry.        *)
(*                                                                         *)
(* Workers, triggers, sweeps, operators, the purge and the rebuild of the  *)
(* index write all three while time passes and hashes expire.  Scripts     *)
(* and transactions are one step; what a caller read before one is kept    *)
(* in the caller's record.                                                 *)
(***************************************************************************)
EXTENDS Integers, FiniteSets

CONSTANTS
    Tasks,
    QueueOf,            \* the queue of each task
    Backend,            \* the scope of the backend-wide sets
    Default,            \* the queue name a hash without one is given
    Setups,             \* what is stored at the start, the settings: see Setup
    MaxRuns             \* bound: runs of tasks at the same time

Kinds == {"retry", "handback", "giveup", "reset", "delete", "purge", "rebuild"}

Setup == [tasks : SUBSET Tasks, legacy : SUBSET Tasks, resultTtl : Nat,
          completedTtl : Nat, delays : SUBSET (Nat \ {0}), early : BOOLEAN, age : Nat,
          maxTime : Nat, runs : Nat, budget : [Kinds -> Nat]]

ASSUME IndexAssumption ==
    /\ Setups \subseteq Setup
    /\ \A s \in Setups : s.legacy \subseteq s.tasks
    /\ MaxRuns \in Nat
    /\ Backend \notin {QueueOf[t] : t \in Tasks} \cup {Default}

Scopes == {Backend, Default} \cup {QueueOf[t] : t \in Tasks}
Finished == {"SUCCESSFUL", "FAILED"}
Statuses == {"READY", "RUNNING"} \cup Finished
Run == 1 .. MaxRuns
Never == -1

VARIABLES
    setup,          \* the settings and what was stored; it never changes
    now,
    ids,            \* the ids given out: enqueue makes a new one
    hash,           \* the result hashes
    results,        \* the set of results
    index,          \* the entries of all the sorted sets
    built,          \* the marker: the index covers every result
    asked,          \* has_status_index found no marker and no result
    run,            \* runs of tasks: the caller of run_task
    giveup,         \* mark_task_failed: what it read before it records
    reset,          \* reset_task_status: what it read
    delete,         \* delete_task_data: who called, and what it read
    purge,          \* purge_completed_tasks: what is left to read, what to delete
    rebuild,        \* rebuild_status_index: start, what is left, what was read
    spent           \* operations of each kind so far

jobs == <<run, giveup, reset, delete, purge, rebuild>>
store == <<hash, results, index>>
vars == <<setup, now, ids, store, built, asked, jobs, spent>>

Legacy == setup.legacy              \* tasks stored before the index existed
ResultTtl == setup.resultTtl        \* REDIS_RESULT_TTL
CompletedTtl == setup.completedTtl  \* REDIS_COMPLETED_TASK_TTL
EarlyTriggers == setup.early        \* a trigger may run a task that is not due
PurgeAge == setup.age               \* --days
MaxTime == setup.maxTime
Budget == setup.budget              \* bound: operations of each kind

NoHash == [status |-> "none", expires |-> Never, enqueued |-> Never,
           due |-> Never, tried |-> Never, done |-> Never, full |-> FALSE]
Stored(t) == hash[t].status # "none"
Full(t) == hash[t].full

Idle == [at |-> "idle", start |-> 0, todo |-> {}, read |-> {}]

TypeOK ==
    /\ setup \in Setups
    /\ now \in 0 .. MaxTime
    /\ \A t \in Tasks :
          /\ hash[t].status \in Statuses \cup {"none"}
          /\ hash[t].status = "none" => hash[t] = NoHash
          /\ hash[t].expires = Never \/ hash[t].expires > now
    /\ ids \subseteq Tasks /\ results \subseteq Tasks
    /\ \A e \in index : /\ e.scope \in Scopes /\ e.status \in Statuses
                        /\ e.task \in Tasks /\ e.score \in Nat
    /\ built \in BOOLEAN /\ asked \in BOOLEAN
    /\ run \in [Run -> [task : Tasks, at : {"none", "runs", "reports"}]
                       \cup {[at |-> "none"]}]
    /\ giveup \in [Tasks -> {"none", "marked", "full", "bare"}]
    /\ reset \in [Tasks -> {"none", "full", "bare"}]
    /\ delete \in [Tasks -> {"none", "operator", "purge"} \X BOOLEAN]
    /\ purge.todo \subseteq Tasks /\ purge.read \subseteq Tasks
    /\ rebuild.todo \subseteq Tasks
    /\ \A k \in Kinds : spent[k] \in 0 .. Budget[k]

Ttl(status) == IF status \in Finished THEN CompletedTtl ELSE ResultTtl

(* A legacy result may be in any status, stored at time 0.                 *)
LegacyHash(status) ==
    [status |-> status, enqueued |-> 0, due |-> Never, full |-> TRUE,
     tried |-> IF status = "READY" THEN Never ELSE 0,
     done |-> IF status \in Finished THEN 0 ELSE Never,
     expires |-> IF Ttl(status) > 0 THEN Ttl(status) ELSE Never]

Init ==
    /\ setup \in Setups
    /\ now = 0
    /\ \E status \in [Legacy -> {"READY", "FAILED"}] :
          hash = [t \in Tasks |-> IF t \in Legacy THEN LegacyHash(status[t])
                                                  ELSE NoHash]
    /\ ids = Legacy /\ results = Legacy
    /\ index = {}
    /\ built = FALSE /\ asked = FALSE
    /\ run = [r \in Run |-> [at |-> "none"]]
    /\ giveup = [t \in Tasks |-> "none"]
    /\ reset = [t \in Tasks |-> "none"]
    /\ delete = [t \in Tasks |-> <<"none", FALSE>>]
    /\ purge = Idle /\ rebuild = Idle
    /\ spent = [k \in Kinds |-> 0]

Spend(kind) ==
    /\ spent[kind] < Budget[kind]
    /\ spent' = [spent EXCEPT ![kind] = @ + 1]

-----------------------------------------------------------------------------
(* The index                                                               *)

(* The score at and below which an entry has expired with its hash.        *)
Cutoff(status, at) == IF Ttl(status) > 0 THEN at - Ttl(status) ELSE Never

Stays(e, t, status) == e.task # t

(* index_status, and _index_status: the task leaves every set of these     *)
(* scopes and joins those of its status, pruned on the way.                *)
Indexed(idx, scopes, t, status, score, cutoff) ==
    {e \in idx : e.scope \notin scopes
                 \/ (Stays(e, t, status)
                     /\ ~(e.status = status /\ e.score <= cutoff))}
    \cup {[scope |-> q, status |-> status, task |-> t, score |-> score] : q \in scopes}

(* A write of status moves the task in the sets of the queue it names.     *)
Moves(t, queue, status, since) ==
    index' = Indexed(index, {Backend, queue}, t, status, since, Cutoff(status, now))

(* task_data.get("queue_name", "default")                                  *)
Queue(t, full) == IF full THEN QueueOf[t] ELSE Default

-----------------------------------------------------------------------------
(* Enqueue, claim, run, result                                             *)

Later(a, b) == IF a > b THEN a ELSE b

(* A hash is kept from the time its task is due.                           *)
(* Mutant: from the time it is enqueued. *)
WaitingExpiryNow(due) == IF ResultTtl > 0 THEN now + ResultTtl ELSE Never
WaitingExpiry(due) == IF ResultTtl > 0 THEN Later(now, due) + ResultTtl ELSE Never

Enqueue(t, due) ==
    /\ t \in setup.tasks \ ids /\ ids' = ids \cup {t}
    /\ hash' = [hash EXCEPT ![t] =
          [status |-> "READY", enqueued |-> now, due |-> due, tried |-> Never,
           done |-> Never, full |-> TRUE, expires |-> WaitingExpiry(due)]]
    /\ results' = results \cup {t}
    /\ Moves(t, QueueOf[t], "READY", Later(now, due))
    /\ UNCHANGED <<setup, now, built, asked, jobs, spent>>

(* has_status_index asks for the marker, then for the results, then sets   *)
(* the marker.                                                             *)
AskIndex ==
    /\ ~built /\ ~asked
    /\ results = {}
    /\ asked' = TRUE
    /\ UNCHANGED <<setup, now, ids, store, built, jobs, spent>>

MarkBuilt ==
    /\ asked /\ asked' = FALSE
    /\ built' = TRUE
    /\ UNCHANGED <<setup, now, ids, store, jobs, spent>>

(* claim_task, and run_task up to the call of the function.                *)
Claim(t) ==
    /\ Full(t)
    /\ hash[t].status = "READY" \/ (hash[t].status = "FAILED" /\ spent.retry < Budget.retry)
    /\ spent' = IF hash[t].status = "FAILED" THEN [spent EXCEPT !.retry = @ + 1] ELSE spent
    /\ EarlyTriggers \/ hash[t].due <= now
    /\ \E r \in Run :
          /\ r <= setup.runs /\ run[r].at = "none"
          /\ \A q \in Run : q < r => run[q].at # "none"
          /\ run' = [run EXCEPT ![r] = [task |-> t, at |-> "runs"]]
    /\ hash' = [hash EXCEPT ![t].status = "RUNNING", ![t].tried = now]
    /\ Moves(t, QueueOf[t], "RUNNING", now)
    /\ UNCHANGED <<setup, now, ids, results, built, asked, giveup, reset, delete, purge, rebuild>>

(* HSET and EXPIRE of a finished task: a hash that is gone is created      *)
(* again, without the fields of its enqueue, and a TTL of 0 leaves the one *)
(* there was.                                                              *)
(* Mutant: a finished result keeps the TTL it was enqueued with. *)
CompletedExpiryKept(t) == hash[t].expires
CompletedExpiry(t) == IF CompletedTtl > 0 THEN now + CompletedTtl ELSE hash[t].expires

Ends(t, status) ==
    hash' = [hash EXCEPT ![t].status = status, ![t].done = now,
                         ![t].expires = CompletedExpiry(t)]

(* The function returned: the result is written, then read back.           *)
Succeed(r) ==
    /\ run[r].at = "runs"
    /\ run' = [run EXCEPT ![r].at = "reports"]
    /\ Ends(run[r].task, "SUCCESSFUL")
    /\ Moves(run[r].task, QueueOf[run[r].task], "SUCCESSFUL", now)
    /\ UNCHANGED <<setup, now, ids, results, built, asked, giveup, reset, delete, purge,
                   rebuild, spent>>

(* A hash without its fields cannot be made a result: the exception is     *)
(* recorded as that of the task, on what was read.                         *)
ReadBack(r) ==
    /\ run[r].at = "reports"
    /\ run' = [run EXCEPT ![r].at = "none"]
    /\ IF Full(run[r].task)
       THEN UNCHANGED <<hash, index>>
       ELSE /\ Ends(run[r].task, "FAILED")
            /\ Moves(run[r].task, Default, "FAILED", now)
    /\ UNCHANGED <<setup, now, ids, results, built, asked, giveup, reset, delete, purge,
                   rebuild, spent>>

(* The function raised: _record_error on the data the run started with.    *)
Fail(r) ==
    /\ run[r].at = "runs"
    /\ run' = [run EXCEPT ![r].at = "none"]
    /\ Ends(run[r].task, "FAILED")
    /\ Moves(run[r].task, QueueOf[run[r].task], "FAILED", now)
    /\ UNCHANGED <<setup, now, ids, results, built, asked, giveup, reset, delete, purge,
                   rebuild, spent>>

(* The worker of a run dies.                                               *)
Die(r) ==
    /\ run[r].at # "none"
    /\ run' = [run EXCEPT ![r].at = "none"]
    /\ UNCHANGED <<setup, now, ids, store, built, asked, giveup, reset, delete, purge,
                   rebuild, spent>>

-----------------------------------------------------------------------------
(* Sweeps and operators                                                    *)

(* transition_task_status, for a task whose hash names its queue.          *)
Transition(t, from, to) ==
    /\ Full(t) /\ hash[t].status \in from
    /\ hash' = [hash EXCEPT ![t].status = to]
    /\ Moves(t, QueueOf[t], to, now)

HandBack(t) ==
    /\ Spend("handback")
    /\ Transition(t, {"RUNNING"}, "READY")
    /\ UNCHANGED <<setup, now, ids, results, built, asked, jobs>>

(* mark_task_failed: the transition, a read, the record of the error.      *)
GiveUp(t) ==
    /\ Spend("giveup")
    /\ giveup[t] = "none" /\ giveup' = [giveup EXCEPT ![t] = "marked"]
    /\ Transition(t, {"READY", "RUNNING"}, "FAILED")
    /\ UNCHANGED <<setup, now, ids, results, built, asked, run, reset, delete, purge, rebuild>>

GiveUpReads(t) ==
    /\ giveup[t] = "marked"
    /\ giveup' = [giveup EXCEPT ![t] = IF Full(t) THEN "full" ELSE "bare"]
    /\ UNCHANGED <<setup, now, ids, store, built, asked, run, reset, delete, purge,
                   rebuild, spent>>

GiveUpRecords(t) ==
    /\ giveup[t] \in {"full", "bare"}
    /\ giveup' = [giveup EXCEPT ![t] = "none"]
    /\ Ends(t, "FAILED")
    /\ Moves(t, Queue(t, giveup[t] = "full"), "FAILED", now)
    /\ UNCHANGED <<setup, now, ids, results, built, asked, run, reset, delete, purge,
                   rebuild, spent>>

(* reset_task_status: a read, then a write that looks at nothing.          *)
ResetReads(t) ==
    /\ Stored(t) /\ Spend("reset")
    /\ reset[t] = "none"
    /\ reset' = [reset EXCEPT ![t] = IF Full(t) THEN "full" ELSE "bare"]
    /\ UNCHANGED <<setup, now, ids, store, built, asked, run, giveup, delete, purge, rebuild>>

ResetWrites(t) ==
    /\ reset[t] # "none"
    /\ reset' = [reset EXCEPT ![t] = "none"]
    /\ hash' = [hash EXCEPT ![t].status = "READY", ![t].done = Never]
    /\ Moves(t, Queue(t, reset[t] = "full"), "READY", now)
    /\ UNCHANGED <<setup, now, ids, results, built, asked, run, giveup, delete, purge,
                   rebuild, spent>>

(* delete_task_data: the queue is read, then everything is deleted.        *)
DeleteReads(t, by) ==
    /\ delete[t][1] = "none"
    /\ delete' = [delete EXCEPT ![t] = <<by, Full(t)>>]
    /\ UNCHANGED <<setup, now, ids, store, built, asked, run, giveup, reset, rebuild>>

Swept(t) == {Backend} \cup (IF delete[t][2] THEN {QueueOf[t]} ELSE {})

DeleteWrites(t) ==
    /\ delete[t][1] # "none"
    /\ delete' = [delete EXCEPT ![t] = <<"none", FALSE>>]
    /\ hash' = [hash EXCEPT ![t] = NoHash]
    /\ results' = results \ {t}
    /\ index' = {e \in index : e.task # t \/ e.scope \notin Swept(t)}
    /\ UNCHANGED <<setup, now, ids, built, asked, run, giveup, reset, purge, rebuild, spent>>

OperatorDeletes(t) ==
    t \in ids /\ Spend("delete") /\ DeleteReads(t, "operator") /\ UNCHANGED purge

-----------------------------------------------------------------------------
(* Passes over the results: iter_task_data                                 *)

PurgeBegins ==
    /\ purge.at = "idle" /\ Spend("purge")
    /\ purge' = [at |-> "walk", start |-> now, todo |-> results, read |-> {}]
    /\ UNCHANGED <<setup, now, ids, store, built, asked, run, giveup, reset, delete, rebuild>>

(* Mutant: a task that has not finished is as old as its enqueue. *)
PurgeableByAge(h) == h.enqueued # Never /\ h.enqueued < purge.start - PurgeAge
Purgeable(h) ==
    /\ h.status \in Finished
    /\ h.done # Never /\ h.done < purge.start - PurgeAge

(* A batch is read: what has expired leaves the results.                   *)
PurgeReads(t) ==
    /\ purge.at = "walk" /\ t \in purge.todo
    /\ purge' = [purge EXCEPT !.todo = @ \ {t},
                              !.read = IF Purgeable(hash[t]) THEN @ \cup {t} ELSE @]
    /\ results' = IF Stored(t) THEN results ELSE results \ {t}
    /\ UNCHANGED <<setup, now, ids, hash, index, built, asked, run, giveup, reset, delete,
                   rebuild, spent>>

PurgeDeletes(t) ==
    /\ purge.at = "walk" /\ t \in purge.read
    /\ purge' = [purge EXCEPT !.read = @ \ {t}]
    /\ DeleteReads(t, "purge")
    /\ UNCHANGED spent

PurgeEnds ==
    /\ purge.at = "walk" /\ purge.todo = {} /\ purge.read = {}
    /\ purge' = Idle
    /\ UNCHANGED <<setup, now, ids, store, built, asked, run, giveup, reset, delete, rebuild,
                   spent>>

RebuildBegins ==
    /\ rebuild.at = "idle" /\ Spend("rebuild")
    /\ rebuild' = [at |-> "walk", start |-> now, todo |-> results, read |-> {}]
    /\ UNCHANGED <<setup, now, ids, store, built, asked, run, giveup, reset, delete, purge>>

(* _status_since, from the fields of the hash.                             *)
Since(h) ==
    CASE h.status = "READY" -> Later(h.enqueued, h.due)
      [] h.status = "RUNNING" -> h.tried
      [] OTHER -> h.done

(* Mutant: nothing stands in for a field the hash does not carry. *)
StatusSinceUnset(h, at) == Since(h)
StatusSince(h, at) == IF Since(h) = Never THEN at ELSE Since(h)

RebuildReads(t) ==
    /\ rebuild.at = "walk" /\ t \in rebuild.todo
    /\ LET h == hash[t] IN
       rebuild' = [rebuild EXCEPT
          !.todo = @ \ {t},
          !.read = IF Stored(t)
                   THEN @ \cup {[task |-> t, status |-> h.status, full |-> h.full,
                                 since |-> StatusSince(h, rebuild.start)]}
                   ELSE @]
    /\ results' = IF Stored(t) THEN results ELSE results \ {t}
    /\ UNCHANGED <<setup, now, ids, hash, index, built, asked, run, giveup, reset, delete,
                   purge, spent>>

(* Mutant: the status is not read again. *)
StillOrAgain(w) == Stored(w.task)
StillThere(w) == hash[w.task].status = w.status

(* _INDEX_TASK for a result that was read.                                 *)
RebuildIndexes(w) ==
    /\ rebuild.at = "walk" /\ w \in rebuild.read
    /\ rebuild' = [rebuild EXCEPT !.read = @ \ {w}]
    /\ LET scopes == {Backend, Queue(w.task, w.full)} IN
       index' = IF ~Stored(w.task)
                THEN {e \in index : e.task # w.task \/ e.scope \notin scopes}
                ELSE IF StillThere(w)
                THEN Indexed(index, scopes, w.task, w.status, w.since,
                             Cutoff(w.status, rebuild.start))
                ELSE index
    /\ UNCHANGED <<setup, now, ids, hash, results, built, asked, run, giveup, reset, delete,
                   purge, spent>>

(* Mutant: the marker is set when the pass over the results is over. *)
RebuildRead == rebuild.todo = {}
RebuildDone == rebuild.todo = {} /\ rebuild.read = {}

RebuildEnds ==
    /\ rebuild.at = "walk" /\ RebuildDone
    /\ rebuild' = Idle
    /\ built' = TRUE
    /\ UNCHANGED <<setup, now, ids, store, asked, run, giveup, reset, delete, purge, spent>>

-----------------------------------------------------------------------------
(* Reads, and time                                                         *)

(* _read_status_index prunes the sets it is about to count.                *)
ReadIndex(scope) ==
    /\ built
    /\ index' = {e \in index : e.scope = scope => e.score > Cutoff(e.status, now)}
    /\ index' # index
    /\ UNCHANGED <<setup, now, ids, hash, results, built, asked, jobs, spent>>

Expired(t) == hash[t].expires # Never /\ hash[t].expires <= now'

Tick ==
    /\ now < MaxTime
    /\ now' = now + 1
    /\ hash' = [t \in Tasks |-> IF Expired(t) THEN NoHash ELSE hash[t]]
    /\ UNCHANGED <<setup, ids, results, index, built, asked, jobs, spent>>

Next ==
    \/ \E t \in Tasks :
          \/ Enqueue(t, Never) \/ \E d \in setup.delays : Enqueue(t, now + d)
          \/ Claim(t) \/ HandBack(t)
          \/ GiveUp(t) \/ GiveUpReads(t) \/ GiveUpRecords(t)
          \/ ResetReads(t) \/ ResetWrites(t)
          \/ OperatorDeletes(t) \/ DeleteWrites(t)
          \/ PurgeReads(t) \/ PurgeDeletes(t)
          \/ RebuildReads(t)
    \/ \E r \in Run : Succeed(r) \/ ReadBack(r) \/ Fail(r) \/ Die(r)
    \/ \E w \in rebuild.read : RebuildIndexes(w)
    \/ AskIndex \/ MarkBuilt
    \/ PurgeBegins \/ PurgeEnds \/ RebuildBegins \/ RebuildEnds
    \/ \E q \in Scopes : ReadIndex(q)
    \/ Tick

Spec == Init /\ [][Next]_vars

-----------------------------------------------------------------------------
(* What is counted                                                         *)

(* What a read of the index counts, once it has pruned.                    *)
Counted(scope, status) ==
    {e.task : e \in {x \in index : /\ x.scope = scope /\ x.status = status
                                   /\ x.score > Cutoff(status, now)}}

(* What a pass over the results counts.                                    *)
Scanned(scope, status) ==
    {t \in results : /\ hash[t].status = status
                     /\ scope = Backend \/ (Full(t) /\ scope = QueueOf[t])}

(* The tasks that are due, and since when they wait, read either way.      *)
PendingCounted(scope) ==
    {e.task : e \in {x \in index : /\ x.scope = scope /\ x.status = "READY"
                                   /\ x.score > Cutoff("READY", now)
                                   /\ x.score <= now}}
PendingScanned(scope) ==
    {t \in Scanned(scope, "READY") : Later(hash[t].enqueued, hash[t].due) <= now}

-----------------------------------------------------------------------------
(* Properties                                                              *)

(* Whoever lands last, a task is in at most one set of a scope, so that no *)
(* count adds it twice (_INDEX_STATUS sweeps the sets of every status).    *)
OneStatusPerScope ==
    \A e, f \in index :
        (e.scope = f.scope /\ e.task = f.task) => e = f

(* A task is in one set of a scope, and the index never shows a status the *)
(* hash does not: the backend-wide sets for every hash, the queue's for    *)
(* one that knows its queue.                                               *)
IndexAgrees ==
    /\ OneStatusPerScope
    /\ \A e \in index :
          (Stored(e.task) /\ (e.scope = Backend \/ Full(e.task)))
              => e.status = hash[e.task].status

(* No operation of these kinds has been started.                           *)
Without(kinds) == \A k \in kinds : spent[k] = 0

(* No task goes back to waiting by a reset, and none finishes a second     *)
(* time while the index is rebuilt: a rebuild then restores the time it    *)
(* read, and the entry is pruned before its hash expires.                  *)
FinishesOnce ==
    /\ Without({"reset"})
    /\ \/ Without({"rebuild"})
       \/ Without({"retry", "giveup"}) /\ (Without({"handback"}) \/ setup.runs = 1)

(* The entry of a task that runs again outlives the TTL its hash was given *)
(* when it finished.                                                       *)
RetriesCovered ==
    Without({"retry"}) \/ ResultTtl = 0 \/ (0 < CompletedTtl /\ CompletedTtl <= ResultTtl)

(* mark_task_failed has moved the status and not yet recorded the error:   *)
(* the hash still has the TTL of a task that waits or runs.                *)
Unrecorded(t) == giveup[t] # "none" /\ hash[t].status = "FAILED"

(* A hash that was enqueued before it was due keeps its TTL while a        *)
(* trigger runs the task, and when it is handed back from there.           *)
EarlyStatuses == {"RUNNING"} \cup (IF Without({"handback"}) THEN {} ELSE {"READY"})

(* Once the marker is set every stored result is counted under its status, *)
(* in both scopes, those stored before the index existed included, and as  *)
(* pending when it is due.                                                 *)
BuiltMeansCovered ==
    (built /\ FinishesOnce /\ RetriesCovered) =>
        \A q \in Scopes, s \in Statuses :
            (EarlyTriggers => s \notin EarlyStatuses) =>
                /\ {t \in Scanned(q, s) : ~Unrecorded(t)} \subseteq Counted(q, s)
                /\ s = "READY" => PendingScanned(q) \subseteq PendingCounted(q)

(* A finished task is counted as long as its result is stored and no       *)
(* longer: the entry and the hash expire together.  Apart from the tasks   *)
(* whose hash was stored again without its fields; the set of a queue      *)
(* keeps the entry of such a task when it is deleted.                      *)
FinishedCountIsExact ==
    (built /\ FinishesOnce /\ RetriesCovered /\ (ResultTtl = 0 \/ CompletedTtl > 0)) =>
        \A q \in Scopes, s \in Finished :
            (q = Backend \/ Without({"delete", "purge"})) =>
                {t \in Counted(q, s) : (Stored(t) => Full(t)) /\ giveup[t] = "none"}
                    = {t \in Scanned(q, s) : Full(t) /\ giveup[t] = "none"}

(* A task that is counted as waiting has its hash, without which it is     *)
(* lost: the TTL of READY runs from the time it starts waiting.            *)
WaitingIsStored ==
    Without({"reset", "handback"}) => \A t \in Counted(Backend, "READY") : Stored(t)

(* A purge deletes completed tasks: not one that is waiting or running     *)
(* when it is deleted, unless somebody runs completed tasks again.         *)
PurgeSparesLive ==
    [][Without({"retry", "reset"}) =>
          \A t \in Tasks : (delete[t][1] = "purge" /\ delete'[t][1] = "none")
              => hash[t].status \notin {"READY", "RUNNING"}]_vars
=============================================================================
