------------------------- MODULE StatusIndex_proofs -------------------------
(***************************************************************************)
(* Proofs about StatusIndex, for any set of tasks, of queues, of settings  *)
(* and any number of runs.                                                 *)
(*                                                                         *)
(* Most writers of a hash do the same thing: one script or transaction     *)
(* stores the new status and moves the task in the index.  StepShapes says *)
(* so once; the invariants are then proved by shape instead of by action.  *)
(***************************************************************************)
EXTENDS StatusIndex, TLAPS

-----------------------------------------------------------------------------
(* The types of every field                                                *)

Hash == [status : Statuses \cup {"none"}, expires : Nat \cup {Never},
         enqueued : Nat \cup {Never}, due : Nat \cup {Never},
         tried : Nat \cup {Never}, done : Nat \cup {Never}, full : BOOLEAN]
Entry == [scope : Scopes, status : Statuses, task : Tasks, score : Nat]
Reading == [task : Tasks, status : Statuses, full : BOOLEAN, since : Nat]

(* A stored status, or nothing at all, which has not expired.              *)
Sound(h, at) ==
    /\ h \in Hash
    /\ h.status = "none" => h = NoHash
    /\ h.expires = Never \/ h.expires > at

StoreTypes ==
    /\ setup \in Setups
    /\ now \in 0 .. MaxTime
    /\ hash \in [Tasks -> Hash]
    /\ \A t \in Tasks : Sound(hash[t], now)
    /\ index \subseteq Entry

CallerTypes ==
    /\ built \in BOOLEAN /\ asked \in BOOLEAN
    /\ run \in [Run -> [task : Tasks, at : {"none", "runs", "reports"}]
                       \cup {[at |-> "none"]}]
    /\ giveup \in [Tasks -> {"none", "marked", "full", "bare"}]
    /\ reset \in [Tasks -> {"none", "full", "bare"}]
    /\ delete \in [Tasks -> {"none", "operator", "purge"} \X BOOLEAN]
    /\ spent \in [Kinds -> Nat]
    /\ \A k \in Kinds : spent[k] <= Budget[k]

PassTypes ==
    /\ purge \in [at : {"idle", "walk"}, start : Nat, todo : SUBSET Tasks,
                  read : SUBSET Tasks]
    /\ rebuild \in [at : {"idle", "walk"}, start : Nat, todo : SUBSET Tasks,
                    read : SUBSET Reading]

(* Everything that is stored, indexed or held by a caller was enqueued.    *)
Known ==
    /\ ids \subseteq Tasks
    /\ \A t \in Tasks : (Stored(t) \/ giveup[t] # "none" \/ reset[t] # "none"
                           \/ delete[t][1] # "none") => t \in ids
    /\ results \subseteq ids
    /\ purge.todo \subseteq ids /\ purge.read \subseteq ids /\ rebuild.todo \subseteq ids
    /\ \A e \in index : e.task \in ids
    /\ \A r \in Run : run[r].at # "none" => run[r].task \in ids
    /\ \A w \in rebuild.read : w.task \in ids

(* The hash of an enqueued task is gone, or stored again without the       *)
(* fields of its enqueue: it never has them back.                          *)
Bare(t) == t \in ids /\ ~Full(t)

(* A caller that takes the default queue has read a bare hash, and only a  *)
(* bare hash has entries in the sets of a queue that is not its own.       *)
OwnQueue ==
    /\ \A t \in Tasks : giveup[t] = "bare" \/ reset[t] = "bare" => Bare(t)
    /\ \A w \in rebuild.read : ~w.full => Bare(w.task)
    /\ \A e \in index : e.scope \in {Backend, QueueOf[e.task]} \/ Bare(e.task)

IndexInv == StoreTypes /\ CallerTypes /\ PassTypes /\ Known /\ OwnQueue /\ IndexAgrees

(* The settings of a setup are numbers.                                    *)
LEMMA SetupTypes ==
    ASSUME setup \in Setups
    PROVE  /\ ResultTtl \in Nat /\ CompletedTtl \in Nat /\ MaxTime \in Nat
           /\ setup.runs \in Nat /\ setup.tasks \subseteq Tasks
           /\ Legacy \subseteq setup.tasks /\ setup.delays \subseteq Nat \ {0}
           /\ Budget \in [Kinds -> Nat] /\ PurgeAge \in Nat
BY IndexAssumption DEF Setup, ResultTtl, CompletedTtl, MaxTime, Legacy, Budget, PurgeAge

LEMMA TtlTypes ==
    ASSUME setup \in Setups, NEW status
    PROVE  Ttl(status) \in Nat
BY SetupTypes DEF Ttl

-----------------------------------------------------------------------------
(* The initial states                                                      *)

LEMMA LegacyTypes ==
    ASSUME setup \in Setups, NEW status \in {"READY", "FAILED"}
    PROVE  Sound(LegacyHash(status), 0) /\ LegacyHash(status).status = status
<1>1. Ttl(status) \in Nat
    BY TtlTypes
<1>2. LegacyHash(status) \in Hash
    BY <1>1 DEF LegacyHash, Hash, Never, Statuses, Finished
<1> QED BY <1>1, <1>2 DEF LegacyHash, Sound, Never

LEMMA NoHashSound ==
    ASSUME NEW n \in Nat PROVE Sound(NoHash, n) /\ NoHash.status = "none" /\ ~NoHash.full
BY DEF Sound, NoHash, Hash, Never

LEMMA IndexInit == Init => IndexInv
<1> SUFFICES ASSUME Init PROVE IndexInv
    OBVIOUS
<1>0. setup \in Setups /\ now = 0
    BY DEF Init
<1> USE SetupTypes
<1>1. PICK status \in [Legacy -> {"READY", "FAILED"}] :
          hash = [t \in Tasks |-> IF t \in Legacy THEN LegacyHash(status[t]) ELSE NoHash]
    BY DEF Init
<1>2. \A t \in Tasks : /\ Sound(hash[t], 0)
                       /\ Stored(t) => t \in Legacy
    <2> TAKE t \in Tasks
    <2>1. CASE t \in Legacy
        BY <1>0, <1>1, <2>1, LegacyTypes
    <2>2. CASE t \notin Legacy
        BY <1>0, <1>1, <2>2, NoHashSound DEF Stored
    <2> QED BY <2>1, <2>2
<1>3. StoreTypes
    <2>1. hash \in [Tasks -> Hash]
        BY <1>1, <1>2 DEF Sound
    <2> QED BY <1>0, <1>2, <2>1 DEF StoreTypes, Init
<1>4. CallerTypes
    <2>1. run \in [Run -> [task : Tasks, at : {"none", "runs", "reports"}]
                          \cup {[at |-> "none"]}]
        BY DEF Init
    <2>2. spent \in [Kinds -> Nat] /\ \A k \in Kinds : spent[k] <= Budget[k]
        BY <1>0 DEF Init
    <2> QED BY <2>1, <2>2 DEF Init, CallerTypes
<1>5. PassTypes
    BY DEF Init, PassTypes, Idle
<1>6. Known
    <2>1. \A r \in Run : run[r].at = "none"
        BY DEF Init
    <2>2. \A t \in Tasks : /\ giveup[t] = "none" /\ reset[t] = "none"
                           /\ delete[t][1] = "none"
        BY DEF Init
    <2>3. ids = Legacy /\ results = Legacy /\ index = {} /\ Legacy \subseteq Tasks
        BY <1>0 DEF Init
    <2>4. /\ purge.todo = {} /\ purge.read = {}
          /\ rebuild.todo = {} /\ rebuild.read = {}
        BY DEF Init, Idle
    <2> QED BY <1>2, <2>1, <2>2, <2>3, <2>4 DEF Known
<1>7. OwnQueue
    <2>1. \A t \in Tasks : giveup[t] = "none" /\ reset[t] = "none"
        BY DEF Init
    <2>2. index = {} /\ rebuild.read = {}
        BY DEF Init, Idle
    <2> QED BY <2>1, <2>2 DEF OwnQueue
<1>8. IndexAgrees
    BY DEF Init, IndexAgrees, OneStatusPerScope
<1> QED BY <1>3, <1>4, <1>5, <1>6, <1>7, <1>8 DEF IndexInv

-----------------------------------------------------------------------------
(* The shapes of a step                                                    *)

(* The hash of t is stored with a status; no other hash is touched.        *)
Stores(t) ==
    /\ t \in Tasks
    /\ hash' \in [Tasks -> Hash] /\ \A u \in Tasks \ {t} : hash'[u] = hash[u]
    /\ hash'[t].status \in Statuses /\ Sound(hash'[t], now)

(* One write of a status: the hash and the index together.                 *)
Writes(t, q, score) ==
    /\ Stores(t)
    /\ Moves(t, q, hash'[t].status, score)
    /\ now' = now
    /\ \/ /\ t \in ids /\ ids' = ids /\ hash'[t].full = hash[t].full
          /\ q = QueueOf[t] \/ (q = Default /\ Bare(t))
       \/ t \notin ids /\ ids' = ids \cup {t} /\ q = QueueOf[t]

(* The fields a write leaves alone, and those the end of a task sets.      *)
SameFields(t) ==
    /\ hash'[t].full = hash[t].full /\ hash'[t].enqueued = hash[t].enqueued
    /\ hash'[t].due = hash[t].due
SameTimes(t) ==
    /\ SameFields(t)
    /\ hash'[t].tried = hash[t].tried /\ hash'[t].done = hash[t].done
    /\ hash'[t].expires = hash[t].expires
Ended(t) ==
    /\ SameFields(t)
    /\ hash'[t].tried = hash[t].tried /\ hash'[t].done = now
    /\ hash'[t].expires = CompletedExpiry(t)

Writing == \E t \in Tasks, q \in Scopes, score \in Nat : Writes(t, q, score)

LEMMA OwnScopes == \A t \in Tasks : QueueOf[t] \in Scopes /\ QueueOf[t] # Backend
BY IndexAssumption DEF Scopes

LEMMA DefaultScope == Default \in Scopes /\ Backend \in Scopes /\ Default # Backend
BY IndexAssumption DEF Scopes

LEMMA OneStores ==
    ASSUME StoreTypes, NEW t \in Tasks, NEW h \in Hash, h.status \in Statuses,
           h.expires = Never \/ h.expires > now, hash' = [hash EXCEPT ![t] = h]
    PROVE  Stores(t) /\ hash'[t] = h
<1>1. hash \in [Tasks -> Hash]
    BY DEF StoreTypes
<1>2. hash' \in [Tasks -> Hash] /\ hash'[t] = h /\ \A u \in Tasks \ {t} : hash'[u] = hash[u]
    BY <1>1
<1>3. Sound(h, now)
    BY DEF Sound, Statuses, Finished
<1> QED BY <1>2, <1>3 DEF Stores

LEMMA EndsStores ==
    ASSUME StoreTypes, NEW t \in Tasks, NEW status \in Finished, Ends(t, status)
    PROVE  /\ Stores(t) /\ hash'[t].status = status
           /\ hash'[t].full = hash[t].full /\ hash'[t].enqueued = hash[t].enqueued
           /\ hash'[t].due = hash[t].due /\ hash'[t].tried = hash[t].tried
           /\ hash'[t].done = now /\ hash'[t].expires = CompletedExpiry(t)
<1> DEFINE h == [hash[t] EXCEPT !.status = status, !.done = now,
                                !.expires = CompletedExpiry(t)]
<1>1. now \in Nat /\ CompletedTtl \in Nat
    BY SetupTypes DEF StoreTypes
<1>2. /\ hash \in [Tasks -> Hash] /\ hash[t] \in Hash
      /\ hash[t].expires = Never \/ hash[t].expires > now
    BY DEF StoreTypes, Sound
<1>3. /\ CompletedExpiry(t) \in Nat \cup {Never}
      /\ CompletedExpiry(t) = Never \/ CompletedExpiry(t) > now
    BY <1>1, <1>2 DEF CompletedExpiry, Hash
<1>4. hash' = [hash EXCEPT ![t] = h]
    BY <1>2 DEF Ends
<1>5. /\ h \in Hash /\ h.status = status /\ h.expires = CompletedExpiry(t)
      /\ h.full = hash[t].full /\ h.enqueued = hash[t].enqueued
      /\ h.due = hash[t].due /\ h.tried = hash[t].tried /\ h.done = now
    BY <1>1, <1>2, <1>3 DEF Hash, Statuses
<1> HIDE DEF h
<1>6. h.status \in Statuses
    BY <1>5 DEF Statuses
<1>7. Stores(t) /\ hash'[t] = h
    BY <1>3, <1>4, <1>5, <1>6, OneStores
<1> QED BY <1>5, <1>7

LEMMA TransitionStores ==
    ASSUME StoreTypes, NEW t \in Tasks, NEW status \in Statuses,
           hash' = [hash EXCEPT ![t].status = status]
    PROVE  /\ Stores(t) /\ hash'[t].status = status
           /\ hash'[t].full = hash[t].full /\ hash'[t].enqueued = hash[t].enqueued
           /\ hash'[t].due = hash[t].due /\ hash'[t].tried = hash[t].tried
           /\ hash'[t].done = hash[t].done /\ hash'[t].expires = hash[t].expires
<1> DEFINE h == [hash[t] EXCEPT !.status = status]
<1>1. /\ hash \in [Tasks -> Hash] /\ hash[t] \in Hash
      /\ hash[t].expires = Never \/ hash[t].expires > now
    BY DEF StoreTypes, Sound
<1>2. hash' = [hash EXCEPT ![t] = h]
    BY <1>1
<1>3. /\ h \in Hash /\ h.status = status /\ h.expires = hash[t].expires
      /\ h.full = hash[t].full /\ h.enqueued = hash[t].enqueued
      /\ h.due = hash[t].due /\ h.tried = hash[t].tried /\ h.done = hash[t].done
    BY <1>1 DEF Hash
<1> HIDE DEF h
<1>4. Stores(t) /\ hash'[t] = h
    BY <1>1, <1>2, <1>3, OneStores
<1> QED BY <1>3, <1>4

LEMMA EnqueueShape ==
    ASSUME IndexInv, NEW t \in Tasks, NEW due \in Nat \cup {Never}, Enqueue(t, due)
    PROVE  /\ Writes(t, QueueOf[t], Later(now, due)) /\ Later(now, due) \in Nat
           /\ t \notin ids /\ hash'[t].status = "READY" /\ hash'[t].full
           /\ hash'[t].enqueued = now /\ hash'[t].due = due
           /\ hash'[t].expires = WaitingExpiry(due)
           /\ hash'[t].tried = Never /\ hash'[t].done = Never
<1> DEFINE h == [status |-> "READY", enqueued |-> now, due |-> due, tried |-> Never,
                 done |-> Never, full |-> TRUE, expires |-> WaitingExpiry(due)]
<1>1. StoreTypes /\ now \in Nat /\ ResultTtl \in Nat
    BY SetupTypes DEF IndexInv, StoreTypes
<1>2. Later(now, due) \in Nat /\ Later(now, due) >= now
    BY <1>1 DEF Later, Never
<1>3. /\ WaitingExpiry(due) \in Nat \cup {Never}
      /\ WaitingExpiry(due) = Never \/ WaitingExpiry(due) > now
    BY <1>1, <1>2 DEF WaitingExpiry
<1>4. h \in Hash /\ h.status \in Statuses
    BY <1>1, <1>3 DEF Hash, Statuses
<1>5. hash' = [hash EXCEPT ![t] = h]
    BY DEF Enqueue
<1>6. /\ h.status = "READY" /\ h.full /\ h.enqueued = now /\ h.due = due
      /\ h.expires = WaitingExpiry(due) /\ h.tried = Never /\ h.done = Never
    OBVIOUS
<1> HIDE DEF h
<1>7. Stores(t) /\ hash'[t] = h
    BY <1>1, <1>3, <1>4, <1>5, <1>6, OneStores
<1>8. t \notin ids /\ ids' = ids \cup {t} /\ now' = now
      /\ Moves(t, QueueOf[t], "READY", Later(now, due))
    BY DEF Enqueue
<1>9. Writes(t, QueueOf[t], Later(now, due))
    BY <1>6, <1>7, <1>8 DEF Writes
<1> QED BY <1>2, <1>6, <1>7, <1>8, <1>9

LEMMA ClaimShape ==
    ASSUME IndexInv, NEW t \in Tasks, Claim(t)
    PROVE  /\ Writes(t, QueueOf[t], now) /\ hash'[t].status = "RUNNING" /\ t \in ids
           /\ SameFields(t) /\ hash'[t].tried = now /\ hash'[t].done = hash[t].done
           /\ hash'[t].expires = hash[t].expires
<1> DEFINE h == [hash[t] EXCEPT !.status = "RUNNING", !.tried = now]
<1>1. StoreTypes /\ now \in Nat
    BY SetupTypes DEF IndexInv, StoreTypes
<1>2. /\ hash \in [Tasks -> Hash] /\ hash[t] \in Hash
      /\ hash[t].expires = Never \/ hash[t].expires > now
    BY <1>1 DEF StoreTypes, Sound
<1>3. hash' = [hash EXCEPT ![t] = h]
    BY <1>2 DEF Claim
<1>4. /\ h \in Hash /\ h.status = "RUNNING" /\ h.expires = hash[t].expires
      /\ h.full = hash[t].full /\ h.enqueued = hash[t].enqueued /\ h.due = hash[t].due
      /\ h.tried = now /\ h.done = hash[t].done
    BY <1>1, <1>2 DEF Hash, Statuses
<1> HIDE DEF h
<1>5. Stores(t) /\ hash'[t] = h
    BY <1>1, <1>2, <1>3, <1>4, OneStores DEF Statuses
<1>6. Stored(t)
    BY DEF Claim, Stored
<1>7. t \in ids
    BY <1>6 DEF IndexInv, Known
<1>8. ids' = ids /\ now' = now /\ Moves(t, QueueOf[t], "RUNNING", now)
    BY DEF Claim
<1> QED BY <1>4, <1>5, <1>7, <1>8 DEF Writes, SameFields

(* The result of a run, of a task given up, or of one that cannot be read  *)
(* back.                                                                   *)
LEMMA EndsShape ==
    ASSUME IndexInv, NEW t \in ids, NEW status \in Finished, NEW q,
           Ends(t, status), Moves(t, q, status, now),
           q = QueueOf[t] \/ (q = Default /\ Bare(t)), now' = now, ids' = ids
    PROVE  Writes(t, q, now) /\ hash'[t].status = status /\ t \in Tasks /\ Ended(t)
<1>1. StoreTypes /\ t \in Tasks
    BY DEF IndexInv, Known
<1>2. Stores(t) /\ hash'[t].status = status /\ Ended(t)
    BY <1>1, EndsStores DEF Ended, SameFields
<1> QED BY <1>1, <1>2 DEF Writes, Ended, SameFields

LEMMA SucceedShape ==
    ASSUME IndexInv, NEW r \in Run, Succeed(r)
    PROVE  /\ Writes(run[r].task, QueueOf[run[r].task], now) /\ run[r].task \in Tasks
           /\ hash'[run[r].task].status = "SUCCESSFUL" /\ run[r].task \in ids
           /\ Ended(run[r].task)
<1>1. run[r].task \in ids
    BY DEF IndexInv, Known, Succeed
<1>2. "SUCCESSFUL" \in Finished
    BY DEF Finished
<1> QED BY <1>1, <1>2, EndsShape DEF Succeed

LEMMA FailShape ==
    ASSUME IndexInv, NEW r \in Run, Fail(r)
    PROVE  /\ Writes(run[r].task, QueueOf[run[r].task], now) /\ run[r].task \in Tasks
           /\ hash'[run[r].task].status = "FAILED" /\ run[r].task \in ids
           /\ Ended(run[r].task)
<1>1. run[r].task \in ids
    BY DEF IndexInv, Known, Fail
<1>2. "FAILED" \in Finished
    BY DEF Finished
<1> QED BY <1>1, <1>2, EndsShape DEF Fail

LEMMA ReadBackShape ==
    ASSUME IndexInv, NEW r \in Run, ReadBack(r), ~Full(run[r].task)
    PROVE  /\ Writes(run[r].task, Default, now) /\ run[r].task \in Tasks
           /\ hash'[run[r].task].status = "FAILED" /\ run[r].task \in ids
           /\ Ended(run[r].task)
<1>1. run[r].task \in ids
    BY DEF IndexInv, Known, ReadBack
<1>2. "FAILED" \in Finished
    BY DEF Finished
<1>3. Bare(run[r].task)
    BY <1>1 DEF Bare
<1> QED BY <1>1, <1>2, <1>3, EndsShape DEF ReadBack

LEMMA GiveUpRecordsShape ==
    ASSUME IndexInv, NEW t \in Tasks, GiveUpRecords(t)
    PROVE  /\ Writes(t, Queue(t, giveup[t] = "full"), now)
           /\ hash'[t].status = "FAILED" /\ t \in ids /\ Ended(t)
           /\ Queue(t, giveup[t] = "full") \in Scopes
<1>1. t \in ids
    BY DEF IndexInv, Known, GiveUpRecords
<1>2. "FAILED" \in Finished
    BY DEF Finished
<1>3. giveup[t] # "full" => Bare(t)
    BY DEF IndexInv, OwnQueue, GiveUpRecords
<1>4. \/ Queue(t, giveup[t] = "full") = QueueOf[t]
      \/ Queue(t, giveup[t] = "full") = Default /\ Bare(t)
    BY <1>3 DEF Queue
<1>5. /\ Writes(t, Queue(t, giveup[t] = "full"), now) /\ hash'[t].status = "FAILED"
      /\ Ended(t)
    BY <1>1, <1>2, <1>4, EndsShape DEF GiveUpRecords
<1> QED BY <1>1, <1>4, <1>5, OwnScopes, DefaultScope

LEMMA TransitionShape ==
    ASSUME IndexInv, NEW t \in Tasks, NEW from, NEW to \in Statuses, from \subseteq Statuses,
           Transition(t, from, to), now' = now, ids' = ids
    PROVE  /\ Writes(t, QueueOf[t], now) /\ hash'[t].status = to /\ t \in ids
           /\ SameTimes(t)
<1>1. StoreTypes
    BY DEF IndexInv
<1>2. Stores(t) /\ hash'[t].status = to /\ SameTimes(t)
    BY <1>1, TransitionStores DEF Transition, SameTimes, SameFields
<1>3. Stored(t)
    BY DEF Transition, Stored, Statuses, Finished
<1>4. t \in ids
    BY <1>3 DEF IndexInv, Known
<1> QED BY <1>2, <1>4 DEF Writes, Transition, SameTimes, SameFields

LEMMA HandBackShape ==
    ASSUME IndexInv, NEW t \in Tasks, HandBack(t)
    PROVE  /\ Writes(t, QueueOf[t], now) /\ hash'[t].status = "READY" /\ t \in ids
           /\ SameTimes(t) /\ Full(t) /\ hash[t].status = "RUNNING"
<1>1. /\ Transition(t, {"RUNNING"}, "READY") /\ now' = now /\ ids' = ids
    BY DEF HandBack
<1>2. "READY" \in Statuses /\ {"RUNNING"} \subseteq Statuses
    BY DEF Statuses
<1>3. /\ Writes(t, QueueOf[t], now) /\ hash'[t].status = "READY" /\ t \in ids
      /\ SameTimes(t)
    BY <1>1, <1>2, TransitionShape
<1> QED BY <1>1, <1>3 DEF Transition

LEMMA GiveUpShape ==
    ASSUME IndexInv, NEW t \in Tasks, GiveUp(t)
    PROVE  /\ Writes(t, QueueOf[t], now) /\ hash'[t].status = "FAILED" /\ t \in ids
           /\ SameTimes(t) /\ Full(t) /\ hash[t].status \in {"READY", "RUNNING"}
<1>1. /\ Transition(t, {"READY", "RUNNING"}, "FAILED") /\ now' = now /\ ids' = ids
    BY DEF GiveUp
<1>2. "FAILED" \in Statuses /\ {"READY", "RUNNING"} \subseteq Statuses
    BY DEF Statuses, Finished
<1>3. /\ Writes(t, QueueOf[t], now) /\ hash'[t].status = "FAILED" /\ t \in ids
      /\ SameTimes(t)
    BY <1>1, <1>2, TransitionShape
<1> QED BY <1>1, <1>3 DEF Transition

LEMMA ResetShape ==
    ASSUME IndexInv, NEW t \in Tasks, ResetWrites(t)
    PROVE  /\ Writes(t, Queue(t, reset[t] = "full"), now)
           /\ hash'[t].status = "READY" /\ t \in ids
           /\ Queue(t, reset[t] = "full") \in Scopes
           /\ SameFields(t) /\ hash'[t].tried = hash[t].tried /\ hash'[t].done = Never
           /\ hash'[t].expires = hash[t].expires
<1> DEFINE h == [hash[t] EXCEPT !.status = "READY", !.done = Never]
<1>1. StoreTypes
    BY DEF IndexInv
<1>2. /\ hash \in [Tasks -> Hash] /\ hash[t] \in Hash
      /\ hash[t].expires = Never \/ hash[t].expires > now
    BY <1>1 DEF StoreTypes, Sound
<1>3. hash' = [hash EXCEPT ![t] = h]
    BY <1>2 DEF ResetWrites
<1>4. /\ h \in Hash /\ h.status = "READY" /\ h.expires = hash[t].expires
      /\ h.full = hash[t].full /\ h.enqueued = hash[t].enqueued /\ h.due = hash[t].due
      /\ h.tried = hash[t].tried /\ h.done = Never
    BY <1>2 DEF Hash, Statuses
<1> HIDE DEF h
<1>5. Stores(t) /\ hash'[t] = h
    BY <1>1, <1>2, <1>3, <1>4, OneStores DEF Statuses
<1>6. t \in ids
    BY DEF IndexInv, Known, ResetWrites
<1>7. reset[t] # "full" => Bare(t)
    <2>1. reset[t] \in {"none", "full", "bare"}
        BY DEF IndexInv, CallerTypes
    <2> QED BY <2>1 DEF IndexInv, OwnQueue, ResetWrites
<1>8. \/ Queue(t, reset[t] = "full") = QueueOf[t]
      \/ Queue(t, reset[t] = "full") = Default /\ Bare(t)
    BY <1>7 DEF Queue
<1>9. ids' = ids /\ now' = now /\ Moves(t, Queue(t, reset[t] = "full"), "READY", now)
    BY DEF ResetWrites
<1> QED BY <1>4, <1>5, <1>6, <1>8, <1>9, OwnScopes, DefaultScope DEF Writes, SameFields

Same == UNCHANGED <<hash, index, ids, now>>

(* Every step leaves the store alone, writes one status, deletes one task, *)
(* indexes what a rebuild has read, prunes a set, or lets time pass.       *)
LEMMA StepShapes ==
    ASSUME IndexInv, [Next]_vars
    PROVE  /\ setup' = setup
           /\ \/ Same
              \/ Writing
              \/ \E t \in Tasks : DeleteWrites(t)
              \/ \E w \in rebuild.read : RebuildIndexes(w)
              \/ \E q \in Scopes : ReadIndex(q)
              \/ Tick
<1> USE DEF jobs, store
<1>0. now \in Nat /\ setup.delays \subseteq Nat
    BY SetupTypes DEF IndexInv, StoreTypes
<1>1. ASSUME NEW t \in Tasks, NEW due \in Nat \cup {Never}, Enqueue(t, due)
      PROVE  Writing /\ setup' = setup
    <2>1. Writes(t, QueueOf[t], Later(now, due)) /\ Later(now, due) \in Nat
        BY <1>1, EnqueueShape
    <2> QED BY <1>1, <2>1, OwnScopes DEF Writing, Enqueue
<1>2. ASSUME NEW t \in Tasks, Claim(t) PROVE Writing /\ setup' = setup
    <2>1. Writes(t, QueueOf[t], now)
        BY <1>2, ClaimShape
    <2> QED BY <1>0, <1>2, <2>1, OwnScopes DEF Writing, Claim
<1>3. ASSUME NEW t \in Tasks, HandBack(t) PROVE Writing /\ setup' = setup
    <2>1. Writes(t, QueueOf[t], now)
        BY <1>3, TransitionShape DEF HandBack, Statuses
    <2> QED BY <1>0, <1>3, <2>1, OwnScopes DEF Writing, HandBack
<1>4. ASSUME NEW t \in Tasks, GiveUp(t) PROVE Writing /\ setup' = setup
    <2>1. Writes(t, QueueOf[t], now)
        BY <1>4, TransitionShape DEF GiveUp, Statuses, Finished
    <2> QED BY <1>0, <1>4, <2>1, OwnScopes DEF Writing, GiveUp
<1>5. ASSUME NEW t \in Tasks, GiveUpReads(t) PROVE Same /\ setup' = setup
    BY <1>5 DEF GiveUpReads, Same
<1>6. ASSUME NEW t \in Tasks, GiveUpRecords(t) PROVE Writing /\ setup' = setup
    <2>1. /\ Writes(t, Queue(t, giveup[t] = "full"), now)
          /\ Queue(t, giveup[t] = "full") \in Scopes
        BY <1>6, GiveUpRecordsShape
    <2> QED BY <1>0, <1>6, <2>1 DEF Writing, GiveUpRecords
<1>7. ASSUME NEW t \in Tasks, ResetReads(t) PROVE Same /\ setup' = setup
    BY <1>7 DEF ResetReads, Same
<1>8. ASSUME NEW t \in Tasks, ResetWrites(t) PROVE Writing /\ setup' = setup
    <2>1. /\ Writes(t, Queue(t, reset[t] = "full"), now)
          /\ Queue(t, reset[t] = "full") \in Scopes
        BY <1>8, ResetShape
    <2> QED BY <1>0, <1>8, <2>1 DEF Writing, ResetWrites
<1>9. ASSUME NEW t \in Tasks, OperatorDeletes(t) \/ PurgeReads(t) \/ PurgeDeletes(t)
                                \/ RebuildReads(t)
      PROVE  Same /\ setup' = setup
    BY <1>9 DEF OperatorDeletes, DeleteReads, PurgeReads, PurgeDeletes, RebuildReads, Same
<1>10. ASSUME NEW r \in Run, Succeed(r) PROVE Writing /\ setup' = setup
    <2>1. Writes(run[r].task, QueueOf[run[r].task], now) /\ run[r].task \in Tasks
        BY <1>10, SucceedShape
    <2> QED BY <1>0, <1>10, <2>1, OwnScopes DEF Writing, Succeed
<1>11. ASSUME NEW r \in Run, ReadBack(r) PROVE (Same \/ Writing) /\ setup' = setup
    <2>1. CASE Full(run[r].task)
        BY <1>11, <2>1 DEF ReadBack, Same
    <2>2. CASE ~Full(run[r].task)
        <3>1. Writes(run[r].task, Default, now) /\ run[r].task \in Tasks
            BY <1>11, <2>2, ReadBackShape
        <3> QED BY <1>0, <1>11, <3>1, DefaultScope DEF Writing, ReadBack
    <2> QED BY <2>1, <2>2
<1>12. ASSUME NEW r \in Run, Fail(r) PROVE Writing /\ setup' = setup
    <2>1. Writes(run[r].task, QueueOf[run[r].task], now) /\ run[r].task \in Tasks
        BY <1>12, FailShape
    <2> QED BY <1>0, <1>12, <2>1, OwnScopes DEF Writing, Fail
<1>13. ASSUME NEW r \in Run, Die(r) PROVE Same /\ setup' = setup
    BY <1>13 DEF Die, Same
<1>14. ASSUME \/ AskIndex \/ MarkBuilt \/ PurgeBegins \/ PurgeEnds
              \/ RebuildBegins \/ RebuildEnds
       PROVE  Same /\ setup' = setup
    BY <1>14 DEF AskIndex, MarkBuilt, PurgeBegins, PurgeEnds, RebuildBegins, RebuildEnds, Same
<1>15. ASSUME NEW t \in Tasks, DeleteWrites(t) PROVE setup' = setup
    BY <1>15 DEF DeleteWrites
<1>16. ASSUME NEW w \in rebuild.read, RebuildIndexes(w) PROVE setup' = setup
    BY <1>16 DEF RebuildIndexes
<1>17. ASSUME NEW q \in Scopes, ReadIndex(q) PROVE setup' = setup
    BY <1>17 DEF ReadIndex
<1>18. Tick => setup' = setup
    BY DEF Tick
<1>19. UNCHANGED vars => Same /\ setup' = setup
    BY DEF vars, Same
<1>20. ASSUME NEW t \in Tasks, Enqueue(t, Never) PROVE Writing /\ setup' = setup
    <2>1. Never \in Nat \cup {Never}
        OBVIOUS
    <2> QED BY <1>1, <1>20, <2>1
<1>21. ASSUME NEW t \in Tasks, NEW d \in setup.delays, Enqueue(t, now + d)
       PROVE  Writing /\ setup' = setup
    <2>1. now + d \in Nat \cup {Never}
        BY <1>0
    <2> QED BY <1>1, <1>21, <2>1
<1> HIDE DEF jobs, store
<1> QED BY <1>2, <1>3, <1>4, <1>5, <1>6, <1>7, <1>8, <1>9, <1>10, <1>11, <1>12, <1>13,
           <1>14, <1>15, <1>16, <1>17, <1>18, <1>19, <1>20, <1>21 DEF Next

-----------------------------------------------------------------------------
(* The store                                                               *)

LEMMA MovesIndex ==
    ASSUME StoreTypes, NEW idx, idx \subseteq Entry, NEW scopes, scopes \subseteq Scopes,
           NEW t \in Tasks, NEW status \in Statuses, NEW score \in Nat, NEW cutoff
    PROVE  Indexed(idx, scopes, t, status, score, cutoff) \subseteq Entry
BY DEF Indexed, Entry

LEMMA StoreTypesStep ==
    ASSUME IndexInv, [Next]_vars
    PROVE  StoreTypes'
<1>0. /\ setup \in Setups /\ now \in Nat /\ now <= MaxTime /\ MaxTime \in Nat
      /\ hash \in [Tasks -> Hash] /\ \A t \in Tasks : Sound(hash[t], now)
      /\ index \subseteq Entry /\ StoreTypes /\ PassTypes
    BY SetupTypes DEF IndexInv, StoreTypes
<1>1. setup' = setup
    BY StepShapes
<1>2. CASE Same
    BY <1>0, <1>1, <1>2 DEF StoreTypes, Same, Sound, MaxTime
<1>3. ASSUME NEW t \in Tasks, NEW q \in Scopes, NEW score \in Nat, Writes(t, q, score)
      PROVE  StoreTypes'
    <2>1. /\ hash' \in [Tasks -> Hash] /\ \A u \in Tasks \ {t} : hash'[u] = hash[u]
          /\ hash'[t].status \in Statuses /\ Sound(hash'[t], now) /\ now' = now
          /\ Moves(t, q, hash'[t].status, score)
        BY <1>3 DEF Writes, Stores
    <2>2. \A u \in Tasks : Sound(hash'[u], now')
        BY <1>0, <2>1
    <2>3. index' \subseteq Entry
        BY <1>0, <2>1, MovesIndex, DefaultScope DEF Moves
    <2> QED BY <1>0, <1>1, <2>1, <2>2, <2>3 DEF StoreTypes, MaxTime
<1>4. ASSUME NEW t \in Tasks, DeleteWrites(t) PROVE StoreTypes'
    <2>1. /\ hash' = [hash EXCEPT ![t] = NoHash] /\ now' = now
          /\ index' \subseteq index
        BY <1>4 DEF DeleteWrites
    <2>2. \A u \in Tasks : Sound(hash'[u], now')
        BY <1>0, <2>1, NoHashSound
    <2>3. hash' \in [Tasks -> Hash]
        BY <1>0, <2>1, NoHashSound DEF Sound
    <2> QED BY <1>0, <1>1, <2>1, <2>2, <2>3 DEF StoreTypes, MaxTime
<1>5. ASSUME NEW w \in rebuild.read, RebuildIndexes(w) PROVE StoreTypes'
    <2>1. /\ w \in Reading
        BY <1>0 DEF PassTypes
    <2>2. w.task \in Tasks /\ w.status \in Statuses /\ w.since \in Nat
        BY <2>1 DEF Reading
    <2>3. {Backend, Queue(w.task, w.full)} \subseteq Scopes
        BY <2>2, OwnScopes, DefaultScope DEF Queue
    <2>4. Indexed(index, {Backend, Queue(w.task, w.full)}, w.task, w.status, w.since,
                  Cutoff(w.status, rebuild.start)) \subseteq Entry
        BY <1>0, <2>2, <2>3, MovesIndex
    <2>5. index' \subseteq Entry
        BY <1>0, <1>5, <2>4 DEF RebuildIndexes
    <2>6. now' = now /\ hash' = hash
        BY <1>5 DEF RebuildIndexes
    <2> QED BY <1>0, <1>1, <2>5, <2>6 DEF StoreTypes, MaxTime
<1>6. ASSUME NEW q \in Scopes, ReadIndex(q) PROVE StoreTypes'
    <2>1. now' = now /\ hash' = hash /\ index' \subseteq index
        BY <1>6 DEF ReadIndex
    <2> QED BY <1>0, <1>1, <2>1 DEF StoreTypes, MaxTime
<1>7. CASE Tick
    <2>1. /\ now' = now + 1 /\ now < MaxTime /\ index' = index
          /\ hash' = [t \in Tasks |-> IF Expired(t) THEN NoHash ELSE hash[t]]
        BY <1>7 DEF Tick
    <2>2. ASSUME NEW t \in Tasks PROVE Sound(hash'[t], now')
        <3>1. CASE Expired(t)
            BY <1>0, <2>1, <3>1, NoHashSound
        <3>2. CASE ~Expired(t)
            <4>1. hash'[t] = hash[t] /\ Sound(hash[t], now)
                BY <1>0, <2>1, <3>2
            <4>2. hash[t].expires = Never \/ hash[t].expires > now'
                BY <1>0, <2>1, <3>2, <4>1 DEF Expired, Sound, Hash
            <4> QED BY <4>1, <4>2 DEF Sound
        <3> QED BY <3>1, <3>2
    <2>3. hash' \in [Tasks -> Hash]
        BY <2>1, <2>2 DEF Sound
    <2>4. now' \in 0 .. MaxTime
        BY <1>0, <2>1
    <2> QED BY <1>0, <1>1, <2>1, <2>2, <2>3, <2>4 DEF StoreTypes, MaxTime
<1> QED BY <1>2, <1>3, <1>4, <1>5, <1>6, <1>7, StepShapes DEF Writing

-----------------------------------------------------------------------------
(* The index                                                               *)

(* After a task is indexed, an entry is one there was, of another task or  *)
(* in another scope, or the one of the task in a scope it was indexed in.  *)
LEMMA IndexedEntries ==
    ASSUME NEW idx, NEW scopes, NEW t, NEW status, NEW score, NEW cutoff,
           NEW e \in Indexed(idx, scopes, t, status, score, cutoff)
    PROVE  \/ e \in idx /\ (e.task # t \/ e.scope \notin scopes)
           \/ /\ e.scope \in scopes
              /\ e = [scope |-> e.scope, status |-> status, task |-> t, score |-> score]
<1>1. CASE e \in idx /\ (e.scope \notin scopes \/ Stays(e, t, status))
    BY <1>1 DEF Stays
<1>2. CASE e \in {[scope |-> q, status |-> status, task |-> t, score |-> score] : q \in scopes}
    <2>1. PICK q \in scopes :
              e = [scope |-> q, status |-> status, task |-> t, score |-> score]
        BY <1>2
    <2> QED BY <2>1
<1> QED BY <1>1, <1>2 DEF Indexed

LEMMA BareStays ==
    ASSUME IndexInv, [Next]_vars
    PROVE  /\ ids \subseteq ids' /\ ids' \subseteq Tasks
           /\ \A t \in Tasks : Bare(t) => Bare(t)'
<1>0. hash \in [Tasks -> Hash] /\ ids \subseteq Tasks
    BY DEF IndexInv, StoreTypes, Known
<1>1. CASE Same
    BY <1>0, <1>1 DEF Same, Bare, Full
<1>2. ASSUME NEW t \in Tasks, NEW q \in Scopes, NEW score \in Nat, Writes(t, q, score)
      PROVE  /\ ids \subseteq ids' /\ ids' \subseteq Tasks
             /\ \A u \in Tasks : Bare(u) => Bare(u)'
    BY <1>0, <1>2 DEF Writes, Stores, Bare, Full
<1>3. ASSUME NEW t \in Tasks, DeleteWrites(t)
      PROVE  /\ ids' = ids /\ \A u \in Tasks : Bare(u) => Bare(u)'
    <2>1. ids' = ids /\ hash' = [hash EXCEPT ![t] = NoHash]
        BY <1>3 DEF DeleteWrites
    <2>2. \A u \in Tasks : hash'[u] = hash[u] \/ hash'[u] = NoHash
        BY <1>0, <2>1
    <2> QED BY <2>1, <2>2 DEF Bare, Full, NoHash
<1>4. ASSUME NEW w \in rebuild.read, RebuildIndexes(w)
      PROVE  /\ ids' = ids /\ \A u \in Tasks : Bare(u) => Bare(u)'
    BY <1>4 DEF RebuildIndexes, Bare, Full
<1>5. ASSUME NEW q \in Scopes, ReadIndex(q)
      PROVE  /\ ids' = ids /\ \A u \in Tasks : Bare(u) => Bare(u)'
    BY <1>5 DEF ReadIndex, Bare, Full
<1>6. CASE Tick
    <2>1. ids' = ids /\ \A u \in Tasks : hash'[u] = hash[u] \/ hash'[u] = NoHash
        BY <1>6 DEF Tick
    <2>2. \A u \in Tasks : Bare(u) => Bare(u)'
        BY <2>1 DEF Bare, Full, NoHash
    <2> QED BY <1>0, <2>1, <2>2
<1> QED BY <1>0, <1>1, <1>2, <1>3, <1>4, <1>5, <1>6, StepShapes DEF Writing

(* What the invariant says of the store and the index alone.               *)
IndexKnown ==
    /\ \A t \in Tasks : Stored(t) => t \in ids
    /\ \A e \in index : e.task \in ids
    /\ \A e \in index : e.scope \in {Backend, QueueOf[e.task]} \/ Bare(e.task)

LEMMA FewerEntries ==
    ASSUME IndexInv, [Next]_vars, index' \subseteq index,
           \A t \in Tasks : hash'[t] = hash[t] \/ hash'[t] = NoHash
    PROVE  IndexKnown' /\ IndexAgrees'
<1>1. /\ \A t \in Tasks : Stored(t) => t \in ids
      /\ \A e \in index : e \in Entry /\ e.task \in ids
      /\ \A e \in index : e.scope \in {Backend, QueueOf[e.task]} \/ Bare(e.task)
    BY DEF IndexInv, Known, OwnQueue, StoreTypes
<1>2. ids \subseteq ids' /\ \A t \in Tasks : Bare(t) => Bare(t)'
    BY BareStays
<1>3. \A t \in Tasks : Stored(t)' => Stored(t) /\ hash'[t] = hash[t]
    BY NoHashSound, SetupTypes DEF Stored, NoHash
<1>4. \A e \in index : e.task \in Tasks
    BY <1>1 DEF Entry
<1>5. IndexKnown'
    BY <1>1, <1>2, <1>3, <1>4 DEF IndexKnown
<1>6. OneStatusPerScope'
    BY DEF IndexInv, IndexAgrees, OneStatusPerScope
<1>7. ASSUME NEW e \in index', Stored(e.task)', e.scope = Backend \/ Full(e.task)'
      PROVE  e.status = hash'[e.task].status
    <2>1. e \in index /\ e.task \in Tasks
        BY <1>4
    <2>2. Stored(e.task) /\ hash'[e.task] = hash[e.task]
        BY <1>3, <1>7, <2>1
    <2>3. e.scope = Backend \/ Full(e.task)
        BY <1>7, <2>2 DEF Full
    <2> QED BY <2>1, <2>2, <2>3 DEF IndexInv, IndexAgrees
<1> QED BY <1>5, <1>6, <1>7 DEF IndexAgrees

(* A task is indexed in the backend-wide sets and in those of its queue.   *)
LEMMA OneMoved ==
    ASSUME IndexInv, [Next]_vars,
           NEW t \in ids', NEW q \in Scopes, NEW status \in Statuses, NEW score, NEW cutoff,
           q = QueueOf[t] \/ Bare(t)',
           index' = Indexed(index, {Backend, q}, t, status, score, cutoff),
           hash'[t].status = status, t \in ids /\ Full(t)' => Full(t),
           \A u \in Tasks \ {t} : hash'[u] = hash[u]
    PROVE  IndexKnown' /\ IndexAgrees'
<1>1. /\ \A u \in Tasks : Stored(u) => u \in ids
      /\ \A e \in index : e \in Entry /\ e.task \in ids
      /\ \A e \in index : e.scope \in {Backend, QueueOf[e.task]} \/ Bare(e.task)
    BY DEF IndexInv, Known, OwnQueue, StoreTypes
<1>2. ids \subseteq ids' /\ ids' \subseteq Tasks /\ \A u \in Tasks : Bare(u) => Bare(u)'
    BY BareStays
<1>3. ASSUME NEW e \in index'
      PROVE  \/ e \in index /\ (e.task # t \/ e.scope \notin {Backend, q})
             \/ /\ e.scope \in {Backend, q} /\ e.task = t /\ e.status = status
                /\ e = [scope |-> e.scope, status |-> status, task |-> t, score |-> score]
    BY <1>3, IndexedEntries
<1>4. \A e \in index' : e.task \in ids' /\ e.task \in Tasks
    BY <1>1, <1>2, <1>3
<1>5. IndexKnown'
    <2>1. \A u \in Tasks : Stored(u)' => u \in ids'
        BY <1>1, <1>2 DEF Stored
    <2>2. ASSUME NEW e \in index'
          PROVE  e.scope \in {Backend, QueueOf[e.task]} \/ Bare(e.task)'
        BY <1>1, <1>2, <1>3, <1>4
    <2> QED BY <1>4, <2>1, <2>2 DEF IndexKnown
<1>6. OneStatusPerScope'
    <2> SUFFICES ASSUME NEW e \in index', NEW f \in index', e.scope = f.scope,
                        e.task = f.task
                 PROVE  e = f
        BY DEF OneStatusPerScope
    <2>1. CASE e.task = t /\ e.scope \in {Backend, q}
        BY <1>3, <2>1
    <2>2. CASE ~(e.task = t /\ e.scope \in {Backend, q})
        <3>1. e \in index /\ f \in index
            BY <1>3, <2>2
        <3> QED BY <3>1 DEF IndexInv, IndexAgrees, OneStatusPerScope
    <2> QED BY <2>1, <2>2
<1>7. ASSUME NEW e \in index', Stored(e.task)', e.scope = Backend \/ Full(e.task)'
      PROVE  e.status = hash'[e.task].status
    <2>1. CASE e.task # t
        <3>1. e \in index /\ hash'[e.task] = hash[e.task]
            BY <1>3, <1>4, <2>1
        <3> QED BY <1>7, <3>1 DEF IndexInv, IndexAgrees, Stored, Full
    <2>2. CASE e.task = t /\ e.scope \in {Backend, q}
        BY <1>3, <2>2
    <2>3. CASE e.task = t /\ e.scope \notin {Backend, q}
        <3>1. e \in index /\ t \in ids /\ e.scope # Backend
            BY <1>1, <1>3, <2>3
        <3>2. Full(t)'
            BY <1>7, <2>3, <3>1
        <3>3. q = QueueOf[t] /\ Full(t)
            BY <3>1, <3>2 DEF Bare
        <3>4. e.scope # QueueOf[t] /\ ~Bare(t)
            BY <2>3, <3>3 DEF Bare
        <3> QED BY <1>1, <2>3, <3>1, <3>4
    <2> QED BY <2>1, <2>2, <2>3
<1> QED BY <1>5, <1>6, <1>7 DEF IndexAgrees

LEMMA IndexStep ==
    ASSUME IndexInv, [Next]_vars
    PROVE  IndexKnown' /\ IndexAgrees'
<1>0. hash \in [Tasks -> Hash] /\ PassTypes
    BY DEF IndexInv, StoreTypes
<1>1. CASE Same
    BY <1>1, FewerEntries DEF Same
<1>2. ASSUME NEW t \in Tasks, NEW q \in Scopes, NEW score \in Nat, Writes(t, q, score)
      PROVE  IndexKnown' /\ IndexAgrees'
    <2>1. /\ hash'[t].status \in Statuses /\ \A u \in Tasks \ {t} : hash'[u] = hash[u]
          /\ index' = Indexed(index, {Backend, q}, t, hash'[t].status, score,
                              Cutoff(hash'[t].status, now))
        BY <1>2 DEF Writes, Stores, Moves
    <2>2. t \in ids' /\ (t \in ids /\ Full(t)' => Full(t))
        BY <1>2 DEF Writes, Full
    <2>3. q = QueueOf[t] \/ Bare(t)'
        BY <1>2, BareStays DEF Writes
    <2> QED BY <2>1, <2>2, <2>3, OneMoved
<1>3. ASSUME NEW t \in Tasks, DeleteWrites(t) PROVE IndexKnown' /\ IndexAgrees'
    <2>1. hash' = [hash EXCEPT ![t] = NoHash] /\ index' \subseteq index
        BY <1>3 DEF DeleteWrites
    <2>2. \A u \in Tasks : hash'[u] = hash[u] \/ hash'[u] = NoHash
        BY <1>0, <2>1
    <2> QED BY <2>1, <2>2, FewerEntries
<1>4. ASSUME NEW w \in rebuild.read, RebuildIndexes(w) PROVE IndexKnown' /\ IndexAgrees'
    <2> DEFINE scopes == {Backend, Queue(w.task, w.full)}
    <2>1. hash' = hash /\ ids' = ids
        BY <1>4 DEF RebuildIndexes
    <2>2. w.task \in Tasks /\ w.status \in Statuses
        BY <1>0 DEF PassTypes, Reading
    <2>3. CASE index' \subseteq index
        BY <2>1, <2>3, FewerEntries
    <2>4. CASE /\ StillThere(w)
               /\ index' = Indexed(index, scopes, w.task, w.status, w.since,
                                   Cutoff(w.status, rebuild.start))
        <3>1. w.task \in ids' /\ hash'[w.task].status = w.status
            BY <2>1, <2>4 DEF IndexInv, Known, StillThere
        <3>2. Queue(w.task, w.full) = QueueOf[w.task] \/ Bare(w.task)'
            BY <2>2, BareStays DEF IndexInv, OwnQueue, Queue
        <3>3. Queue(w.task, w.full) \in Scopes
            BY <2>2, OwnScopes, DefaultScope DEF Queue
        <3>4. Full(w.task)' => Full(w.task)
            BY <2>1 DEF Full
        <3> QED BY <2>1, <2>2, <2>4, <3>1, <3>2, <3>3, <3>4, OneMoved
    <2> QED BY <1>4, <2>3, <2>4 DEF RebuildIndexes
<1>5. ASSUME NEW q \in Scopes, ReadIndex(q) PROVE IndexKnown' /\ IndexAgrees'
    <2>1. hash' = hash /\ index' \subseteq index
        BY <1>5 DEF ReadIndex
    <2> QED BY <2>1, FewerEntries
<1>6. CASE Tick
    <2>1. /\ \A u \in Tasks : hash'[u] = hash[u] \/ hash'[u] = NoHash
          /\ index' = index
        BY <1>6 DEF Tick
    <2> QED BY <2>1, FewerEntries
<1> QED BY <1>1, <1>2, <1>3, <1>4, <1>5, <1>6, StepShapes DEF Writing

-----------------------------------------------------------------------------
(* The callers                                                             *)

LEMMA SpendTypes ==
    ASSUME CallerTypes, setup \in Setups, NEW kind \in Kinds,
           spent[kind] < Budget[kind], spent' = [spent EXCEPT ![kind] = @ + 1],
           setup' = setup
    PROVE  spent' \in [Kinds -> Nat] /\ \A k \in Kinds : spent'[k] <= Budget'[k]
<1>1. spent \in [Kinds -> Nat] /\ Budget \in [Kinds -> Nat] /\ Budget' = Budget
    BY SetupTypes DEF CallerTypes, Budget
<1>2. \A k \in Kinds : spent[k] <= Budget[k]
    BY DEF CallerTypes
<1> QED BY <1>1, <1>2

LEMMA CallerTypesStep ==
    ASSUME IndexInv, [Next]_vars
    PROVE  CallerTypes'
<1> USE DEF jobs, store
<1>0. /\ CallerTypes /\ setup \in Setups /\ setup' = setup /\ Budget' = Budget
      /\ \A k \in Kinds : spent[k] <= Budget[k]
      /\ Kinds = {"retry", "handback", "giveup", "reset", "delete", "purge", "rebuild"}
    BY StepShapes DEF IndexInv, StoreTypes, CallerTypes, Budget, Kinds
<1>1. ASSUME NEW t \in Tasks, NEW due, Enqueue(t, due) PROVE CallerTypes'
    BY <1>0, <1>1 DEF Enqueue, CallerTypes
<1>2. ASSUME NEW t \in Tasks, Claim(t) PROVE CallerTypes'
    <2>1. spent' \in [Kinds -> Nat] /\ \A k \in Kinds : spent'[k] <= Budget'[k]
        <3>1. CASE hash[t].status = "FAILED"
            BY <1>0, <1>2, <3>1, SpendTypes DEF Claim
        <3>2. CASE hash[t].status # "FAILED"
            BY <1>0, <1>2, <3>2 DEF Claim, CallerTypes
        <3> QED BY <3>1, <3>2
    <2>2. run' \in [Run -> [task : Tasks, at : {"none", "runs", "reports"}]
                           \cup {[at |-> "none"]}]
        BY <1>0, <1>2 DEF Claim, CallerTypes
    <2> QED BY <1>0, <1>2, <2>1, <2>2 DEF Claim, CallerTypes
<1>3. ASSUME NEW r \in Run, NEW at \in {"none", "runs", "reports"}, run[r].at # "none",
             run' = [run EXCEPT ![r].at = at],
             UNCHANGED <<built, asked, giveup, reset, delete, spent>>
      PROVE  CallerTypes'
    <2>1. run[r] \in [task : Tasks, at : {"none", "runs", "reports"}]
        BY <1>0, <1>3 DEF CallerTypes
    <2>2. [run[r] EXCEPT !.at = at] \in [task : Tasks, at : {"none", "runs", "reports"}]
        BY <2>1
    <2>3. run' \in [Run -> [task : Tasks, at : {"none", "runs", "reports"}]
                           \cup {[at |-> "none"]}]
        BY <1>0, <1>3, <2>2 DEF CallerTypes
    <2> QED BY <1>0, <1>3, <2>3 DEF CallerTypes
<1>4. ASSUME NEW r \in Run, Succeed(r) PROVE CallerTypes'
    BY <1>3, <1>4 DEF Succeed
<1>5. ASSUME NEW r \in Run, ReadBack(r) \/ Fail(r) \/ Die(r) PROVE CallerTypes'
    BY <1>3, <1>5 DEF ReadBack, Fail, Die
<1>6. ASSUME NEW t \in Tasks, HandBack(t) PROVE CallerTypes'
    <2>1. spent' \in [Kinds -> Nat] /\ \A k \in Kinds : spent'[k] <= Budget'[k]
        BY <1>0, <1>6, SpendTypes DEF HandBack, Spend
    <2> QED BY <1>0, <1>6, <2>1 DEF HandBack, CallerTypes
<1>7. ASSUME NEW t \in Tasks, GiveUp(t) PROVE CallerTypes'
    <2>1. spent' \in [Kinds -> Nat] /\ \A k \in Kinds : spent'[k] <= Budget'[k]
        BY <1>0, <1>7, SpendTypes DEF GiveUp, Spend
    <2> QED BY <1>0, <1>7, <2>1 DEF GiveUp, CallerTypes
<1>8. ASSUME NEW t \in Tasks, GiveUpReads(t) \/ GiveUpRecords(t) PROVE CallerTypes'
    BY <1>0, <1>8 DEF GiveUpReads, GiveUpRecords, CallerTypes
<1>9. ASSUME NEW t \in Tasks, ResetReads(t) PROVE CallerTypes'
    <2>1. spent' \in [Kinds -> Nat] /\ \A k \in Kinds : spent'[k] <= Budget'[k]
        BY <1>0, <1>9, SpendTypes DEF ResetReads, Spend
    <2> QED BY <1>0, <1>9, <2>1 DEF ResetReads, CallerTypes
<1>10. ASSUME NEW t \in Tasks, ResetWrites(t) PROVE CallerTypes'
    BY <1>0, <1>10 DEF ResetWrites, CallerTypes
<1>11. ASSUME NEW t \in Tasks, NEW by \in {"operator", "purge"}, DeleteReads(t, by)
       PROVE  /\ delete' \in [Tasks -> {"none", "operator", "purge"} \X BOOLEAN]
              /\ UNCHANGED <<built, asked, run, giveup, reset>>
    <2>1. hash[t].full \in BOOLEAN
        BY DEF IndexInv, StoreTypes, Hash
    <2> QED BY <1>0, <1>11, <2>1 DEF DeleteReads, CallerTypes, Full
<1>12. ASSUME NEW t \in Tasks, OperatorDeletes(t) PROVE CallerTypes'
    <2>1. spent' \in [Kinds -> Nat] /\ \A k \in Kinds : spent'[k] <= Budget'[k]
        BY <1>0, <1>12, SpendTypes DEF OperatorDeletes, Spend
    <2> QED BY <1>0, <1>11, <1>12, <2>1 DEF OperatorDeletes, CallerTypes
<1>13. ASSUME NEW t \in Tasks, PurgeDeletes(t) PROVE CallerTypes'
    BY <1>0, <1>11, <1>13 DEF PurgeDeletes, CallerTypes
<1>14. ASSUME NEW t \in Tasks, DeleteWrites(t) PROVE CallerTypes'
    BY <1>0, <1>14 DEF DeleteWrites, CallerTypes
<1>15. ASSUME NEW t \in Tasks, PurgeReads(t) \/ RebuildReads(t) PROVE CallerTypes'
    BY <1>0, <1>15 DEF PurgeReads, RebuildReads, CallerTypes
<1>16. ASSUME NEW w, RebuildIndexes(w) PROVE CallerTypes'
    BY <1>0, <1>16 DEF RebuildIndexes, CallerTypes
<1>17. ASSUME AskIndex \/ MarkBuilt \/ PurgeEnds \/ RebuildEnds \/ Tick PROVE CallerTypes'
    BY <1>0, <1>17 DEF AskIndex, MarkBuilt, PurgeEnds, RebuildEnds, Tick, CallerTypes
<1>18. ASSUME PurgeBegins PROVE CallerTypes'
    <2>1. spent' \in [Kinds -> Nat] /\ \A k \in Kinds : spent'[k] <= Budget'[k]
        BY <1>0, <1>18, SpendTypes DEF PurgeBegins, Spend
    <2> QED BY <1>0, <1>18, <2>1 DEF PurgeBegins, CallerTypes
<1>19. ASSUME RebuildBegins PROVE CallerTypes'
    <2>1. spent' \in [Kinds -> Nat] /\ \A k \in Kinds : spent'[k] <= Budget'[k]
        BY <1>0, <1>19, SpendTypes DEF RebuildBegins, Spend
    <2> QED BY <1>0, <1>19, <2>1 DEF RebuildBegins, CallerTypes
<1>20. ASSUME NEW q, ReadIndex(q) PROVE CallerTypes'
    BY <1>0, <1>20 DEF ReadIndex, CallerTypes
<1>21. CASE UNCHANGED vars
    BY <1>0, <1>21 DEF vars, CallerTypes
<1> HIDE DEF jobs, store
<1> QED BY <1>1, <1>2, <1>4, <1>5, <1>6, <1>7, <1>8, <1>9, <1>10, <1>12, <1>13, <1>14,
           <1>15, <1>16, <1>17, <1>18, <1>19, <1>20, <1>21 DEF Next

(* What the invariant says of the callers.                                 *)
CallersKnown ==
    /\ \A t \in Tasks : (giveup[t] # "none" \/ reset[t] # "none" \/ delete[t][1] # "none")
                            => t \in ids
    /\ \A r \in Run : run[r].at # "none" => run[r].task \in ids
    /\ \A t \in Tasks : giveup[t] = "bare" \/ reset[t] = "bare" => Bare(t)

LEMMA CallersKnownStep ==
    ASSUME IndexInv, [Next]_vars
    PROVE  CallersKnown'
<1> USE DEF jobs, store
<1>0. /\ CallerTypes /\ ids \subseteq ids'
      /\ \A t \in Tasks : Bare(t) => Bare(t)'
      /\ CallersKnown
      /\ \A t \in Tasks : Stored(t) => t \in ids
      /\ \A t \in Tasks : t \in ids /\ ~Full(t) => Bare(t)
      /\ \A t \in Tasks : Full(t) => Stored(t)
    <2>1. \A t \in Tasks : hash[t].status = "none" => hash[t] = NoHash
        BY DEF IndexInv, StoreTypes, Sound
    <2>2. \A t \in Tasks : Full(t) => Stored(t)
        BY <2>1, SetupTypes DEF Full, Stored, NoHash
    <2> QED BY <2>2, BareStays DEF IndexInv, Known, OwnQueue, CallersKnown, Bare
<1>1. ASSUME UNCHANGED <<run, giveup, reset, delete>> PROVE CallersKnown'
    BY <1>0, <1>1 DEF CallersKnown
<1>2. ASSUME NEW t \in Tasks, Claim(t) PROVE CallersKnown'
    <2>1. Stored(t)
        BY <1>2 DEF Claim, Stored
    <2>2. PICK r \in Run : run' = [run EXCEPT ![r] = [task |-> t, at |-> "runs"]]
        BY <1>2 DEF Claim
    <2>3. \A q \in Run : run'[q] = run[q] \/ (run'[q].task = t)
        BY <1>0, <2>2 DEF CallerTypes
    <2> QED BY <1>0, <1>2, <2>1, <2>3 DEF Claim, CallersKnown
<1>3. ASSUME NEW r \in Run, NEW at, run[r].at # "none", run' = [run EXCEPT ![r].at = at],
             UNCHANGED <<giveup, reset, delete>>
      PROVE  CallersKnown'
    <2>1. run[r] \in [task : Tasks, at : {"none", "runs", "reports"}]
        BY <1>0, <1>3 DEF CallerTypes
    <2>2. \A q \in Run : run'[q] = run[q] \/ (q = r /\ run'[q].task = run[r].task)
        BY <1>0, <1>3, <2>1 DEF CallerTypes
    <2> QED BY <1>0, <1>3, <2>2 DEF CallersKnown
<1>4. ASSUME NEW r \in Run, Succeed(r) \/ ReadBack(r) \/ Fail(r) \/ Die(r)
      PROVE  CallersKnown'
    BY <1>3, <1>4 DEF Succeed, ReadBack, Fail, Die
<1>5. ASSUME NEW t \in Tasks, HandBack(t) PROVE CallersKnown'
    BY <1>1, <1>5 DEF HandBack
<1>6. ASSUME NEW t \in Tasks, GiveUp(t) PROVE CallersKnown'
    <2>1. giveup' = [giveup EXCEPT ![t] = "marked"] /\ Stored(t)
        BY <1>6 DEF GiveUp, Transition, Stored
    <2> QED BY <1>0, <1>6, <2>1 DEF GiveUp, CallersKnown, CallerTypes
<1>7. ASSUME NEW t \in Tasks, GiveUpReads(t) PROVE CallersKnown'
    <2>1. t \in ids
        BY <1>0, <1>7 DEF GiveUpReads, CallersKnown
    <2> QED BY <1>0, <1>7, <2>1 DEF GiveUpReads, CallersKnown, CallerTypes
<1>8. ASSUME NEW t \in Tasks, GiveUpRecords(t) PROVE CallersKnown'
    BY <1>0, <1>8 DEF GiveUpRecords, CallersKnown, CallerTypes
<1>9. ASSUME NEW t \in Tasks, ResetReads(t) PROVE CallersKnown'
    BY <1>0, <1>9 DEF ResetReads, CallersKnown, CallerTypes
<1>10. ASSUME NEW t \in Tasks, ResetWrites(t) PROVE CallersKnown'
    BY <1>0, <1>10 DEF ResetWrites, CallersKnown, CallerTypes
<1>11. ASSUME NEW t \in ids, NEW by, DeleteReads(t, by) PROVE CallersKnown'
    <2>1. delete' = [delete EXCEPT ![t] = <<by, Full(t)>>]
        BY <1>11 DEF DeleteReads
    <2>2. \A u \in Tasks : delete'[u] = delete[u] \/ u = t
        BY <1>0, <2>1 DEF CallerTypes
    <2> QED BY <1>0, <1>11, <2>2 DEF DeleteReads, CallersKnown
<1>12. ASSUME NEW t \in Tasks, OperatorDeletes(t) PROVE CallersKnown'
    BY <1>11, <1>12 DEF OperatorDeletes
<1>13. ASSUME NEW t \in Tasks, PurgeDeletes(t) PROVE CallersKnown'
    <2>1. t \in ids
        BY <1>13 DEF PurgeDeletes, IndexInv, Known
    <2> QED BY <1>11, <1>13, <2>1 DEF PurgeDeletes
<1>14. ASSUME NEW t \in Tasks, DeleteWrites(t) PROVE CallersKnown'
    <2>1. delete' = [delete EXCEPT ![t] = <<"none", FALSE>>]
        BY <1>14 DEF DeleteWrites
    <2>2. \A u \in Tasks : delete'[u] = delete[u] \/ delete'[u][1] = "none"
        BY <1>0, <2>1 DEF CallerTypes
    <2> QED BY <1>0, <1>14, <2>2 DEF DeleteWrites, CallersKnown
<1>15. ASSUME NEW t \in Tasks, NEW due,
              Enqueue(t, due) \/ PurgeReads(t) \/ RebuildReads(t)
       PROVE  CallersKnown'
    BY <1>1, <1>15 DEF Enqueue, PurgeReads, RebuildReads
<1>16. ASSUME NEW w, RebuildIndexes(w) PROVE CallersKnown'
    BY <1>1, <1>16 DEF RebuildIndexes
<1>17. ASSUME \/ AskIndex \/ MarkBuilt \/ PurgeBegins \/ PurgeEnds
              \/ RebuildBegins \/ RebuildEnds \/ Tick
       PROVE  CallersKnown'
    BY <1>1, <1>17 DEF AskIndex, MarkBuilt, PurgeBegins, PurgeEnds, RebuildBegins,
                       RebuildEnds, Tick
<1>18. ASSUME NEW q, ReadIndex(q) PROVE CallersKnown'
    BY <1>1, <1>18 DEF ReadIndex
<1>19. CASE UNCHANGED vars
    BY <1>1, <1>19 DEF vars
<1> HIDE DEF jobs, store
<1> QED BY <1>2, <1>4, <1>5, <1>6, <1>7, <1>8, <1>9, <1>10, <1>12, <1>13, <1>14,
           <1>15, <1>16, <1>17, <1>18, <1>19 DEF Next

-----------------------------------------------------------------------------
(* The passes over the results                                             *)

(* What the invariant says of the results and of who walks them.           *)
PassesKnown ==
    /\ results \subseteq ids
    /\ purge.todo \subseteq ids /\ purge.read \subseteq ids /\ rebuild.todo \subseteq ids
    /\ \A w \in rebuild.read : w.task \in ids
    /\ \A w \in rebuild.read : ~w.full => Bare(w.task)

(* A hash that is read has a time to be indexed at.                        *)
LEMMA StatusSinceTypes ==
    ASSUME NEW h \in Hash, NEW at \in Nat
    PROVE  StatusSince(h, at) \in Nat
<1>1. Since(h) \in Nat \cup {Never}
    BY DEF Since, Later, Hash
<1> QED BY <1>1 DEF StatusSince

LEMMA PassStep ==
    ASSUME IndexInv, [Next]_vars
    PROVE  PassTypes' /\ PassesKnown'
<1> USE DEF jobs, store
<1>0. /\ PassTypes /\ PassesKnown /\ ids \subseteq ids' /\ ids \subseteq Tasks
      /\ \A t \in Tasks : Bare(t) => Bare(t)'
      /\ now \in Nat /\ hash \in [Tasks -> Hash]
      /\ \A t \in Tasks : Stored(t) => t \in ids
    BY BareStays, SetupTypes DEF IndexInv, Known, OwnQueue, PassesKnown, StoreTypes
<1>1. ASSUME UNCHANGED <<purge, rebuild>>, results' \subseteq ids'
      PROVE  PassTypes' /\ PassesKnown'
    BY <1>0, <1>1 DEF PassTypes, PassesKnown
<1>2. ASSUME NEW t \in Tasks, NEW due, Enqueue(t, due) PROVE PassTypes' /\ PassesKnown'
    BY <1>0, <1>1, <1>2 DEF Enqueue, PassesKnown
<1>3. ASSUME NEW t \in Tasks,
             \/ Claim(t) \/ HandBack(t) \/ GiveUp(t) \/ GiveUpReads(t) \/ GiveUpRecords(t)
             \/ ResetReads(t) \/ ResetWrites(t) \/ OperatorDeletes(t) \/ DeleteWrites(t)
      PROVE  PassTypes' /\ PassesKnown'
    BY <1>0, <1>1, <1>3 DEF Claim, HandBack, GiveUp, GiveUpReads, GiveUpRecords, ResetReads,
       ResetWrites, OperatorDeletes, DeleteReads, DeleteWrites, PassesKnown
<1>4. ASSUME NEW r \in Run, Succeed(r) \/ ReadBack(r) \/ Fail(r) \/ Die(r)
      PROVE  PassTypes' /\ PassesKnown'
    BY <1>0, <1>1, <1>4 DEF Succeed, ReadBack, Fail, Die, PassesKnown
<1>5. ASSUME AskIndex \/ MarkBuilt \/ Tick \/ UNCHANGED vars
      PROVE  PassTypes' /\ PassesKnown'
    BY <1>0, <1>1, <1>5 DEF AskIndex, MarkBuilt, Tick, vars, PassesKnown
<1>6. ASSUME NEW q, ReadIndex(q) PROVE PassTypes' /\ PassesKnown'
    BY <1>0, <1>1, <1>6 DEF ReadIndex, PassesKnown
<1>7. CASE PurgeBegins \/ PurgeEnds
    <2>1. \/ purge' = [at |-> "walk", start |-> now, todo |-> results, read |-> {}]
          \/ purge' = Idle
        BY <1>7 DEF PurgeBegins, PurgeEnds
    <2>2. UNCHANGED <<results, rebuild>>
        BY <1>7 DEF PurgeBegins, PurgeEnds
    <2> QED BY <1>0, <2>1, <2>2 DEF PassTypes, PassesKnown, Idle
<1>8. CASE RebuildBegins \/ RebuildEnds
    <2>1. \/ rebuild' = [at |-> "walk", start |-> now, todo |-> results, read |-> {}]
          \/ rebuild' = Idle
        BY <1>8 DEF RebuildBegins, RebuildEnds
    <2>2. UNCHANGED <<results, purge>>
        BY <1>8 DEF RebuildBegins, RebuildEnds
    <2> QED BY <1>0, <2>1, <2>2 DEF PassTypes, PassesKnown, Idle
<1>9. ASSUME NEW t \in Tasks, PurgeReads(t) PROVE PassTypes' /\ PassesKnown'
    <2>1. /\ purge'.todo \subseteq purge.todo /\ purge'.read \subseteq purge.read \cup {t}
          /\ purge' \in [at : {"idle", "walk"}, start : Nat, todo : SUBSET Tasks,
                         read : SUBSET Tasks]
        BY <1>0, <1>9 DEF PurgeReads, PassTypes
    <2>2. t \in ids /\ results' \subseteq results /\ UNCHANGED <<rebuild>>
        BY <1>0, <1>9 DEF PurgeReads, PassesKnown
    <2> QED BY <1>0, <2>1, <2>2 DEF PassTypes, PassesKnown
<1>10. ASSUME NEW t \in Tasks, PurgeDeletes(t) PROVE PassTypes' /\ PassesKnown'
    <2>1. /\ purge'.todo = purge.todo /\ purge'.read \subseteq purge.read
          /\ purge' \in [at : {"idle", "walk"}, start : Nat, todo : SUBSET Tasks,
                         read : SUBSET Tasks]
        BY <1>0, <1>10 DEF PurgeDeletes, PassTypes
    <2>2. UNCHANGED <<results, rebuild>>
        BY <1>10 DEF PurgeDeletes, DeleteReads
    <2> QED BY <1>0, <2>1, <2>2 DEF PassTypes, PassesKnown
<1>11. ASSUME NEW t \in Tasks, RebuildReads(t) PROVE PassTypes' /\ PassesKnown'
    <2> DEFINE w == [task |-> t, status |-> hash[t].status, full |-> hash[t].full,
                     since |-> StatusSince(hash[t], rebuild.start)]
    <2>1. /\ rebuild'.todo \subseteq rebuild.todo
          /\ rebuild'.read = IF Stored(t) THEN rebuild.read \cup {w} ELSE rebuild.read
          /\ rebuild'.at = rebuild.at /\ rebuild'.start = rebuild.start
          /\ DOMAIN rebuild' = DOMAIN rebuild
          /\ rebuild' = [at |-> rebuild.at, start |-> rebuild.start,
                         todo |-> rebuild.todo \ {t}, read |-> rebuild'.read]
        BY <1>0, <1>11 DEF RebuildReads, PassTypes
    <2>2. hash[t] \in Hash /\ rebuild.start \in Nat
        BY <1>0 DEF PassTypes
    <2>3. Stored(t) => w \in Reading
        <3>1. StatusSince(hash[t], rebuild.start) \in Nat
            BY <2>2, StatusSinceTypes
        <3> QED BY <2>2, <3>1 DEF Reading, Stored, Hash
    <2>4. rebuild'.read \subseteq Reading /\ rebuild.todo \subseteq Tasks
        BY <1>0, <2>1, <2>3 DEF PassTypes
    <2>5. rebuild' \in [at : {"idle", "walk"}, start : Nat, todo : SUBSET Tasks,
                        read : SUBSET Reading]
        BY <1>0, <2>1, <2>4 DEF PassTypes
    <2>6. t \in ids /\ results' \subseteq results /\ UNCHANGED <<purge>>
        BY <1>0, <1>11 DEF RebuildReads, PassesKnown
    <2>7. ~w.full => Bare(t)'
        BY <1>0, <2>6 DEF Bare, Full
    <2>8. \A v \in rebuild'.read : v.task \in ids' /\ (~v.full => Bare(v.task)')
        <3>1. \A v \in rebuild.read : v.task \in Tasks /\ v.task \in ids
            BY <1>0 DEF PassTypes, Reading, PassesKnown
        <3>2. w.task = t
            OBVIOUS
        <3> HIDE DEF w
        <3> QED BY <1>0, <2>1, <2>6, <2>7, <3>1, <3>2 DEF PassesKnown
    <2>9. PassTypes'
        BY <1>0, <2>5, <2>6 DEF PassTypes
    <2> HIDE DEF w
    <2> QED BY <1>0, <2>1, <2>6, <2>8, <2>9 DEF PassesKnown
<1>12. ASSUME NEW w \in rebuild.read, RebuildIndexes(w) PROVE PassTypes' /\ PassesKnown'
    <2>1. /\ rebuild'.todo = rebuild.todo /\ rebuild'.read \subseteq rebuild.read
          /\ rebuild' \in [at : {"idle", "walk"}, start : Nat, todo : SUBSET Tasks,
                           read : SUBSET Reading]
        BY <1>0, <1>12 DEF RebuildIndexes, PassTypes
    <2>2. UNCHANGED <<results, purge>>
        BY <1>12 DEF RebuildIndexes
    <2>3. \A v \in rebuild.read : v.task \in Tasks
        BY <1>0 DEF PassTypes, Reading
    <2> QED BY <1>0, <2>1, <2>2, <2>3 DEF PassTypes, PassesKnown
<1> HIDE DEF jobs, store
<1> QED BY <1>2, <1>3, <1>4, <1>5, <1>6, <1>7, <1>8, <1>9, <1>10, <1>11, <1>12 DEF Next

-----------------------------------------------------------------------------
(* The invariant                                                           *)

LEMMA IndexInvStep == IndexInv /\ [Next]_vars => IndexInv'
<1> SUFFICES ASSUME IndexInv, [Next]_vars PROVE IndexInv'
    OBVIOUS
<1>1. StoreTypes' /\ CallerTypes' /\ PassTypes'
    BY StoreTypesStep, CallerTypesStep, PassStep
<1>2. IndexKnown' /\ CallersKnown' /\ PassesKnown' /\ IndexAgrees'
    BY IndexStep, CallersKnownStep, PassStep
<1>3. Known'
    BY <1>2, BareStays DEF IndexKnown, CallersKnown, PassesKnown, Known
<1>4. OwnQueue'
    BY <1>2 DEF IndexKnown, CallersKnown, PassesKnown, OwnQueue
<1> QED BY <1>1, <1>2, <1>3, <1>4 DEF IndexInv

LEMMA IndexHolds == Spec => []IndexInv
<1> QED BY IndexInit, IndexInvStep, PTL DEF Spec

(* Every field has its type; a hash that is stored has not expired.        *)
THEOREM TypesHold == Spec => []TypeOK
<1>1. IndexInv => TypeOK
    <2> SUFFICES ASSUME IndexInv PROVE TypeOK
        OBVIOUS
    <2>1. \A t \in Tasks : /\ hash[t].status \in Statuses \cup {"none"}
                           /\ hash[t].status = "none" => hash[t] = NoHash
                           /\ hash[t].expires = Never \/ hash[t].expires > now
        BY DEF IndexInv, StoreTypes, Sound, Hash
    <2>2. \A e \in index : /\ e.scope \in Scopes /\ e.status \in Statuses
                           /\ e.task \in Tasks /\ e.score \in Nat
        BY DEF IndexInv, StoreTypes, Entry
    <2>3. ids \subseteq Tasks /\ results \subseteq Tasks
        BY DEF IndexInv, Known
    <2>4. /\ purge.todo \subseteq Tasks /\ purge.read \subseteq Tasks
          /\ rebuild.todo \subseteq Tasks
        BY DEF IndexInv, PassTypes
    <2>5. \A k \in Kinds : spent[k] \in 0 .. Budget[k]
        <3>1. Budget \in [Kinds -> Nat]
            BY SetupTypes DEF IndexInv, StoreTypes
        <3>2. \A k \in Kinds : spent[k] \in Nat /\ spent[k] <= Budget[k]
            BY DEF IndexInv, CallerTypes
        <3> QED BY <3>1, <3>2
    <2>6. StoreTypes /\ CallerTypes
        BY DEF IndexInv
    <2> QED BY <2>1, <2>2, <2>3, <2>4, <2>5, <2>6 DEF StoreTypes, CallerTypes, TypeOK
<1> QED BY <1>1, IndexHolds, PTL

(* Whoever lands last - a run, a sweep, an operator, a caller that read a  *)
(* hash that has gone since, a rebuild that read another status - a task   *)
(* is in one set of a scope and the index never contradicts the hash.      *)
THEOREM IndexNeverDisagrees == Spec => []IndexAgrees
<1>1. IndexInv => IndexAgrees
    BY DEF IndexInv
<1> QED BY <1>1, IndexHolds, PTL

-----------------------------------------------------------------------------
(* The purge                                                               *)

(* Nobody reads for a reset, and what the purge has read, or is deleting,  *)
(* has finished, whatever happened to it since.                            *)
PurgeInv ==
    Without({"retry", "reset"}) =>
        /\ \A t \in Tasks : reset[t] = "none"
        /\ \A t \in Tasks : (t \in purge.read \/ delete[t][1] = "purge")
                                => hash[t].status \in Finished \cup {"none"}

(* What has been spent stays spent.                                        *)
LEMMA WithoutBefore ==
    ASSUME IndexInv, [Next]_vars, NEW kinds \in SUBSET Kinds, Without(kinds)'
    PROVE  Without(kinds) /\ \A k \in kinds : spent'[k] = spent[k]
<1> USE DEF jobs, store
<1>0. spent \in [Kinds -> Nat]
    BY DEF IndexInv, CallerTypes
<1>1. \A k \in Kinds : spent'[k] \in Nat /\ spent'[k] >= spent[k]
    <2>1. CASE spent' = spent
        BY <1>0, <2>1
    <2>2. CASE \E kind \in Kinds : spent' = [spent EXCEPT ![kind] = @ + 1]
        BY <1>0, <2>2
    <2>3. \/ spent' = spent \/ \E kind \in Kinds : spent' = [spent EXCEPT ![kind] = @ + 1]
        <3>1. ASSUME NEW t \in Tasks, Claim(t)
              PROVE  spent' = spent \/ \E kind \in Kinds : spent' = [spent EXCEPT ![kind] = @ + 1]
            BY <3>1 DEF Claim, Kinds
        <3>2. ASSUME NEW kind \in Kinds, Spend(kind)
              PROVE  \E k \in Kinds : spent' = [spent EXCEPT ![k] = @ + 1]
            BY <3>2 DEF Spend
        <3>3. ASSUME NEW t \in Tasks,
                     HandBack(t) \/ GiveUp(t) \/ ResetReads(t) \/ OperatorDeletes(t)
              PROVE  \E k \in Kinds : spent' = [spent EXCEPT ![k] = @ + 1]
            BY <3>2, <3>3 DEF HandBack, GiveUp, ResetReads, OperatorDeletes, Kinds
        <3>4. ASSUME PurgeBegins \/ RebuildBegins
              PROVE  \E k \in Kinds : spent' = [spent EXCEPT ![k] = @ + 1]
            BY <3>2, <3>4 DEF PurgeBegins, RebuildBegins, Kinds
        <3>5. ASSUME NEW t \in Tasks, NEW due,
                     \/ Enqueue(t, due) \/ GiveUpReads(t) \/ GiveUpRecords(t)
                     \/ ResetWrites(t) \/ DeleteWrites(t) \/ PurgeReads(t)
                     \/ PurgeDeletes(t) \/ RebuildReads(t)
              PROVE  spent' = spent
            BY <3>5 DEF Enqueue, GiveUpReads, GiveUpRecords, ResetWrites, DeleteWrites,
               PurgeReads, PurgeDeletes, RebuildReads
        <3>6. ASSUME NEW r \in Run, Succeed(r) \/ ReadBack(r) \/ Fail(r) \/ Die(r)
              PROVE  spent' = spent
            BY <3>6 DEF Succeed, ReadBack, Fail, Die
        <3>7. ASSUME \/ AskIndex \/ MarkBuilt \/ PurgeEnds \/ RebuildEnds \/ Tick
                     \/ UNCHANGED vars
              PROVE  spent' = spent
            BY <3>7 DEF AskIndex, MarkBuilt, PurgeEnds, RebuildEnds, Tick, vars
        <3>8. ASSUME NEW w, RebuildIndexes(w) PROVE spent' = spent
            BY <3>8 DEF RebuildIndexes
        <3>9. ASSUME NEW q, ReadIndex(q) PROVE spent' = spent
            BY <3>9 DEF ReadIndex
        <3> HIDE DEF jobs, store
        <3> QED BY <3>1, <3>3, <3>4, <3>5, <3>6, <3>7, <3>8, <3>9 DEF Next
    <2> QED BY <2>1, <2>2, <2>3
<1>2. \A k \in kinds : spent'[k] = 0 /\ k \in Kinds
    BY DEF Without
<1>3. \A k \in kinds : spent[k] \in Nat /\ spent[k] = 0
    BY <1>0, <1>1, <1>2
<1> QED BY <1>2, <1>3 DEF Without

Done == Finished \cup {"none"}

(* Unless completed tasks are run again, what has finished, or is gone,    *)
(* stays so.                                                               *)
LEMMA DoneStaysDone ==
    ASSUME IndexInv, [Next]_vars, Without({"retry", "reset"})',
           \A t \in Tasks : reset[t] = "none"
    PROVE  \A u \in ids : hash[u].status \in Done => hash'[u].status \in Done
<1> USE DEF jobs, store
<1>0. /\ hash \in [Tasks -> Hash] /\ ids \subseteq Tasks
      /\ spent \in [Kinds -> Nat] /\ spent'["retry"] = spent["retry"]
      /\ {"retry", "reset"} \subseteq Kinds
    <2>1. {"retry", "reset"} \subseteq Kinds
        BY DEF Kinds
    <2>2. spent'["retry"] = spent["retry"]
        BY <2>1, WithoutBefore
    <2> QED BY <2>1, <2>2 DEF IndexInv, StoreTypes, CallerTypes, Known
<1>1. ASSUME hash' = hash
      PROVE  \A u \in ids : hash[u].status \in Done => hash'[u].status \in Done
    BY <1>1
<1>2. ASSUME NEW t \in Tasks, \A u \in Tasks \ {t} : hash'[u] = hash[u],
             t \in ids => (hash'[t].status \in Done \/ hash[t].status \notin Done)
      PROVE  \A u \in ids : hash[u].status \in Done => hash'[u].status \in Done
    BY <1>0, <1>2
<1>3. ASSUME NEW t \in Tasks, NEW q, NEW score, Writes(t, q, score)
      PROVE  \A u \in Tasks \ {t} : hash'[u] = hash[u]
    BY <1>3 DEF Writes, Stores
<1>4. ASSUME NEW t \in Tasks, NEW due, Enqueue(t, due)
      PROVE  \A u \in ids : hash[u].status \in Done => hash'[u].status \in Done
    BY <1>0, <1>2, <1>4 DEF Enqueue
<1>5. ASSUME NEW t \in Tasks, Claim(t)
      PROVE  \A u \in ids : hash[u].status \in Done => hash'[u].status \in Done
    <2>1. hash[t].status # "FAILED"
        BY <1>0, <1>5 DEF Claim
    <2>2. hash[t].status \notin Done
        BY <1>5, <2>1 DEF Claim, Done, Finished
    <2> QED BY <1>2, <1>3, <1>5, <2>2, ClaimShape
<1>6. ASSUME NEW t \in Tasks, HandBack(t)
      PROVE  \A u \in ids : hash[u].status \in Done => hash'[u].status \in Done
    <2>1. hash[t].status \notin Done
        BY <1>6 DEF HandBack, Transition, Done, Finished
    <2> QED BY <1>0, <1>2, <1>6, <2>1 DEF HandBack, Transition
<1>7. ASSUME NEW t \in Tasks, GiveUp(t)
      PROVE  \A u \in ids : hash[u].status \in Done => hash'[u].status \in Done
    <2>1. hash[t].status \notin Done
        BY <1>7 DEF GiveUp, Transition, Done, Finished
    <2> QED BY <1>0, <1>2, <1>7, <2>1 DEF GiveUp, Transition
<1>8. ASSUME NEW t \in Tasks, GiveUpRecords(t)
      PROVE  \A u \in ids : hash[u].status \in Done => hash'[u].status \in Done
    <2>1. hash'[t].status \in Done
        BY <1>8, GiveUpRecordsShape DEF Done, Finished
    <2> QED BY <1>2, <1>3, <1>8, <2>1, GiveUpRecordsShape
<1>9. ASSUME NEW r \in Run, Succeed(r)
      PROVE  \A u \in ids : hash[u].status \in Done => hash'[u].status \in Done
    <2>1. hash'[run[r].task].status \in Done
        BY <1>9, SucceedShape DEF Done, Finished
    <2> QED BY <1>2, <1>3, <1>9, <2>1, SucceedShape
<1>10. ASSUME NEW r \in Run, Fail(r)
       PROVE  \A u \in ids : hash[u].status \in Done => hash'[u].status \in Done
    <2>1. hash'[run[r].task].status \in Done
        BY <1>10, FailShape DEF Done, Finished
    <2> QED BY <1>2, <1>3, <1>10, <2>1, FailShape
<1>11. ASSUME NEW r \in Run, ReadBack(r)
       PROVE  \A u \in ids : hash[u].status \in Done => hash'[u].status \in Done
    <2>1. CASE Full(run[r].task)
        BY <1>1, <1>11, <2>1 DEF ReadBack
    <2>2. CASE ~Full(run[r].task)
        <3>1. hash'[run[r].task].status \in Done
            BY <1>11, <2>2, ReadBackShape DEF Done, Finished
        <3> QED BY <1>2, <1>3, <1>11, <2>2, <3>1, ReadBackShape
    <2> QED BY <2>1, <2>2
<1>12. ASSUME NEW t \in Tasks, DeleteWrites(t)
       PROVE  \A u \in ids : hash[u].status \in Done => hash'[u].status \in Done
    <2>1. hash' = [hash EXCEPT ![t] = NoHash]
        BY <1>12 DEF DeleteWrites
    <2> QED BY <1>0, <2>1 DEF NoHash, Done
<1>13. ASSUME NEW t \in Tasks, ResetWrites(t) PROVE FALSE
    BY <1>13 DEF ResetWrites
<1>14. ASSUME Tick
       PROVE  \A u \in ids : hash[u].status \in Done => hash'[u].status \in Done
    <2>1. \A u \in Tasks : hash'[u] = hash[u] \/ hash'[u] = NoHash
        BY <1>14 DEF Tick
    <2> QED BY <1>0, <2>1 DEF NoHash, Done
<1>15. ASSUME NEW t \in Tasks,
              \/ GiveUpReads(t) \/ ResetReads(t) \/ OperatorDeletes(t)
              \/ PurgeReads(t) \/ PurgeDeletes(t) \/ RebuildReads(t)
       PROVE  hash' = hash
    BY <1>15 DEF GiveUpReads, ResetReads, OperatorDeletes, DeleteReads, PurgeReads,
       PurgeDeletes, RebuildReads
<1>16. ASSUME \/ AskIndex \/ MarkBuilt \/ PurgeBegins \/ PurgeEnds
              \/ RebuildBegins \/ RebuildEnds \/ UNCHANGED vars
              \/ (\E r \in Run : Die(r)) \/ (\E w \in rebuild.read : RebuildIndexes(w))
              \/ (\E q \in Scopes : ReadIndex(q))
       PROVE  hash' = hash
    BY <1>16 DEF AskIndex, MarkBuilt, PurgeBegins, PurgeEnds, RebuildBegins, RebuildEnds,
       Die, RebuildIndexes, ReadIndex, vars
<1> HIDE DEF jobs, store
<1> QED BY <1>1, <1>4, <1>5, <1>6, <1>7, <1>8, <1>9, <1>10, <1>11, <1>12, <1>13, <1>14,
           <1>15, <1>16 DEF Next

(* A purge only reads, and only then deletes, what has finished.           *)
LEMMA PurgeTakes ==
    ASSUME IndexInv, [Next]_vars, NEW u \in Tasks,
           u \in purge'.read \/ delete'[u][1] = "purge"
    PROVE  \/ u \in purge.read \/ delete[u][1] = "purge"
           \/ hash[u].status \in Finished /\ hash' = hash
<1> USE DEF jobs, store
<1>0. PassTypes /\ CallerTypes
    BY DEF IndexInv
<1>1. ASSUME UNCHANGED <<purge, delete>>
      PROVE  u \in purge.read \/ delete[u][1] = "purge"
    BY <1>1
<1>2. ASSUME NEW t \in Tasks, NEW due,
             \/ Enqueue(t, due) \/ Claim(t) \/ HandBack(t) \/ GiveUp(t)
             \/ GiveUpReads(t) \/ GiveUpRecords(t) \/ ResetReads(t) \/ ResetWrites(t)
             \/ RebuildReads(t)
      PROVE  u \in purge.read \/ delete[u][1] = "purge"
    BY <1>1, <1>2 DEF Enqueue, Claim, HandBack, GiveUp, GiveUpReads, GiveUpRecords,
       ResetReads, ResetWrites, RebuildReads
<1>3. ASSUME NEW r \in Run, Succeed(r) \/ ReadBack(r) \/ Fail(r) \/ Die(r)
      PROVE  u \in purge.read \/ delete[u][1] = "purge"
    BY <1>1, <1>3 DEF Succeed, ReadBack, Fail, Die
<1>4. ASSUME \/ AskIndex \/ MarkBuilt \/ RebuildBegins \/ RebuildEnds \/ Tick
             \/ UNCHANGED vars \/ (\E w \in rebuild.read : RebuildIndexes(w))
             \/ (\E q \in Scopes : ReadIndex(q))
      PROVE  u \in purge.read \/ delete[u][1] = "purge"
    BY <1>1, <1>4 DEF AskIndex, MarkBuilt, RebuildBegins, RebuildEnds, Tick, vars,
       RebuildIndexes, ReadIndex
<1>5. ASSUME NEW t \in Tasks, OperatorDeletes(t)
      PROVE  u \in purge.read \/ delete[u][1] = "purge"
    <2>1. purge' = purge /\ delete' = [delete EXCEPT ![t] = <<"operator", Full(t)>>]
        BY <1>5 DEF OperatorDeletes, DeleteReads
    <2> QED BY <1>0, <2>1 DEF CallerTypes
<1>6. ASSUME NEW t \in Tasks, DeleteWrites(t)
      PROVE  u \in purge.read \/ delete[u][1] = "purge"
    <2>1. purge' = purge /\ delete' = [delete EXCEPT ![t] = <<"none", FALSE>>]
        BY <1>6 DEF DeleteWrites
    <2> QED BY <1>0, <2>1 DEF CallerTypes
<1>7. ASSUME NEW t \in Tasks, PurgeReads(t)
      PROVE  \/ u \in purge.read \/ delete[u][1] = "purge"
             \/ hash[u].status \in Finished /\ hash' = hash
    <2>1. delete' = delete /\ hash' = hash
        BY <1>7 DEF PurgeReads
    <2>2. u \in purge'.read => u \in purge.read \/ (u = t /\ Purgeable(hash[t]))
        BY <1>0, <1>7 DEF PurgeReads, PassTypes
    <2> QED BY <2>1, <2>2 DEF Purgeable
<1>8. ASSUME NEW t \in Tasks, PurgeDeletes(t)
      PROVE  u \in purge.read \/ delete[u][1] = "purge"
    <2>1. t \in purge.read /\ purge'.read \subseteq purge.read
          /\ delete' = [delete EXCEPT ![t] = <<"purge", Full(t)>>]
        BY <1>0, <1>8 DEF PurgeDeletes, DeleteReads, PassTypes
    <2> QED BY <1>0, <2>1 DEF CallerTypes
<1>9. ASSUME PurgeBegins \/ PurgeEnds
      PROVE  u \in purge.read \/ delete[u][1] = "purge"
    <2>1. purge'.read = {} /\ delete' = delete
        BY <1>9 DEF PurgeBegins, PurgeEnds, Idle
    <2> QED BY <2>1
<1> HIDE DEF jobs, store
<1> QED BY <1>2, <1>3, <1>4, <1>5, <1>6, <1>7, <1>8, <1>9 DEF Next

LEMMA PurgeInvStep == IndexInv /\ PurgeInv /\ [Next]_vars => PurgeInv'
<1> SUFFICES ASSUME IndexInv, PurgeInv, [Next]_vars, Without({"retry", "reset"})'
             PROVE  /\ \A t \in Tasks : reset'[t] = "none"
                    /\ \A t \in Tasks : (t \in purge'.read \/ delete'[t][1] = "purge")
                                            => hash'[t].status \in Finished \cup {"none"}
    BY DEF PurgeInv
<1>0. {"retry", "reset"} \subseteq Kinds /\ CallerTypes
    BY DEF IndexInv, Kinds
<1>1. Without({"retry", "reset"}) /\ spent'["reset"] = spent["reset"]
    BY <1>0, WithoutBefore
<1>2. /\ \A t \in Tasks : reset[t] = "none"
      /\ \A t \in Tasks : (t \in purge.read \/ delete[t][1] = "purge")
                              => hash[t].status \in Done
    BY <1>1 DEF PurgeInv, Done
<1>3. \A t \in Tasks : reset'[t] = "none"
    <2>1. ASSUME NEW t \in Tasks, ResetReads(t) PROVE FALSE
        BY <1>0, <1>1, <2>1 DEF ResetReads, Spend, CallerTypes, Kinds
    <2>2. ASSUME NEW t \in Tasks, ResetWrites(t) PROVE FALSE
        BY <1>2, <2>2 DEF ResetWrites
    <2>3. (\A t \in Tasks : ~ResetReads(t) /\ ~ResetWrites(t)) => reset' = reset
        BY DEF Next, Enqueue, Claim, HandBack, GiveUp, GiveUpReads, GiveUpRecords,
           OperatorDeletes, DeleteReads, DeleteWrites, PurgeReads, PurgeDeletes,
           RebuildReads, Succeed, ReadBack, Fail, Die, RebuildIndexes, AskIndex, MarkBuilt,
           PurgeBegins, PurgeEnds, RebuildBegins, RebuildEnds, ReadIndex, Tick, vars, jobs,
           store
    <2> QED BY <1>2, <2>1, <2>2, <2>3
<1>4. ASSUME NEW t \in Tasks, t \in purge'.read \/ delete'[t][1] = "purge"
      PROVE  hash'[t].status \in Done
    <2>1. CASE t \in purge.read \/ delete[t][1] = "purge"
        <3>1. t \in ids
            BY <2>1 DEF IndexInv, Known
        <3> QED BY <1>2, <2>1, <3>1, DoneStaysDone
    <2>2. CASE hash[t].status \in Finished /\ hash' = hash
        BY <2>2 DEF Done
    <2> QED BY <1>4, <2>1, <2>2, PurgeTakes
<1> QED BY <1>3, <1>4 DEF Done

(* A purge that finds a task finished deletes it only if it is still       *)
(* finished, or gone, when nobody runs completed tasks again.              *)
THEOREM PurgeSparesTheLive == Spec => PurgeSparesLive
<1>1. Init => PurgeInv
    <2> SUFFICES ASSUME Init PROVE PurgeInv
        OBVIOUS
    <2>1. \A t \in Tasks : reset[t] = "none" /\ delete[t][1] = "none"
        BY DEF Init
    <2> QED BY <2>1 DEF Init, Idle, PurgeInv
<1>2. ASSUME PurgeInv, Without({"retry", "reset"}), NEW t \in Tasks, delete[t][1] = "purge"
      PROVE  hash[t].status \notin {"READY", "RUNNING"}
    BY <1>2 DEF PurgeInv, Finished
<1>3. PurgeInv => (Without({"retry", "reset"}) =>
          \A t \in Tasks : (delete[t][1] = "purge" /\ delete'[t][1] = "none")
              => hash[t].status \notin {"READY", "RUNNING"})
    BY <1>2
<1>4. PurgeInv /\ [Next]_vars
        => [Without({"retry", "reset"}) =>
              \A t \in Tasks : (delete[t][1] = "purge" /\ delete'[t][1] = "none")
                  => hash[t].status \notin {"READY", "RUNNING"}]_vars
    BY <1>3
<1> QED BY <1>1, <1>4, PurgeInvStep, IndexHolds, PTL DEF Spec, PurgeSparesLive

-----------------------------------------------------------------------------
(* Waiting tasks and their hashes                                          *)

(* The time a waiting task is due, which its TTL and its entry count from. *)
Wait(t) == Later(hash[t].enqueued, hash[t].due)

(* A task that waits was enqueued, never handed back: its hash is full and *)
(* expires its TTL after it is due.                                        *)
WaitingHash(t) ==
    hash[t].status = "READY" =>
        /\ hash[t].full /\ hash[t].enqueued # Never
        /\ hash[t].expires = IF ResultTtl > 0 THEN Wait(t) + ResultTtl ELSE Never

(* The entry of a task that waits has the time it is due; one whose hash   *)
(* has gone is past the cutoff.                                            *)
WaitingEntry(e) ==
    e.scope = Backend /\ e.status = "READY" =>
        IF Stored(e.task) THEN e.score = Wait(e.task)
                          ELSE ResultTtl > 0 /\ e.score + ResultTtl <= now

(* A rebuild that read a waiting task brings that time back.               *)
WaitingReading(w) ==
    w.status = "READY" /\ hash[w.task].status = "READY" => w.since = Wait(w.task)

WaitingInv ==
    Without({"reset", "handback"}) =>
        /\ \A t \in Tasks : reset[t] = "none" /\ WaitingHash(t)
        /\ \A e \in index : WaitingEntry(e)
        /\ \A w \in rebuild.read : WaitingReading(w)

LEMMA WaitTypes ==
    ASSUME StoreTypes, NEW t \in Tasks
    PROVE  /\ Wait(t) \in Nat \cup {Never}
           /\ hash[t].enqueued # Never => Wait(t) \in Nat
           /\ hash[t] \in Hash
BY DEF StoreTypes, Hash, Wait, Later, Never

LEMMA WaitingInit == Init => WaitingInv
<1> SUFFICES ASSUME Init PROVE WaitingInv
    OBVIOUS
<1>1. \A t \in Tasks : reset[t] = "none"
    BY DEF Init
<1>2. index = {} /\ rebuild.read = {}
    BY DEF Init, Idle
<1>3. PICK status \in [Legacy -> {"READY", "FAILED"}] :
          hash = [t \in Tasks |-> IF t \in Legacy THEN LegacyHash(status[t]) ELSE NoHash]
    BY DEF Init
<1>4. ASSUME NEW t \in Tasks, hash[t].status = "READY" PROVE WaitingHash(t)
    <2>1. t \in Legacy /\ hash[t] = LegacyHash(status[t])
        BY <1>3, <1>4, NoHashSound, SetupTypes
    <2>2. status[t] \in {"READY", "FAILED"} /\ setup \in Setups
        BY <2>1 DEF Init
    <2>3. hash[t] = LegacyHash("READY")
        BY <1>4, <2>1, <2>2, LegacyTypes
    <2>4. ResultTtl \in Nat /\ Ttl("READY") = ResultTtl
        BY <2>2, SetupTypes DEF Ttl, Finished
    <2>5. /\ hash[t].full /\ hash[t].enqueued = 0 /\ hash[t].due = Never
          /\ hash[t].expires = IF ResultTtl > 0 THEN ResultTtl ELSE Never
        BY <2>3, <2>4 DEF LegacyHash
    <2>6. Wait(t) = 0
        BY <2>5 DEF Wait, Later, Never
    <2> QED BY <2>4, <2>5, <2>6 DEF WaitingHash, Never
<1>5. \A t \in Tasks : WaitingHash(t)
    BY <1>4 DEF WaitingHash
<1> QED BY <1>1, <1>2, <1>5 DEF WaitingInv

(* A step that leaves the hashes alone and adds no entry of a waiting task *)
(* keeps what is said of entries and hashes.                               *)
LEMMA WaitingSame ==
    ASSUME hash' = hash, now' = now, setup' = setup,
           \A t \in Tasks : WaitingHash(t), \A e \in index : WaitingEntry(e)
    PROVE  /\ \A t \in Tasks : WaitingHash(t)'
           /\ \A e \in index' \cap index : WaitingEntry(e)'
           /\ \A w : WaitingReading(w)' <=> WaitingReading(w)
<1>1. \A t : Wait(t)' = Wait(t) /\ Stored(t)' = Stored(t) /\ ResultTtl' = ResultTtl
    BY DEF Wait, Stored, ResultTtl
<1> QED BY <1>1 DEF WaitingHash, WaitingEntry, WaitingReading

(* One write of a status: of another than READY, or by an enqueue.         *)
LEMMA WaitingWrites ==
    ASSUME IndexInv, [Next]_vars, NEW t \in Tasks, NEW q \in Scopes, NEW score \in Nat,
           Writes(t, q, score), UNCHANGED <<rebuild, reset>>,
           WaitingInv, Without({"reset", "handback"}),
           hash'[t].status = "READY" =>
               /\ t \notin ids /\ hash'[t].full /\ hash'[t].enqueued # Never
               /\ Wait(t)' = score
               /\ hash'[t].expires = IF ResultTtl > 0 THEN score + ResultTtl ELSE Never
    PROVE  WaitingInv'
<1>1. /\ \A u \in Tasks \ {t} : hash'[u] = hash[u]
      /\ hash'[t].status \in Statuses /\ now' = now
      /\ index' = Indexed(index, {Backend, q}, t, hash'[t].status, score,
                          Cutoff(hash'[t].status, now))
    BY DEF Writes, Stores, Moves
<1>2. /\ \A u \in Tasks : reset[u] = "none" /\ WaitingHash(u)
      /\ \A e \in index : WaitingEntry(e)
      /\ \A w \in rebuild.read : WaitingReading(w)
    BY DEF WaitingInv
<1>3. ResultTtl' = ResultTtl
    BY StepShapes DEF ResultTtl
<1>4. \A u \in Tasks \ {t} : Wait(u)' = Wait(u) /\ Stored(u)' = Stored(u)
    BY <1>1 DEF Wait, Stored
<1>5. ASSUME NEW u \in Tasks PROVE WaitingHash(u)'
    <2>1. CASE u = t
        BY <1>3, <2>1 DEF WaitingHash
    <2>2. CASE u # t
        BY <1>1, <1>2, <1>3, <1>4, <2>2 DEF WaitingHash
    <2> QED BY <2>1, <2>2
<1>6. ASSUME NEW e \in index', e.scope = Backend, e.status = "READY"
      PROVE  WaitingEntry(e)'
    <2>1. \/ e \in index /\ e.task # t
          \/ /\ e.scope \in {Backend, q}
             /\ e = [scope |-> e.scope, status |-> hash'[t].status, task |-> t,
                     score |-> score]
        BY <1>1, <1>6, IndexedEntries
    <2>2. CASE e \in index /\ e.task # t
        <3>1. e.task \in Tasks
            BY <2>2 DEF IndexInv, StoreTypes, Entry
        <3> QED BY <1>1, <1>2, <1>3, <1>4, <2>2, <3>1 DEF WaitingEntry
    <2>3. CASE e = [scope |-> e.scope, status |-> hash'[t].status, task |-> t,
                    score |-> score]
        <3>1. e.task = t /\ e.score = score /\ hash'[t].status = "READY"
            BY <1>6, <2>3
        <3>2. Stored(t)'
            BY <3>1 DEF Stored
        <3> QED BY <3>1, <3>2 DEF WaitingEntry
    <2> QED BY <2>1, <2>2, <2>3
<1>7. ASSUME NEW w \in rebuild.read PROVE WaitingReading(w)'
    <2>1. w.task \in ids /\ w.task \in Tasks
        BY DEF IndexInv, Known
    <2>2. CASE w.task = t
        BY <2>1, <2>2 DEF WaitingReading
    <2>3. CASE w.task # t
        BY <1>1, <1>2, <1>4, <2>1, <2>3 DEF WaitingReading
    <2> QED BY <2>2, <2>3
<1>8. \A e \in index' : WaitingEntry(e)'
    BY <1>6 DEF WaitingEntry
<1> QED BY <1>2, <1>5, <1>7, <1>8 DEF WaitingInv

LEMMA WaitingKept ==
    ASSUME WaitingInv, Without({"reset", "handback"}),
           UNCHANGED <<hash, now, setup, reset>>, index' \subseteq index,
           \A w \in rebuild'.read \ rebuild.read : WaitingReading(w)
    PROVE  WaitingInv'
<1>1. /\ \A u \in Tasks : reset[u] = "none" /\ WaitingHash(u)
      /\ \A e \in index : WaitingEntry(e)
      /\ \A w \in rebuild.read : WaitingReading(w)
    BY DEF WaitingInv
<1>2. /\ \A t \in Tasks : WaitingHash(t)'
      /\ \A e \in index' \cap index : WaitingEntry(e)'
      /\ \A w : WaitingReading(w)' <=> WaitingReading(w)
    BY <1>1, WaitingSame
<1>3. \A w \in rebuild'.read : WaitingReading(w)
    BY <1>1
<1> QED BY <1>1, <1>2, <1>3 DEF WaitingInv

LEMMA WaitingInvStep == IndexInv /\ WaitingInv /\ [Next]_vars => WaitingInv'
<1> SUFFICES ASSUME IndexInv, WaitingInv, [Next]_vars, Without({"reset", "handback"})'
             PROVE  WaitingInv'
    BY DEF WaitingInv
<1> USE DEF jobs, store
<1>0. /\ {"reset", "handback"} \subseteq Kinds /\ CallerTypes /\ StoreTypes /\ PassTypes
      /\ setup' = setup /\ now \in Nat /\ ResultTtl \in Nat
      /\ setup.delays \subseteq Nat
    BY StepShapes, SetupTypes DEF IndexInv, Kinds, StoreTypes
<1>1. /\ Without({"reset", "handback"}) /\ spent'["reset"] = spent["reset"]
      /\ spent'["handback"] = spent["handback"]
    BY <1>0, WithoutBefore
<1>2. /\ \A u \in Tasks : reset[u] = "none" /\ WaitingHash(u)
      /\ \A e \in index : WaitingEntry(e)
      /\ \A w \in rebuild.read : WaitingReading(w)
    BY <1>1 DEF WaitingInv
<1>3. ASSUME NEW t \in Tasks, NEW q \in Scopes, Writes(t, q, now),
             UNCHANGED <<rebuild, reset>>, hash'[t].status # "READY"
      PROVE  WaitingInv'
    BY <1>0, <1>1, <1>3, WaitingWrites
<1>4. ASSUME NEW t \in Tasks, NEW due \in Nat \cup {Never}, Enqueue(t, due)
      PROVE  WaitingInv'
    <2>1. /\ Writes(t, QueueOf[t], Later(now, due)) /\ Later(now, due) \in Nat
          /\ t \notin ids /\ hash'[t].full /\ hash'[t].enqueued = now /\ hash'[t].due = due
          /\ hash'[t].expires = WaitingExpiry(due)
        BY <1>4, EnqueueShape
    <2>2. Wait(t)' = Later(now, due)
        BY <2>1 DEF Wait
    <2>3. now # Never
        BY <1>0 DEF Never
    <2>4. QueueOf[t] \in Scopes /\ UNCHANGED <<rebuild, reset>>
        BY <1>4, OwnScopes DEF Enqueue
    <2> QED BY <1>1, <2>1, <2>2, <2>3, <2>4, WaitingWrites DEF WaitingExpiry
<1>5. ASSUME NEW t \in Tasks, Enqueue(t, Never) PROVE WaitingInv'
    <2>1. Never \in Nat \cup {Never}
        OBVIOUS
    <2> QED BY <1>4, <1>5, <2>1
<1>6. ASSUME NEW t \in Tasks, NEW d \in setup.delays, Enqueue(t, now + d) PROVE WaitingInv'
    <2>1. now + d \in Nat \cup {Never}
        BY <1>0
    <2> QED BY <1>4, <1>6, <2>1
<1>7. ASSUME NEW t \in Tasks, Claim(t) PROVE WaitingInv'
    <2>1. Writes(t, QueueOf[t], now) /\ hash'[t].status # "READY"
        BY <1>7, ClaimShape
    <2>2. QueueOf[t] \in Scopes /\ UNCHANGED <<rebuild, reset>>
        BY <1>7, OwnScopes DEF Claim
    <2> QED BY <1>3, <2>1, <2>2
<1>8. ASSUME NEW t \in Tasks, HandBack(t) PROVE FALSE
    BY <1>0, <1>1, <1>8 DEF HandBack, Spend, CallerTypes, Kinds
<1>9. ASSUME NEW t \in Tasks, GiveUp(t) PROVE WaitingInv'
    <2>1. Writes(t, QueueOf[t], now) /\ hash'[t].status # "READY"
        BY <1>9, TransitionShape DEF GiveUp, Statuses, Finished
    <2>2. QueueOf[t] \in Scopes /\ UNCHANGED <<rebuild, reset>>
        BY <1>9, OwnScopes DEF GiveUp
    <2> QED BY <1>3, <2>1, <2>2
<1>10. ASSUME NEW t \in Tasks, GiveUpRecords(t) PROVE WaitingInv'
    <2>1. /\ Writes(t, Queue(t, giveup[t] = "full"), now) /\ hash'[t].status # "READY"
          /\ Queue(t, giveup[t] = "full") \in Scopes
        BY <1>10, GiveUpRecordsShape
    <2>2. UNCHANGED <<rebuild, reset>>
        BY <1>10 DEF GiveUpRecords
    <2> QED BY <1>3, <2>1, <2>2
<1>11. ASSUME NEW t \in Tasks, ResetReads(t) PROVE FALSE
    BY <1>0, <1>1, <1>11 DEF ResetReads, Spend, CallerTypes, Kinds
<1>12. ASSUME NEW t \in Tasks, ResetWrites(t) PROVE FALSE
    BY <1>2, <1>12 DEF ResetWrites
<1>13. ASSUME NEW r \in Run, Succeed(r) PROVE WaitingInv'
    <2>1. /\ Writes(run[r].task, QueueOf[run[r].task], now) /\ run[r].task \in Tasks
          /\ hash'[run[r].task].status # "READY"
        BY <1>13, SucceedShape
    <2>2. QueueOf[run[r].task] \in Scopes /\ UNCHANGED <<rebuild, reset>>
        BY <1>13, <2>1, OwnScopes DEF Succeed
    <2> QED BY <1>3, <2>1, <2>2
<1>14. ASSUME NEW r \in Run, Fail(r) PROVE WaitingInv'
    <2>1. /\ Writes(run[r].task, QueueOf[run[r].task], now) /\ run[r].task \in Tasks
          /\ hash'[run[r].task].status # "READY"
        BY <1>14, FailShape
    <2>2. QueueOf[run[r].task] \in Scopes /\ UNCHANGED <<rebuild, reset>>
        BY <1>14, <2>1, OwnScopes DEF Fail
    <2> QED BY <1>3, <2>1, <2>2
<1>15. ASSUME NEW r \in Run, ReadBack(r) PROVE WaitingInv'
    <2>1. CASE Full(run[r].task)
        BY <1>0, <1>1, <1>15, <2>1, WaitingKept DEF ReadBack
    <2>2. CASE ~Full(run[r].task)
        <3>1. /\ Writes(run[r].task, Default, now) /\ run[r].task \in Tasks
              /\ hash'[run[r].task].status # "READY"
            BY <1>15, <2>2, ReadBackShape
        <3>2. Default \in Scopes /\ UNCHANGED <<rebuild, reset>>
            BY <1>15, DefaultScope DEF ReadBack
        <3> QED BY <1>3, <3>1, <3>2
    <2> QED BY <2>1, <2>2
<1>16. ASSUME NEW t \in Tasks,
              GiveUpReads(t) \/ OperatorDeletes(t) \/ PurgeReads(t) \/ PurgeDeletes(t)
       PROVE  WaitingInv'
    BY <1>0, <1>1, <1>16, WaitingKept DEF GiveUpReads, OperatorDeletes, DeleteReads,
       PurgeReads, PurgeDeletes
<1>17. ASSUME \/ AskIndex \/ MarkBuilt \/ PurgeBegins \/ PurgeEnds \/ UNCHANGED vars
              \/ (\E r \in Run : Die(r))
       PROVE  WaitingInv'
    <2>1. UNCHANGED <<hash, now, setup, reset, index, rebuild>>
        BY <1>17 DEF AskIndex, MarkBuilt, PurgeBegins, PurgeEnds, Die, vars
    <2> QED BY <1>1, <2>1, WaitingKept
<1>18. CASE RebuildBegins \/ RebuildEnds
    <2>1. UNCHANGED <<hash, now, setup, reset, index>> /\ rebuild'.read = {}
        BY <1>18 DEF RebuildBegins, RebuildEnds, Idle
    <2> QED BY <1>1, <2>1, WaitingKept
<1>19. ASSUME NEW q \in Scopes, ReadIndex(q) PROVE WaitingInv'
    <2>1. UNCHANGED <<hash, now, setup, reset, rebuild>> /\ index' \subseteq index
        BY <1>19 DEF ReadIndex
    <2> QED BY <1>1, <2>1, WaitingKept
<1>20. ASSUME NEW t \in Tasks, RebuildReads(t) PROVE WaitingInv'
    <2> DEFINE w == [task |-> t, status |-> hash[t].status, full |-> hash[t].full,
                     since |-> StatusSince(hash[t], rebuild.start)]
    <2>1. \A v \in rebuild'.read \ rebuild.read : v = w
        BY <1>0, <1>20 DEF RebuildReads, PassTypes
    <2>2. ASSUME hash[t].status = "READY" PROVE WaitingReading(w)
        <3>1. Wait(t) \in Nat
            BY <1>0, <1>2, <2>2, WaitTypes DEF WaitingHash
        <3>2. Since(hash[t]) = Wait(t)
            BY <2>2 DEF Since, Wait
        <3>3. StatusSince(hash[t], rebuild.start) = Wait(t)
            BY <3>1, <3>2 DEF StatusSince, Never
        <3> QED BY <3>3 DEF WaitingReading
    <2>3. WaitingReading(w)
        BY <2>2 DEF WaitingReading
    <2> HIDE DEF w
    <2>4. UNCHANGED <<hash, now, setup, reset, index>>
        BY <1>20 DEF RebuildReads
    <2> QED BY <1>1, <2>1, <2>3, <2>4, WaitingKept
<1>21. ASSUME NEW w \in rebuild.read, RebuildIndexes(w) PROVE WaitingInv'
    <2> DEFINE scopes == {Backend, Queue(w.task, w.full)}
    <2>1. UNCHANGED <<hash, now, setup, reset>> /\ rebuild'.read \subseteq rebuild.read
        BY <1>0, <1>21 DEF RebuildIndexes, PassTypes
    <2>2. CASE index' \subseteq index
        BY <1>1, <2>1, <2>2, WaitingKept
    <2>3. CASE /\ StillThere(w)
               /\ index' = Indexed(index, scopes, w.task, w.status, w.since,
                                   Cutoff(w.status, rebuild.start))
        <3>1. /\ \A u \in Tasks : WaitingHash(u)'
              /\ \A e \in index' \cap index : WaitingEntry(e)'
              /\ \A v : WaitingReading(v)' <=> WaitingReading(v)
            BY <1>2, <2>1, WaitingSame
        <3>2. ASSUME NEW e \in index' PROVE WaitingEntry(e)'
            <4>1. CASE e \in index
                BY <3>1, <4>1
            <4>2. CASE e = [scope |-> e.scope, status |-> w.status, task |-> w.task,
                            score |-> w.since] /\ e.status = "READY"
                <5>1. e.task = w.task /\ e.score = w.since /\ w.status = "READY"
                    BY <4>2
                <5>2. hash[w.task].status = "READY" /\ Stored(w.task)
                    BY <2>3, <5>1 DEF StillThere, Stored
                <5>3. e.score = Wait(w.task)
                    BY <1>2, <5>1, <5>2 DEF WaitingReading
                <5>4. Wait(w.task)' = Wait(w.task) /\ Stored(w.task)'
                    BY <2>1, <5>2 DEF Wait, Stored
                <5> QED BY <5>1, <5>3, <5>4 DEF WaitingEntry
            <4> QED BY <2>3, <4>1, <4>2, IndexedEntries DEF WaitingEntry
        <3> QED BY <1>2, <2>1, <3>1, <3>2 DEF WaitingInv
    <2> QED BY <1>21, <2>2, <2>3 DEF RebuildIndexes
<1>22. ASSUME NEW t \in Tasks, DeleteWrites(t) PROVE WaitingInv'
    <2>1. /\ hash' = [hash EXCEPT ![t] = NoHash]
          /\ index' = {e \in index : e.task # t \/ e.scope \notin Swept(t)}
          /\ UNCHANGED <<now, reset, rebuild>>
        BY <1>22 DEF DeleteWrites
    <2>2. /\ hash'[t].status = "none" /\ \A u \in Tasks \ {t} : hash'[u] = hash[u]
          /\ hash' \in [Tasks -> Hash]
        BY <1>0, <2>1, NoHashSound DEF StoreTypes, Sound
    <2>3. ResultTtl' = ResultTtl /\ \A u \in Tasks \ {t} : Wait(u)' = Wait(u)
        BY <1>0, <2>2 DEF Wait, ResultTtl
    <2>4. \A u \in Tasks : WaitingHash(u)'
        BY <1>2, <2>2, <2>3 DEF WaitingHash
    <2>5. ASSUME NEW e \in index' PROVE WaitingEntry(e)'
        <3>1. e \in index /\ e.task \in Tasks
            BY <1>0, <2>1 DEF StoreTypes, Entry
        <3>2. CASE e.scope = Backend
            <4>1. e.task # t
                BY <2>1, <3>2 DEF Swept
            <4> QED BY <1>2, <2>1, <2>2, <2>3, <3>1, <4>1 DEF WaitingEntry, Stored
        <3> QED BY <3>2 DEF WaitingEntry
    <2>6. ASSUME NEW w \in rebuild'.read PROVE WaitingReading(w)'
        <3>1. w \in rebuild.read /\ w.task \in Tasks
            BY <2>1 DEF IndexInv, Known
        <3> QED BY <1>2, <2>2, <2>3, <3>1 DEF WaitingReading
    <2> QED BY <1>2, <2>1, <2>4, <2>5, <2>6 DEF WaitingInv
<1>23. ASSUME Tick PROVE WaitingInv'
    <2>1. /\ now' = now + 1 /\ UNCHANGED <<index, reset, rebuild>>
          /\ hash' = [t \in Tasks |-> IF Expired(t) THEN NoHash ELSE hash[t]]
        BY <1>23 DEF Tick
    <2>2. ASSUME NEW u \in Tasks
          PROVE  \/ hash'[u] = hash[u] /\ Wait(u)' = Wait(u)
                 \/ /\ hash'[u].status = "none"
                    /\ hash[u].expires # Never /\ hash[u].expires <= now'
        BY <2>1, NoHashSound, <1>0 DEF Wait, Expired
    <2>3. ResultTtl' = ResultTtl
        BY <1>0 DEF ResultTtl
    <2>4. \A u \in Tasks : WaitingHash(u)'
        BY <1>2, <2>2, <2>3 DEF WaitingHash
    <2>5. ASSUME NEW e \in index', e.scope = Backend, e.status = "READY"
          PROVE  WaitingEntry(e)'
        <3>1. e \in index /\ e.task \in Tasks /\ e.score \in Nat
            BY <1>0, <2>1 DEF StoreTypes, Entry
        <3>2. WaitingEntry(e)
            BY <1>2, <3>1
        <3>3. CASE ~Stored(e.task)
            <4>1. ResultTtl > 0 /\ e.score + ResultTtl <= now
                BY <2>5, <3>2, <3>3 DEF WaitingEntry
            <4>2. e.score + ResultTtl <= now'
                BY <1>0, <2>1, <3>1, <4>1
            <4>3. hash[e.task] = NoHash
                BY <1>0, <3>1, <3>3 DEF Stored, StoreTypes, Sound
            <4>4. ~Stored(e.task)'
                BY <2>1, <3>1, <4>3 DEF Stored, NoHash
            <4> QED BY <2>3, <4>1, <4>2, <4>4 DEF WaitingEntry
        <3>4. CASE Stored(e.task) /\ hash'[e.task] = hash[e.task]
                   /\ Wait(e.task)' = Wait(e.task)
            <4>1. Stored(e.task)' /\ e.score = Wait(e.task)
                BY <2>5, <3>2, <3>4 DEF WaitingEntry, Stored
            <4> QED BY <3>4, <4>1 DEF WaitingEntry
        <3>5. CASE /\ Stored(e.task) /\ hash'[e.task].status = "none"
                   /\ hash[e.task].expires # Never /\ hash[e.task].expires <= now'
            <4>1. e.score = Wait(e.task)
                BY <2>5, <3>2, <3>5 DEF WaitingEntry
            <4>2. hash[e.task].status = "READY"
                BY <2>5, <3>1, <3>5 DEF IndexInv, IndexAgrees
            <4>3. ResultTtl > 0 /\ hash[e.task].expires = Wait(e.task) + ResultTtl
                BY <1>2, <3>1, <3>5, <4>2 DEF WaitingHash
            <4>4. e.score + ResultTtl <= now'
                BY <3>5, <4>1, <4>3
            <4>5. ~Stored(e.task)'
                BY <3>5 DEF Stored
            <4> QED BY <2>3, <4>3, <4>4, <4>5 DEF WaitingEntry
        <3> QED BY <2>2, <3>1, <3>3, <3>4, <3>5
    <2>6. ASSUME NEW w \in rebuild'.read PROVE WaitingReading(w)'
        <3>1. w \in rebuild.read /\ w.task \in Tasks
            BY <2>1 DEF IndexInv, Known
        <3> QED BY <1>2, <2>2, <3>1 DEF WaitingReading
    <2>7. \A e \in index' : WaitingEntry(e)'
        BY <2>5 DEF WaitingEntry
    <2> QED BY <1>2, <2>1, <2>4, <2>6, <2>7 DEF WaitingInv
<1> HIDE DEF jobs, store
<1> QED BY <1>5, <1>6, <1>7, <1>8, <1>9, <1>10, <1>11, <1>12, <1>13, <1>14, <1>15, <1>16,
           <1>17, <1>18, <1>19, <1>20, <1>21, <1>22, <1>23 DEF Next

(* A task that a read of the index counts as waiting has its hash.         *)
THEOREM WaitingHasItsHash == Spec => []WaitingIsStored
<1>1. IndexInv /\ WaitingInv => WaitingIsStored
    <2> SUFFICES ASSUME IndexInv, WaitingInv, Without({"reset", "handback"}),
                        NEW e \in index, e.scope = Backend, e.status = "READY",
                        e.score > Cutoff("READY", now), ~Stored(e.task)
                 PROVE  FALSE
        BY DEF WaitingIsStored, Counted
    <2>1. ResultTtl > 0 /\ e.score + ResultTtl <= now
        BY DEF WaitingInv, WaitingEntry
    <2>2. e.score \in Nat /\ now \in Nat /\ ResultTtl \in Nat
        BY SetupTypes DEF IndexInv, StoreTypes, Entry
    <2>3. Cutoff("READY", now) = now - ResultTtl
        BY <2>1 DEF Cutoff, Ttl, Finished
    <2> QED BY <2>1, <2>2, <2>3
<1> QED BY <1>1, WaitingInit, WaitingInvStep, IndexHolds, PTL DEF Spec

-----------------------------------------------------------------------------
(* What the counts rest on: operations that were paid for, times           *)

(* A run, a give-up, a sweep records the end of a task.                    *)
Finishing(t, q) ==
    Writes(t, q, now) /\ t \in ids /\ hash'[t].status \in Finished /\ Ended(t)

LEMMA StepKinds ==
    ASSUME IndexInv, [Next]_vars
    PROVE  \/ Same
           \/ \E t \in Tasks : \E due \in Nat \cup {Never} : Enqueue(t, due)
           \/ \E t \in Tasks : \/ Claim(t) \/ HandBack(t) \/ GiveUp(t) \/ ResetWrites(t)
                               \/ DeleteWrites(t) \/ \E q \in Scopes : Finishing(t, q)
           \/ \E w \in rebuild.read : RebuildIndexes(w)
           \/ \E q \in Scopes : ReadIndex(q)
           \/ Tick
<1> USE DEF jobs, store
<1>0. now \in Nat /\ setup.delays \subseteq Nat
    BY SetupTypes DEF IndexInv, StoreTypes
<1>1. ASSUME NEW t \in Tasks, Enqueue(t, Never)
      PROVE  \E due \in Nat \cup {Never} : Enqueue(t, due)
    BY <1>1
<1>2. ASSUME NEW t \in Tasks, NEW d \in setup.delays, Enqueue(t, now + d)
      PROVE  \E due \in Nat \cup {Never} : Enqueue(t, due)
    <2>1. now + d \in Nat \cup {Never}
        BY <1>0
    <2> QED BY <1>2, <2>1
<1>3. ASSUME NEW t \in Tasks, GiveUpRecords(t) PROVE \E q \in Scopes : Finishing(t, q)
    <2> DEFINE own == Queue(t, giveup[t] = "full")
    <2>1. own \in Scopes /\ Writes(t, own, now)
        BY <1>3, GiveUpRecordsShape
    <2>2. t \in ids /\ hash'[t].status \in Finished /\ Ended(t)
        BY <1>3, GiveUpRecordsShape DEF Finished
    <2> HIDE DEF own
    <2> QED BY <2>1, <2>2 DEF Finishing
<1>4. ASSUME NEW r \in Run, Succeed(r)
      PROVE  \E t \in Tasks : \E q \in Scopes : Finishing(t, q)
    <2>1. /\ run[r].task \in Tasks
          /\ Finishing(run[r].task, QueueOf[run[r].task])
        BY <1>4, SucceedShape DEF Finishing, Finished
    <2> QED BY <2>1, OwnScopes
<1>5. ASSUME NEW r \in Run, Fail(r)
      PROVE  \E t \in Tasks : \E q \in Scopes : Finishing(t, q)
    <2>1. /\ run[r].task \in Tasks
          /\ Finishing(run[r].task, QueueOf[run[r].task])
        BY <1>5, FailShape DEF Finishing, Finished
    <2> QED BY <2>1, OwnScopes
<1>6. ASSUME NEW r \in Run, ReadBack(r)
      PROVE  Same \/ \E t \in Tasks : \E q \in Scopes : Finishing(t, q)
    <2>1. CASE Full(run[r].task)
        BY <1>6, <2>1 DEF ReadBack, Same
    <2>2. CASE ~Full(run[r].task)
        <3>1. run[r].task \in Tasks /\ Finishing(run[r].task, Default)
            BY <1>6, <2>2, ReadBackShape DEF Finishing, Finished
        <3> QED BY <3>1, DefaultScope
    <2> QED BY <2>1, <2>2
<1>7. ASSUME NEW t \in Tasks,
             \/ GiveUpReads(t) \/ ResetReads(t) \/ OperatorDeletes(t)
             \/ PurgeReads(t) \/ PurgeDeletes(t) \/ RebuildReads(t)
      PROVE  Same
    BY <1>7 DEF GiveUpReads, ResetReads, OperatorDeletes, DeleteReads, PurgeReads,
       PurgeDeletes, RebuildReads, Same
<1>8. ASSUME \/ AskIndex \/ MarkBuilt \/ PurgeBegins \/ PurgeEnds
             \/ RebuildBegins \/ RebuildEnds \/ UNCHANGED vars \/ (\E r \in Run : Die(r))
      PROVE  Same
    BY <1>8 DEF AskIndex, MarkBuilt, PurgeBegins, PurgeEnds, RebuildBegins, RebuildEnds,
       Die, vars, Same
<1> HIDE DEF jobs, store
<1> QED BY <1>1, <1>2, <1>3, <1>4, <1>5, <1>6, <1>7, <1>8 DEF Next

(* Who is in the middle of an operation has paid for it.                   *)
Paid ==
    /\ rebuild.at = "walk" => spent["rebuild"] # 0
    /\ rebuild.at = "idle" => rebuild.todo = {} /\ rebuild.read = {}
    /\ rebuild.start <= now
    /\ purge.at = "walk" => spent["purge"] # 0
    /\ \A t \in Tasks : /\ delete[t][1] # "none" => spent["delete"] # 0 \/ spent["purge"] # 0
                        /\ giveup[t] # "none" => spent["giveup"] # 0
                        /\ reset[t] # "none" => spent["reset"] # 0
    /\ \A r \in Run : run[r].at # "none" => r <= setup.runs

LEMMA PaidInit == Init => Paid
<1> SUFFICES ASSUME Init PROVE Paid
    OBVIOUS
<1>1. /\ rebuild = Idle /\ purge = Idle /\ now = 0
      /\ \A t \in Tasks : delete[t][1] = "none" /\ giveup[t] = "none" /\ reset[t] = "none"
      /\ \A r \in Run : run[r].at = "none"
    BY DEF Init
<1> QED BY <1>1 DEF Paid, Idle

(* A counter of operations never goes back.                                *)
LEMMA SpentStays ==
    ASSUME IndexInv, [Next]_vars
    PROVE  \A k \in Kinds : spent[k] # 0 => spent'[k] # 0
<1>1. \A k \in Kinds : Without({k})' => Without({k})
    <2> SUFFICES ASSUME NEW k \in Kinds, Without({k})' PROVE Without({k})
        OBVIOUS
    <2>1. {k} \in SUBSET Kinds
        OBVIOUS
    <2> QED BY <2>1, WithoutBefore
<1> QED BY <1>1 DEF Without

LEMMA PaidStep == IndexInv /\ Paid /\ [Next]_vars => Paid'
<1> SUFFICES ASSUME IndexInv, Paid, [Next]_vars PROVE Paid'
    OBVIOUS
<1> USE DEF jobs, store
<1>0. /\ CallerTypes /\ PassTypes /\ setup' = setup /\ now \in Nat
      /\ Kinds = {"retry", "handback", "giveup", "reset", "delete", "purge", "rebuild"}
      /\ \A k \in Kinds : spent[k] \in Nat /\ (spent[k] # 0 => spent'[k] # 0)
    BY SpentStays, StepShapes, SetupTypes DEF IndexInv, StoreTypes, CallerTypes, Kinds
<1>1. ASSUME NEW kind \in Kinds, Spend(kind) PROVE spent'[kind] # 0
    BY <1>0, <1>1 DEF Spend, CallerTypes
<1>2. ASSUME UNCHANGED <<now, run, giveup, reset, delete, purge, rebuild>> PROVE Paid'
    BY <1>0, <1>2 DEF Paid
<1>3. ASSUME NEW t \in Tasks, NEW due,
             \/ Enqueue(t, due) \/ HandBack(t)
      PROVE  Paid'
    BY <1>2, <1>3 DEF Enqueue, HandBack
<1>4. ASSUME NEW t \in Tasks, Claim(t) PROVE Paid'
    <2>1. \A r \in Run : run'[r].at # "none" => r <= setup.runs
        BY <1>0, <1>4 DEF Claim, Paid, CallerTypes
    <2> QED BY <1>0, <1>4, <2>1 DEF Claim, Paid
<1>5. ASSUME NEW r \in Run, NEW at, run[r].at # "none", run' = [run EXCEPT ![r].at = at],
             UNCHANGED <<now, giveup, reset, delete, purge, rebuild>>
      PROVE  Paid'
    <2>1. \A q \in Run : run'[q].at # "none" => q <= setup.runs
        BY <1>0, <1>5 DEF Paid, CallerTypes
    <2> QED BY <1>0, <1>5, <2>1 DEF Paid
<1>6. ASSUME NEW r \in Run, Succeed(r) \/ ReadBack(r) \/ Fail(r) \/ Die(r) PROVE Paid'
    BY <1>5, <1>6 DEF Succeed, ReadBack, Fail, Die
<1>7. ASSUME NEW t \in Tasks, GiveUp(t) PROVE Paid'
    <2>1. spent'["giveup"] # 0
        BY <1>0, <1>1, <1>7 DEF GiveUp
    <2>2. \A u \in Tasks : giveup'[u] # "none" => spent'["giveup"] # 0
        BY <2>1
    <2> QED BY <1>0, <1>7, <2>2 DEF GiveUp, Paid
<1>8. ASSUME NEW t \in Tasks, GiveUpReads(t) PROVE Paid'
    <2>1. spent["giveup"] # 0
        BY <1>8 DEF GiveUpReads, Paid
    <2>2. \A u \in Tasks : giveup'[u] # "none" => spent'["giveup"] # 0
        BY <1>0, <2>1
    <2> QED BY <1>0, <1>8, <2>2 DEF GiveUpReads, Paid
<1>9. ASSUME NEW t \in Tasks, GiveUpRecords(t) PROVE Paid'
    <2>1. \A u \in Tasks : giveup'[u] # "none" => giveup[u] # "none"
        BY <1>0, <1>9 DEF GiveUpRecords, CallerTypes
    <2> QED BY <1>0, <1>9, <2>1 DEF GiveUpRecords, Paid
<1>10. ASSUME NEW t \in Tasks, ResetReads(t) PROVE Paid'
    <2>1. spent'["reset"] # 0
        BY <1>0, <1>1, <1>10 DEF ResetReads
    <2> QED BY <1>0, <1>10, <2>1 DEF ResetReads, Paid
<1>11. ASSUME NEW t \in Tasks, ResetWrites(t) PROVE Paid'
    <2>1. \A u \in Tasks : reset'[u] # "none" => reset[u] # "none"
        BY <1>0, <1>11 DEF ResetWrites, CallerTypes
    <2> QED BY <1>0, <1>11, <2>1 DEF ResetWrites, Paid
<1>12. ASSUME NEW t \in Tasks, OperatorDeletes(t) PROVE Paid'
    <2>1. spent'["delete"] # 0
        BY <1>0, <1>1, <1>12 DEF OperatorDeletes
    <2> QED BY <1>0, <1>12, <2>1 DEF OperatorDeletes, DeleteReads, Paid
<1>13. ASSUME NEW t \in Tasks, PurgeDeletes(t) PROVE Paid'
    <2>1. spent["purge"] # 0 /\ spent' = spent /\ purge'.at = purge.at
        BY <1>0, <1>13 DEF PurgeDeletes, Paid, PassTypes
    <2> QED BY <1>0, <1>13, <2>1 DEF PurgeDeletes, DeleteReads, Paid
<1>14. ASSUME NEW t \in Tasks, DeleteWrites(t) PROVE Paid'
    <2>1. \A u \in Tasks : delete'[u][1] # "none" => delete[u][1] # "none"
        BY <1>0, <1>14 DEF DeleteWrites, CallerTypes
    <2> QED BY <1>0, <1>14, <2>1 DEF DeleteWrites, Paid
<1>15. ASSUME NEW t \in Tasks, PurgeReads(t) PROVE Paid'
    <2>1. purge'.at = purge.at
        BY <1>0, <1>15 DEF PurgeReads, PassTypes
    <2> QED BY <1>0, <1>15, <2>1 DEF PurgeReads, Paid
<1>16. ASSUME NEW t \in Tasks, RebuildReads(t) PROVE Paid'
    <2>1. rebuild.at = "walk" /\ rebuild'.at = "walk" /\ rebuild'.start = rebuild.start
        BY <1>0, <1>16 DEF RebuildReads, PassTypes
    <2> QED BY <1>0, <1>16, <2>1 DEF RebuildReads, Paid
<1>17. ASSUME NEW w, RebuildIndexes(w) PROVE Paid'
    <2>1. rebuild.at = "walk" /\ rebuild'.at = "walk" /\ rebuild'.start = rebuild.start
        BY <1>0, <1>17 DEF RebuildIndexes, PassTypes
    <2> QED BY <1>0, <1>17, <2>1 DEF RebuildIndexes, Paid
<1>18. ASSUME PurgeBegins \/ PurgeEnds PROVE Paid'
    <2>1. purge'.at = "walk" => spent'["purge"] # 0
        BY <1>0, <1>1, <1>18 DEF PurgeBegins, PurgeEnds, Idle
    <2> QED BY <1>0, <1>18, <2>1 DEF PurgeBegins, PurgeEnds, Paid
<1>19. ASSUME RebuildBegins PROVE Paid'
    <2>1. spent'["rebuild"] # 0
        BY <1>0, <1>1, <1>19 DEF RebuildBegins
    <2>2. rebuild'.at = "walk" /\ rebuild'.start = now
        BY <1>19 DEF RebuildBegins
    <2> QED BY <1>0, <1>19, <2>1, <2>2 DEF RebuildBegins, Paid
<1>20. ASSUME RebuildEnds PROVE Paid'
    BY <1>0, <1>20 DEF RebuildEnds, Paid, Idle
<1>21. ASSUME \/ AskIndex \/ MarkBuilt \/ UNCHANGED vars \/ (\E q \in Scopes : ReadIndex(q))
       PROVE  Paid'
    BY <1>2, <1>21 DEF AskIndex, MarkBuilt, ReadIndex, vars
<1>22. ASSUME Tick PROVE Paid'
    <2>1. rebuild.start \in Nat /\ rebuild.start <= now
        BY <1>0 DEF PassTypes, Paid
    <2>2. now' = now + 1 /\ UNCHANGED <<run, giveup, reset, delete, purge, rebuild, spent>>
        BY <1>22 DEF Tick
    <2>3. rebuild'.start <= now'
        BY <1>0, <2>1, <2>2
    <2> QED BY <1>0, <2>2, <2>3 DEF Paid
<1> HIDE DEF jobs, store
<1> QED BY <1>3, <1>4, <1>6, <1>7, <1>8, <1>9, <1>10, <1>11, <1>12, <1>13, <1>14, <1>15,
           <1>16, <1>17, <1>18, <1>19, <1>20, <1>21, <1>22 DEF Next

(* A result leaves the set of results only when its hash is gone.          *)
LEMMA ResultsStay ==
    ASSUME IndexInv, [Next]_vars, NEW t \in Tasks, t \in results, Stored(t)'
    PROVE  t \in results'
<1> USE DEF jobs, store
<1>1. ASSUME NEW u \in Tasks, NEW due, Enqueue(u, due) PROVE t \in results'
    BY <1>1 DEF Enqueue
<1>2. ASSUME NEW u \in Tasks, PurgeReads(u) \/ RebuildReads(u) PROVE t \in results'
    <2>1. hash' = hash /\ (results' = results \/ (~Stored(u) /\ results' = results \ {u}))
        BY <1>2 DEF PurgeReads, RebuildReads
    <2> QED BY <2>1 DEF Stored
<1>3. ASSUME NEW u \in Tasks, DeleteWrites(u) PROVE t \in results'
    <2>1. hash' = [hash EXCEPT ![u] = NoHash] /\ results' = results \ {u}
        BY <1>3 DEF DeleteWrites
    <2>2. hash \in [Tasks -> Hash]
        BY DEF IndexInv, StoreTypes
    <2>3. t # u
        BY <2>1, <2>2 DEF Stored, NoHash
    <2> QED BY <2>1, <2>3
<1>4. ASSUME NEW u \in Tasks,
             \/ Claim(u) \/ HandBack(u) \/ GiveUp(u) \/ GiveUpReads(u) \/ GiveUpRecords(u)
             \/ ResetReads(u) \/ ResetWrites(u) \/ OperatorDeletes(u) \/ PurgeDeletes(u)
      PROVE  t \in results'
    BY <1>4 DEF Claim, HandBack, GiveUp, GiveUpReads, GiveUpRecords, ResetReads,
       ResetWrites, OperatorDeletes, DeleteReads, PurgeDeletes
<1>5. ASSUME NEW r \in Run, Succeed(r) \/ ReadBack(r) \/ Fail(r) \/ Die(r)
      PROVE  t \in results'
    BY <1>5 DEF Succeed, ReadBack, Fail, Die
<1>6. ASSUME \/ AskIndex \/ MarkBuilt \/ PurgeBegins \/ PurgeEnds \/ RebuildBegins
             \/ RebuildEnds \/ Tick \/ UNCHANGED vars
             \/ (\E w \in rebuild.read : RebuildIndexes(w))
             \/ (\E q \in Scopes : ReadIndex(q))
      PROVE  t \in results'
    BY <1>6 DEF AskIndex, MarkBuilt, PurgeBegins, PurgeEnds, RebuildBegins, RebuildEnds,
       Tick, RebuildIndexes, ReadIndex, vars
<1> HIDE DEF jobs, store
<1> QED BY <1>1, <1>2, <1>3, <1>4, <1>5, <1>6 DEF Next

(* The times of a hash are in the past; one that has the fields of its     *)
(* enqueue is among the results; one that has not has ended, unless reset. *)
TimesOf(t) ==
    /\ Full(t) => t \in results /\ hash[t].enqueued # Never /\ Stored(t)
    /\ hash[t].enqueued <= now /\ hash[t].tried <= now /\ hash[t].done <= now
    /\ hash[t].status = "RUNNING" => hash[t].tried # Never
    /\ Without({"reset"}) /\ Stored(t) /\ ~Full(t) => hash[t].status \in Finished

Times == \A t \in Tasks : TimesOf(t)

LEMMA NoHashTimes ==
    ASSUME NEW t, now \in Nat, hash[t] = NoHash
    PROVE  TimesOf(t)
BY DEF TimesOf, NoHash, Full, Stored, Never

LEMMA TimesInit == Init => Times
<1> SUFFICES ASSUME Init, NEW t \in Tasks PROVE TimesOf(t)
    BY DEF Times
<1>1. PICK status \in [Legacy -> {"READY", "FAILED"}] :
          hash = [u \in Tasks |-> IF u \in Legacy THEN LegacyHash(status[u]) ELSE NoHash]
    BY DEF Init
<1>2. now = 0 /\ results = Legacy
    BY DEF Init
<1>3. CASE t \notin Legacy
    BY <1>1, <1>2, <1>3, NoHashTimes
<1>4. CASE t \in Legacy
    <2>1. hash[t] = LegacyHash(status[t]) /\ status[t] \in {"READY", "FAILED"}
        BY <1>1, <1>4
    <2>2. /\ hash[t].status = status[t] /\ hash[t].full /\ hash[t].enqueued = 0
          /\ hash[t].tried \in {0, Never} /\ hash[t].done \in {0, Never}
        BY <2>1 DEF LegacyHash
    <2> QED BY <1>2, <1>4, <2>1, <2>2 DEF TimesOf, Full, Stored, Never
<1> QED BY <1>3, <1>4

LEMMA TimesStep == IndexInv /\ Paid /\ Times /\ [Next]_vars => Times'
<1> SUFFICES ASSUME IndexInv, Paid, Times, [Next]_vars, NEW t \in Tasks PROVE TimesOf(t)'
    BY DEF Times
<1>0. /\ hash \in [Tasks -> Hash] /\ StoreTypes /\ now \in Nat /\ TimesOf(t)
      /\ hash[t] \in Hash /\ hash' \in [Tasks -> Hash]
      /\ Stored(t)' /\ t \in results => t \in results'
    BY ResultsStay, SetupTypes, StoreTypesStep DEF IndexInv, StoreTypes, Times
<1>1. Without({"reset"})' => Without({"reset"})
    BY WithoutBefore DEF Kinds
<1>2. ASSUME hash'[t] = hash[t], now' = now PROVE TimesOf(t)'
    BY <1>0, <1>1, <1>2 DEF TimesOf, Full, Stored
<1>3. CASE Same
    BY <1>2, <1>3 DEF Same
<1>4. ASSUME NEW u \in Tasks, NEW q, NEW score, Writes(u, q, score)
      PROVE  /\ u # t => hash'[t] = hash[t]
             /\ now' = now /\ hash'[u].status \in Statuses
    BY <1>4 DEF Writes, Stores
<1>5. ASSUME NEW u \in Tasks, NEW due \in Nat \cup {Never}, Enqueue(u, due)
      PROVE  TimesOf(t)'
    <2>1. CASE u # t
        BY <1>2, <1>4, <1>5, <2>1, EnqueueShape
    <2>2. CASE u = t
        <3>1. /\ hash'[t].status = "READY" /\ hash'[t].full /\ hash'[t].enqueued = now
              /\ hash'[t].tried = Never /\ hash'[t].done = Never /\ now' = now
            BY <1>4, <1>5, <2>2, EnqueueShape
        <3>2. t \in results'
            BY <1>5, <2>2 DEF Enqueue
        <3> QED BY <1>0, <3>1, <3>2 DEF TimesOf, Full, Stored, Never
    <2> QED BY <2>1, <2>2
<1>6. ASSUME NEW u \in Tasks, Claim(u) PROVE TimesOf(t)'
    <2>1. CASE u # t
        BY <1>2, <1>4, <1>6, <2>1, ClaimShape
    <2>2. CASE u = t
        <3>1. /\ hash'[t].status = "RUNNING" /\ hash'[t].full = hash[t].full
              /\ hash'[t].enqueued = hash[t].enqueued /\ hash'[t].tried = now
              /\ hash'[t].done = hash[t].done /\ now' = now
            BY <1>4, <1>6, <2>2, ClaimShape DEF SameFields
        <3>2. Full(t) /\ Stored(t)'
            BY <1>6, <2>2, <3>1 DEF Claim, Stored
        <3> QED BY <1>0, <3>1, <3>2 DEF TimesOf, Full, Stored, Never
    <2> QED BY <2>1, <2>2
<1>7. ASSUME NEW u \in Tasks, HandBack(u) \/ GiveUp(u) PROVE TimesOf(t)'
    <2>0. /\ Writes(u, QueueOf[u], now) /\ SameTimes(u) /\ hash'[u].status # "RUNNING"
          /\ Full(u)
        BY <1>7, HandBackShape, GiveUpShape
    <2>1. CASE u # t
        BY <1>2, <1>4, <2>0, <2>1
    <2>2. CASE u = t
        <3>1. Stored(t)' /\ now' = now
            BY <1>4, <2>0, <2>2 DEF Stored, Statuses, Finished
        <3> QED BY <1>0, <2>0, <2>2, <3>1 DEF TimesOf, SameTimes, SameFields, Full, Stored
    <2> QED BY <2>1, <2>2
<1>8. ASSUME NEW u \in Tasks, ResetWrites(u) PROVE TimesOf(t)'
    <2>1. CASE u # t
        BY <1>2, <1>4, <1>8, <2>1, ResetShape
    <2>2. CASE u = t
        <3>1. /\ hash'[t].status = "READY" /\ hash'[t].full = hash[t].full
              /\ hash'[t].enqueued = hash[t].enqueued /\ hash'[t].tried = hash[t].tried
              /\ hash'[t].done = Never /\ now' = now
            BY <1>4, <1>8, <2>2, ResetShape DEF SameFields
        <3>2. ~Without({"reset"})
            BY <1>8, <2>2 DEF ResetWrites, Paid, Without
        <3>3. Stored(t)'
            BY <3>1 DEF Stored
        <3> QED BY <1>0, <1>1, <3>1, <3>2, <3>3 DEF TimesOf, Full, Never
    <2> QED BY <2>1, <2>2
<1>9. ASSUME NEW u \in Tasks, NEW q \in Scopes, Finishing(u, q) PROVE TimesOf(t)'
    <2>1. CASE u # t
        BY <1>2, <1>4, <1>9, <2>1 DEF Finishing
    <2>2. CASE u = t
        <3>1. /\ hash'[t].status \in Finished /\ hash'[t].full = hash[t].full
              /\ hash'[t].enqueued = hash[t].enqueued /\ hash'[t].tried = hash[t].tried
              /\ hash'[t].done = now /\ now' = now
            BY <1>4, <1>9, <2>2 DEF Finishing, Ended, SameFields
        <3>2. Stored(t)' /\ hash'[t].status # "RUNNING"
            BY <3>1 DEF Stored, Finished
        <3> QED BY <1>0, <3>1, <3>2 DEF TimesOf, Full
    <2> QED BY <2>1, <2>2
<1>10. ASSUME NEW u \in Tasks, DeleteWrites(u) PROVE TimesOf(t)'
    <2>1. hash' = [hash EXCEPT ![u] = NoHash] /\ now' = now
        BY <1>10 DEF DeleteWrites
    <2>2. CASE u # t
        BY <1>0, <1>2, <2>1, <2>2
    <2>3. CASE u = t
        <3>1. hash'[t] = NoHash /\ now' \in Nat
            BY <1>0, <2>1, <2>3
        <3> QED BY <3>1 DEF TimesOf, NoHash, Full, Stored, Never
    <2> QED BY <2>2, <2>3
<1>11. ASSUME NEW w, RebuildIndexes(w) PROVE TimesOf(t)'
    BY <1>2, <1>11 DEF RebuildIndexes
<1>12. ASSUME NEW q, ReadIndex(q) PROVE TimesOf(t)'
    BY <1>2, <1>12 DEF ReadIndex
<1>13. ASSUME Tick PROVE TimesOf(t)'
    <2>1. /\ now' = now + 1
          /\ hash'[t] = hash[t] \/ hash'[t] = NoHash
        BY <1>13 DEF Tick
    <2>2. CASE hash'[t] = NoHash
        <3>1. now' \in Nat
            BY <1>0, <2>1
        <3> QED BY <2>2, <3>1 DEF TimesOf, NoHash, Full, Stored, Never
    <2>3. CASE hash'[t] = hash[t]
        <3>1. /\ hash[t].enqueued <= now' /\ hash[t].tried <= now' /\ hash[t].done <= now'
            BY <1>0, <2>1 DEF TimesOf, Hash, Never
        <3> QED BY <1>0, <1>1, <2>3, <3>1 DEF TimesOf, Full, Stored
    <2> QED BY <2>1, <2>2, <2>3
<1> QED BY <1>3, <1>5, <1>6, <1>7, <1>8, <1>9, <1>10, <1>11, <1>12, <1>13, StepKinds

-----------------------------------------------------------------------------
(* A task that finishes once                                               *)

(* Nobody runs a task again that has run, but for a hand-back to a single  *)
(* worker: the condition of FinishesOnce when the index is rebuilt.        *)
Calm ==
    /\ Without({"reset", "retry", "giveup"})
    /\ Without({"handback"}) \/ setup.runs = 1

Active(r, t) == run[r].at # "none" /\ run[r].task = t

(* The TTL of a hash: from the time the task is due, then from its end.    *)
CalmHash(t) ==
    /\ hash[t].status \in {"READY", "RUNNING"} /\ ResultTtl > 0
          => hash[t].expires = Wait(t) + ResultTtl
    /\ hash[t].status = "RUNNING" /\ ~EarlyTriggers => hash[t].tried >= Wait(t)
    /\ hash[t].status \in Finished
          => hash[t].done # Never
             /\ (CompletedTtl > 0 => hash[t].expires = hash[t].done + CompletedTtl)

(* A task has one run, and when it has finished that run is over or reads  *)
(* the result back.                                                        *)
CalmRun(r, t) ==
    Active(r, t) =>
        /\ run[r].at = "runs" => hash[t].status \notin Finished
        /\ run[r].at = "reports" => hash[t].status \in {"SUCCESSFUL", "none"}
        /\ Without({"handback"}) => hash[t].status # "READY"
        /\ \A q \in Run : Active(q, t) => q = r

(* What a rebuild has read stays true of the task for as long as it has    *)
(* that status, or gets it again.                                          *)
CalmRead(w) ==
    /\ w.status \in Finished =>
          /\ hash[w.task].status \in Done
          /\ w.status = hash[w.task].status => w.since = hash[w.task].done
    /\ w.status = "SUCCESSFUL" => \A r \in Run : Active(r, w.task) => run[r].at = "reports"
    /\ w.status = "FAILED" => \A r \in Run : ~Active(r, w.task)
    /\ w.status = "READY" /\ Full(w.task) => w.since = Wait(w.task)
    /\ w.status = "RUNNING" /\ Full(w.task) /\ ~EarlyTriggers => w.since >= Wait(w.task)

CalmInv ==
    Calm =>
        /\ \A t \in Tasks : CalmHash(t)
        /\ \A r \in Run, t \in Tasks : CalmRun(r, t)
        /\ \A w \in rebuild.read : CalmRead(w)

LEMMA CalmBefore ==
    ASSUME IndexInv, [Next]_vars, Calm'
    PROVE  /\ Calm /\ spent'["retry"] = spent["retry"] /\ spent["retry"] = 0
           /\ spent'["reset"] = spent["reset"] /\ spent["reset"] = 0
           /\ spent'["giveup"] = spent["giveup"] /\ spent["giveup"] = 0
           /\ Without({"handback"})' => Without({"handback"})
           /\ Without({"reset"})
<1>1. {"reset", "retry", "giveup"} \in SUBSET Kinds /\ {"handback"} \in SUBSET Kinds
    BY DEF Kinds
<1>2. /\ Without({"reset", "retry", "giveup"})
      /\ \A k \in {"reset", "retry", "giveup"} : spent'[k] = spent[k]
    BY <1>1, WithoutBefore DEF Calm
<1>3. Without({"handback"})' => Without({"handback"})
    BY <1>1, WithoutBefore
<1>4. setup' = setup
    BY StepShapes
<1> QED BY <1>2, <1>3, <1>4 DEF Calm, Without

LEMMA CalmInit == Init => CalmInv
<1> SUFFICES ASSUME Init PROVE CalmInv
    OBVIOUS
<1>1. PICK status \in [Legacy -> {"READY", "FAILED"}] :
          hash = [u \in Tasks |-> IF u \in Legacy THEN LegacyHash(status[u]) ELSE NoHash]
    BY DEF Init
<1>2. ASSUME NEW t \in Tasks PROVE CalmHash(t)
    <2>0. setup \in Setups /\ ResultTtl \in Nat /\ CompletedTtl \in Nat
        BY SetupTypes DEF Init
    <2>1. CASE t \notin Legacy
        BY <1>1, <2>1 DEF CalmHash, NoHash, Finished
    <2>2. CASE t \in Legacy /\ status[t] = "READY"
        <3>1. /\ hash[t].status = "READY" /\ hash[t].enqueued = 0 /\ hash[t].due = Never
              /\ ResultTtl > 0 => hash[t].expires = ResultTtl
            BY <1>1, <2>0, <2>2 DEF LegacyHash, Ttl, Finished
        <3>2. Wait(t) = 0
            BY <3>1 DEF Wait, Later, Never
        <3> QED BY <2>0, <3>1, <3>2 DEF CalmHash, Finished
    <2>3. CASE t \in Legacy /\ status[t] = "FAILED"
        <3>1. /\ hash[t].status = "FAILED" /\ hash[t].done = 0
              /\ CompletedTtl > 0 => hash[t].expires = CompletedTtl
            BY <1>1, <2>0, <2>3 DEF LegacyHash, Ttl, Finished
        <3> QED BY <2>0, <3>1 DEF CalmHash, Never
    <2> QED BY <2>1, <2>2, <2>3
<1>3. rebuild.read = {} /\ \A r \in Run : run[r].at = "none"
    BY DEF Init, Idle
<1> QED BY <1>2, <1>3 DEF CalmInv, CalmRun, Active

LEMMA WaitSame ==
    ASSUME NEW t, SameFields(t)
    PROVE  Wait(t)' = Wait(t) /\ Full(t)' = Full(t)
BY DEF SameFields, Wait, Full

LEMMA CalmHashStep ==
    ASSUME IndexInv, Paid, Times, CalmInv, [Next]_vars, Calm', NEW t \in Tasks
    PROVE  CalmHash(t)'
<1>0. /\ StoreTypes /\ now \in Nat /\ CalmHash(t) /\ TimesOf(t) /\ hash[t] \in Hash
      /\ hash \in [Tasks -> Hash] /\ Calm /\ spent["retry"] = 0 /\ spent'["retry"] = 0
      /\ spent["giveup"] = 0 /\ spent'["giveup"] = 0
      /\ spent["reset"] = 0 /\ spent \in [Kinds -> Nat]
      /\ ResultTtl \in Nat /\ CompletedTtl \in Nat
      /\ ResultTtl' = ResultTtl /\ CompletedTtl' = CompletedTtl
      /\ EarlyTriggers' = EarlyTriggers
    BY CalmBefore, SetupTypes, StepShapes DEF IndexInv, StoreTypes, CallerTypes, CalmInv,
       Times, ResultTtl, CompletedTtl, EarlyTriggers
<1>1. ASSUME hash'[t] = hash[t] PROVE CalmHash(t)'
    BY <1>0, <1>1 DEF CalmHash, Wait
<1>2. ASSUME hash'[t] = NoHash PROVE CalmHash(t)'
    BY <1>2 DEF CalmHash, NoHash, Finished
<1>3. ASSUME NEW u \in Tasks, NEW q, NEW score, Writes(u, q, score), u # t
      PROVE  CalmHash(t)'
    BY <1>1, <1>3 DEF Writes, Stores
<1>4. ASSUME NEW u \in Tasks, NEW due \in Nat \cup {Never}, Enqueue(u, due)
      PROVE  CalmHash(t)'
    <2>1. CASE u # t
        <3>1. Writes(u, QueueOf[u], Later(now, due))
            BY <1>4, EnqueueShape
        <3> QED BY <1>3, <2>1, <3>1
    <2>2. CASE u = t
        <3>1. /\ hash'[t].status = "READY" /\ hash'[t].enqueued = now /\ hash'[t].due = due
              /\ hash'[t].expires = WaitingExpiry(due)
            BY <1>4, <2>2, EnqueueShape
        <3>2. Wait(t)' = Later(now, due)
            BY <3>1 DEF Wait
        <3> QED BY <1>0, <3>1, <3>2 DEF CalmHash, WaitingExpiry, Finished
    <2> QED BY <2>1, <2>2
<1>5. ASSUME NEW u \in Tasks, Claim(u) PROVE CalmHash(t)'
    <2>1. CASE u # t
        BY <1>3, <1>5, <2>1, ClaimShape
    <2>2. CASE u = t
        <3>1. /\ hash'[t].status = "RUNNING" /\ Wait(t)' = Wait(t)
              /\ hash'[t].tried = now /\ hash'[t].expires = hash[t].expires
            BY <1>5, <2>2, ClaimShape, WaitSame
        <3>2. hash[t].status = "READY"
            BY <1>0, <1>5, <2>2 DEF Claim, Kinds
        <3>3. ~EarlyTriggers => hash[t].due <= now
            BY <1>5, <2>2 DEF Claim
        <3>4. ~EarlyTriggers => Wait(t) <= now
            BY <1>0, <3>3 DEF TimesOf, Wait, Later
        <3> QED BY <1>0, <3>1, <3>2, <3>4 DEF CalmHash, Finished
    <2> QED BY <2>1, <2>2
<1>6. ASSUME NEW u \in Tasks, HandBack(u) PROVE CalmHash(t)'
    <2>1. CASE u # t
        BY <1>3, <1>6, <2>1, HandBackShape
    <2>2. CASE u = t
        <3>1. /\ hash'[t].status = "READY" /\ SameTimes(t) /\ hash[t].status = "RUNNING"
            BY <1>6, <2>2, HandBackShape
        <3>2. Wait(t)' = Wait(t) /\ hash'[t].expires = hash[t].expires
            BY <3>1, WaitSame DEF SameTimes
        <3> QED BY <1>0, <3>1, <3>2 DEF CalmHash, Finished
    <2> QED BY <2>1, <2>2
<1>7. ASSUME NEW u \in Tasks, GiveUp(u) \/ ResetWrites(u) PROVE FALSE
    <2>1. CASE GiveUp(u)
        BY <1>0, <2>1 DEF GiveUp, Spend, Kinds
    <2>2. CASE ResetWrites(u)
        BY <1>0, <2>2 DEF ResetWrites, Paid
    <2> QED BY <1>7, <2>1, <2>2
<1>8. ASSUME NEW u \in Tasks, NEW q \in Scopes, Finishing(u, q) PROVE CalmHash(t)'
    <2>1. CASE u # t
        BY <1>3, <1>8, <2>1 DEF Finishing
    <2>2. CASE u = t
        <3>1. /\ hash'[t].status \in Finished /\ hash'[t].done = now
              /\ hash'[t].expires = CompletedExpiry(t)
            BY <1>8, <2>2 DEF Finishing, Ended
        <3> QED BY <1>0, <3>1 DEF CalmHash, CompletedExpiry, Finished, Never
    <2> QED BY <2>1, <2>2
<1>9. ASSUME NEW u \in Tasks, DeleteWrites(u) PROVE CalmHash(t)'
    <2>1. hash' = [hash EXCEPT ![u] = NoHash]
        BY <1>9 DEF DeleteWrites
    <2> QED BY <1>0, <1>1, <1>2, <2>1
<1>10. ASSUME Tick PROVE CalmHash(t)'
    BY <1>1, <1>2, <1>10 DEF Tick
<1>11. ASSUME Same \/ (\E w \in rebuild.read : RebuildIndexes(w)) \/ (\E q \in Scopes : ReadIndex(q))
       PROVE  CalmHash(t)'
    BY <1>1, <1>11 DEF Same, RebuildIndexes, ReadIndex
<1> QED BY <1>4, <1>5, <1>6, <1>7, <1>8, <1>9, <1>10, <1>11, StepKinds

LEMMA CalmRunStep ==
    ASSUME IndexInv, Paid, CalmInv, [Next]_vars, Calm', NEW r \in Run, NEW t \in Tasks
    PROVE  CalmRun(r, t)'
<1> USE DEF jobs, store
<1>0. /\ hash \in [Tasks -> Hash] /\ CallerTypes
      /\ Calm /\ spent["retry"] = 0 /\ spent'["retry"] = 0
      /\ spent["giveup"] = 0 /\ spent'["giveup"] = 0 /\ spent["reset"] = 0
      /\ Without({"handback"})' => Without({"handback"})
      /\ \A q \in Run, u \in Tasks : CalmRun(q, u)
      /\ spent \in [Kinds -> Nat]
    BY CalmBefore DEF IndexInv, StoreTypes, CallerTypes, CalmInv
<1>1. ASSUME \A q \in Run : Active(q, t)' => Active(q, t) /\ run'[q].at = run[q].at,
             hash'[t].status \in {hash[t].status, "none"}
      PROVE  CalmRun(r, t)'
    BY <1>0, <1>1 DEF CalmRun, Finished
<1>2. ASSUME run' = run, hash'[t].status \in {hash[t].status, "none"} PROVE CalmRun(r, t)'
    BY <1>1, <1>2 DEF Active
<1>3. ASSUME NEW u \in Tasks, NEW q, NEW score, Writes(u, q, score), u # t
      PROVE  hash'[t].status \in {hash[t].status, "none"}
    BY <1>3 DEF Writes, Stores
<1>4. ASSUME NEW u \in Tasks, NEW due \in Nat \cup {Never}, Enqueue(u, due)
      PROVE  CalmRun(r, t)'
    <2>0. Writes(u, QueueOf[u], Later(now, due)) /\ u \notin ids /\ run' = run
        BY <1>4, EnqueueShape DEF Enqueue
    <2>1. CASE u # t
        BY <1>2, <1>3, <2>0, <2>1
    <2>2. CASE u = t
        <3>1. ~Active(r, t)
            BY <2>0, <2>2 DEF Active, IndexInv, Known
        <3> QED BY <2>0, <3>1 DEF CalmRun, Active
    <2> QED BY <2>1, <2>2
<1>5. ASSUME NEW u \in Tasks, Claim(u) PROVE CalmRun(r, t)'
    <2>1. PICK p \in Run : /\ p <= setup.runs /\ run[p].at = "none"
                           /\ run' = [run EXCEPT ![p] = [task |-> u, at |-> "runs"]]
        BY <1>5 DEF Claim
    <2>2. run'[p] = [task |-> u, at |-> "runs"] /\ \A q \in Run \ {p} : run'[q] = run[q]
        BY <1>0, <2>1 DEF CallerTypes
    <2>3. Writes(u, QueueOf[u], now) /\ hash'[u].status = "RUNNING"
        BY <1>5, ClaimShape
    <2>4. CASE u # t
        <3>1. \A q \in Run : Active(q, t)' => Active(q, t) /\ run'[q].at = run[q].at
            BY <2>2, <2>4 DEF Active
        <3> QED BY <1>1, <1>3, <2>3, <2>4, <3>1
    <2>5. CASE u = t
        <3>1. hash[t].status = "READY"
            BY <1>0, <1>5, <2>5 DEF Claim, Kinds
        <3>2. CASE Without({"handback"})
            <4>1. \A q \in Run : ~Active(q, t)
                BY <1>0, <3>1, <3>2 DEF CalmRun
            <4>2. \A q \in Run : Active(q, t)' => q = p
                BY <2>2, <4>1 DEF Active
            <4> QED BY <2>2, <2>3, <2>5, <4>2 DEF CalmRun, Finished
        <3>3. CASE ~Without({"handback"})
            <4>1. setup.runs = 1
                BY <1>0, <3>3 DEF Calm
            <4>2. \A q \in Run : run[q].at # "none" => q = p
                BY <2>1, <4>1 DEF Paid, Run
            <4>3. \A q \in Run : Active(q, t)' => q = p
                BY <2>2, <4>2 DEF Active
            <4> QED BY <2>2, <2>3, <2>5, <4>3 DEF CalmRun, Finished
        <3> QED BY <3>2, <3>3
    <2> QED BY <2>4, <2>5
<1>6. ASSUME NEW u \in Tasks, HandBack(u) PROVE CalmRun(r, t)'
    <2>0. /\ Writes(u, QueueOf[u], now) /\ hash'[u].status = "READY" /\ run' = run
          /\ hash[u].status = "RUNNING"
        BY <1>6, HandBackShape DEF HandBack
    <2>1. CASE u # t
        BY <1>2, <1>3, <2>0, <2>1
    <2>2. CASE u = t
        <3>1. ~Without({"handback"})'
            <4>1. spent'["handback"] = spent["handback"] + 1
                BY <1>0, <1>6 DEF HandBack, Spend, Kinds
            <4>2. spent["handback"] \in Nat
                BY <1>0 DEF Kinds
            <4> QED BY <4>1, <4>2 DEF Without
        <3> QED BY <1>0, <2>0, <2>2, <3>1 DEF CalmRun, Active, Finished
    <2> QED BY <2>1, <2>2
<1>7. ASSUME NEW u \in Tasks, GiveUp(u) \/ ResetReads(u) \/ ResetWrites(u) PROVE CalmRun(r, t)'
    <2>1. CASE GiveUp(u)
        BY <1>0, <2>1 DEF GiveUp, Spend, Kinds
    <2>2. CASE ResetWrites(u)
        BY <1>0, <2>2 DEF ResetWrites, Paid
    <2>3. CASE ResetReads(u)
        BY <1>2, <2>3 DEF ResetReads
    <2> QED BY <1>7, <2>1, <2>2, <2>3
<1>8. ASSUME NEW u \in Tasks, GiveUpReads(u) \/ GiveUpRecords(u) PROVE FALSE
    BY <1>0, <1>8 DEF GiveUpReads, GiveUpRecords, Paid
<1>9. ASSUME NEW p \in Run, NEW at, run[p].at # "none", run' = [run EXCEPT ![p].at = at]
      PROVE  /\ run'[p].task = run[p].task /\ run'[p].at = at
             /\ \A q \in Run \ {p} : run'[q] = run[q]
             /\ \A q \in Run : run[p].task = t /\ Active(q, t) => q = p
    <2>1. run[p] \in [task : Tasks, at : {"none", "runs", "reports"}]
        BY <1>0, <1>9 DEF CallerTypes
    <2>2. /\ run'[p].task = run[p].task /\ run'[p].at = at
          /\ \A q \in Run \ {p} : run'[q] = run[q]
        BY <1>0, <1>9, <2>1 DEF CallerTypes
    <2>3. \A q \in Run : run[p].task = t /\ Active(q, t) => q = p
        BY <1>0, <1>9 DEF CalmRun, Active
    <2> QED BY <2>2, <2>3
<1>10. ASSUME NEW p \in Run, Succeed(p) PROVE CalmRun(r, t)'
    <2>0. /\ Writes(run[p].task, QueueOf[run[p].task], now) /\ run[p].task \in Tasks
          /\ hash'[run[p].task].status = "SUCCESSFUL" /\ run[p].at # "none"
          /\ run' = [run EXCEPT ![p].at = "reports"]
        BY <1>10, SucceedShape DEF Succeed
    <2>1. CASE run[p].task # t
        <3>1. \A q \in Run : Active(q, t)' => Active(q, t) /\ run'[q].at = run[q].at
            BY <1>9, <2>0, <2>1 DEF Active
        <3> QED BY <1>1, <1>3, <2>0, <2>1, <3>1
    <2>2. CASE run[p].task = t
        <3>1. run'[p].at = "reports" /\ \A q \in Run \ {p} : run'[q] = run[q]
            BY <1>9, <2>0
        <3>2. \A q \in Run : Active(q, t) => q = p
            BY <1>9, <2>0, <2>2
        <3>3. \A q \in Run : Active(q, t)' => q = p
            BY <3>1, <3>2 DEF Active
        <3> QED BY <2>0, <2>2, <3>1, <3>3 DEF CalmRun
    <2> QED BY <2>1, <2>2
<1>11. ASSUME NEW p \in Run, run[p].at # "none", run' = [run EXCEPT ![p].at = "none"],
              hash'[t].status \in {hash[t].status, "none"} \/ run[p].task = t
       PROVE  CalmRun(r, t)'
    <2>1. CASE run[p].task # t
        <3>1. \A q \in Run : Active(q, t)' => Active(q, t) /\ run'[q].at = run[q].at
            BY <1>9, <1>11, <2>1 DEF Active
        <3> QED BY <1>1, <1>11, <2>1, <3>1
    <2>2. CASE run[p].task = t
        <3>1. run'[p].at = "none" /\ \A q \in Run \ {p} : run'[q] = run[q]
            BY <1>9, <1>11
        <3>2. \A q \in Run : Active(q, t) => q = p
            BY <1>9, <1>11, <2>2
        <3>3. \A q \in Run : ~Active(q, t)'
            BY <3>1, <3>2 DEF Active
        <3> QED BY <3>3 DEF CalmRun
    <2> QED BY <2>1, <2>2
<1>12. ASSUME NEW p \in Run, ReadBack(p) PROVE CalmRun(r, t)'
    <2>1. CASE Full(run[p].task)
        BY <1>11, <1>12, <2>1 DEF ReadBack
    <2>2. CASE ~Full(run[p].task)
        BY <1>3, <1>11, <1>12, <2>2, ReadBackShape DEF ReadBack
    <2> QED BY <2>1, <2>2
<1>13. ASSUME NEW p \in Run, Fail(p) PROVE CalmRun(r, t)'
    BY <1>3, <1>11, <1>13, FailShape DEF Fail
<1>14. ASSUME NEW p \in Run, Die(p) PROVE CalmRun(r, t)'
    BY <1>11, <1>14 DEF Die
<1>15. ASSUME NEW u \in Tasks, DeleteWrites(u) PROVE CalmRun(r, t)'
    <2>1. hash' = [hash EXCEPT ![u] = NoHash] /\ run' = run
        BY <1>15 DEF DeleteWrites
    <2>2. hash'[t].status \in {hash[t].status, "none"}
        BY <1>0, <2>1 DEF NoHash
    <2> QED BY <1>2, <2>1, <2>2
<1>16. ASSUME Tick PROVE CalmRun(r, t)'
    <2>1. run' = run /\ (hash'[t] = hash[t] \/ hash'[t] = NoHash)
        BY <1>16 DEF Tick
    <2> QED BY <1>2, <2>1 DEF NoHash
<1>17. ASSUME NEW u \in Tasks,
              OperatorDeletes(u) \/ PurgeReads(u) \/ PurgeDeletes(u) \/ RebuildReads(u)
       PROVE  CalmRun(r, t)'
    BY <1>2, <1>17 DEF OperatorDeletes, DeleteReads, PurgeReads, PurgeDeletes, RebuildReads
<1>18. ASSUME \/ AskIndex \/ MarkBuilt \/ PurgeBegins \/ PurgeEnds
              \/ RebuildBegins \/ RebuildEnds \/ UNCHANGED vars
              \/ (\E w \in rebuild.read : RebuildIndexes(w))
              \/ (\E q \in Scopes : ReadIndex(q))
       PROVE  CalmRun(r, t)'
    BY <1>2, <1>18 DEF AskIndex, MarkBuilt, PurgeBegins, PurgeEnds, RebuildBegins,
       RebuildEnds, RebuildIndexes, ReadIndex, vars
<1>19. setup.delays \subseteq Nat /\ now \in Nat
    BY SetupTypes DEF IndexInv, StoreTypes
<1>20. ASSUME NEW u \in Tasks, Enqueue(u, Never) PROVE CalmRun(r, t)'
    <2>1. Never \in Nat \cup {Never}
        OBVIOUS
    <2> QED BY <1>4, <1>20, <2>1
<1>21. ASSUME NEW u \in Tasks, NEW d \in setup.delays, Enqueue(u, now + d)
       PROVE  CalmRun(r, t)'
    <2>1. now + d \in Nat \cup {Never}
        BY <1>19
    <2> QED BY <1>4, <1>21, <2>1
<1> HIDE DEF jobs, store
<1> QED BY <1>5, <1>6, <1>7, <1>8, <1>10, <1>12, <1>13, <1>14, <1>15, <1>16, <1>17, <1>18,
           <1>20, <1>21 DEF Next

LEMMA CalmReadStep ==
    ASSUME IndexInv, Paid, Times, CalmInv, [Next]_vars, Calm', NEW w \in rebuild'.read
    PROVE  CalmRead(w)'
<1> USE DEF jobs, store
<1>0. /\ hash \in [Tasks -> Hash] /\ CallerTypes /\ PassTypes /\ PassTypes'
      /\ Calm /\ spent["retry"] = 0 /\ spent'["retry"] = 0
      /\ spent["giveup"] = 0 /\ spent'["giveup"] = 0 /\ spent["reset"] = 0
      /\ \A q \in Run, u \in Tasks : CalmRun(q, u)
      /\ \A u \in Tasks : CalmHash(u) /\ TimesOf(u)
      /\ \A v \in rebuild.read : CalmRead(v) /\ v.task \in Tasks /\ v.task \in ids
      /\ EarlyTriggers' = EarlyTriggers
      /\ w.task \in Tasks /\ w.status \in Statuses /\ w.since \in Nat
      /\ spent \in [Kinds -> Nat]
    <2>1. PassTypes'
        BY PassStep
    <2>2. w \in Reading
        BY <2>1 DEF PassTypes
    <2>3. EarlyTriggers' = EarlyTriggers
        BY StepShapes DEF EarlyTriggers
    <2> QED BY CalmBefore, <2>1, <2>2, <2>3
        DEF IndexInv, StoreTypes, CallerTypes, CalmInv, Times, Known, Reading
<1> DEFINE t == w.task
<1>1. ASSUME w \in rebuild.read, \A q \in Run : Active(q, t)' => Active(q, t) /\ run'[q].at = run[q].at,
             hash'[t] = hash[t] \/ hash'[t] = NoHash
      PROVE  CalmRead(w)'
    <2>1. CalmRead(w)
        BY <1>0, <1>1
    <2>2. CASE hash'[t] = hash[t]
        BY <1>0, <1>1, <2>1, <2>2 DEF CalmRead, Full, Wait
    <2>3. CASE hash'[t] = NoHash
        <3>1. hash'[t].status = "none" /\ ~Full(t)'
            BY <2>3 DEF NoHash, Full
        <3>2. "none" \in Done /\ w.status # "none"
            BY <1>0 DEF Done, Statuses, Finished
        <3> QED BY <1>1, <2>1, <3>1, <3>2 DEF CalmRead
    <2> QED BY <1>1, <2>2, <2>3
<1>2. ASSUME w \in rebuild.read, run' = run, hash'[t] = hash[t] \/ hash'[t] = NoHash
      PROVE  CalmRead(w)'
    BY <1>1, <1>2 DEF Active
<1>3. ASSUME NEW u \in Tasks, NEW q, NEW score, Writes(u, q, score), u # t
      PROVE  hash'[t] = hash[t]
    BY <1>0, <1>3 DEF Writes, Stores
<1>4. ASSUME NEW u \in Tasks, NEW due \in Nat \cup {Never}, Enqueue(u, due)
      PROVE  CalmRead(w)'
    <2>1. Writes(u, QueueOf[u], Later(now, due)) /\ u \notin ids
        BY <1>4, EnqueueShape
    <2>2. run' = run /\ w \in rebuild.read
        BY <1>4 DEF Enqueue
    <2>3. u # t
        BY <1>0, <2>1, <2>2
    <2> QED BY <1>2, <1>3, <2>1, <2>2, <2>3
<1>5. ASSUME NEW u \in Tasks, Claim(u) PROVE CalmRead(w)'
    <2>1. PICK p \in Run : /\ run[p].at = "none"
                           /\ run' = [run EXCEPT ![p] = [task |-> u, at |-> "runs"]]
        BY <1>5 DEF Claim
    <2>2. run'[p] = [task |-> u, at |-> "runs"] /\ \A q \in Run \ {p} : run'[q] = run[q]
        BY <1>0, <2>1 DEF CallerTypes
    <2>3. Writes(u, QueueOf[u], now) /\ hash'[u].status = "RUNNING" /\ SameFields(u)
        BY <1>5, ClaimShape
    <2>4. w \in rebuild.read /\ CalmRead(w)
        BY <1>0, <1>5 DEF Claim
    <2>5. CASE u # t
        <3>1. \A q \in Run : Active(q, t)' => Active(q, t) /\ run'[q].at = run[q].at
            BY <2>2, <2>5 DEF Active
        <3> QED BY <1>1, <1>3, <2>3, <2>4, <2>5, <3>1
    <2>6. CASE u = t
        <3>1. hash[t].status = "READY"
            BY <1>0, <1>5, <2>6 DEF Claim, Kinds
        <3>2. w.status \notin Finished
            BY <2>4, <3>1 DEF CalmRead, Done, Finished
        <3>3. Wait(t)' = Wait(t) /\ Full(t)' = Full(t)
            BY <2>3, <2>6, WaitSame
        <3> QED BY <1>0, <2>4, <3>2, <3>3 DEF CalmRead, Finished
    <2> QED BY <2>5, <2>6
<1>6. ASSUME NEW u \in Tasks, HandBack(u) PROVE CalmRead(w)'
    <2>0. /\ Writes(u, QueueOf[u], now) /\ run' = run /\ w \in rebuild.read /\ SameFields(u)
          /\ hash[u].status = "RUNNING" /\ CalmRead(w)
        BY <1>0, <1>6, HandBackShape DEF HandBack, SameTimes
    <2>1. CASE u # t
        BY <1>2, <1>3, <2>0, <2>1
    <2>2. CASE u = t
        <3>1. w.status \notin Finished
            BY <2>0, <2>2 DEF CalmRead, Done, Finished
        <3>2. Wait(t)' = Wait(t) /\ Full(t)' = Full(t)
            BY <2>0, <2>2, WaitSame
        <3> QED BY <1>0, <2>0, <3>1, <3>2 DEF CalmRead, Finished
    <2> QED BY <2>1, <2>2
<1>7. ASSUME NEW u \in Tasks, GiveUp(u) \/ ResetWrites(u) \/ GiveUpReads(u) \/ GiveUpRecords(u)
      PROVE  FALSE
    <2>1. CASE GiveUp(u)
        BY <1>0, <2>1 DEF GiveUp, Spend, Kinds
    <2>2. CASE ResetWrites(u)
        BY <1>0, <2>2 DEF ResetWrites, Paid
    <2>3. CASE GiveUpReads(u) \/ GiveUpRecords(u)
        BY <1>0, <2>3 DEF GiveUpReads, GiveUpRecords, Paid
    <2> QED BY <1>7, <2>1, <2>2, <2>3
<1>8. ASSUME NEW p \in Run, NEW at, run[p].at # "none", run' = [run EXCEPT ![p].at = at]
      PROVE  /\ run'[p].task = run[p].task /\ run'[p].at = at
             /\ \A q \in Run \ {p} : run'[q] = run[q]
    <2>1. run[p] \in [task : Tasks, at : {"none", "runs", "reports"}]
        BY <1>0, <1>8 DEF CallerTypes
    <2> QED BY <1>0, <1>8, <2>1 DEF CallerTypes
(* The run of a task that was read as finished does not end it again.      *)
<1>9. ASSUME NEW p \in Run, run[p].at = "runs", w \in rebuild.read, run[p].task = t
      PROVE  w.status \notin Finished /\ CalmRead(w)
    <2>1. Active(p, t) /\ CalmRead(w)
        BY <1>0, <1>9 DEF Active
    <2> QED BY <1>9, <2>1 DEF CalmRead, Finished
<1>10. ASSUME NEW p \in Run, Succeed(p) \/ Fail(p) PROVE CalmRead(w)'
    <2>0. /\ Writes(run[p].task, QueueOf[run[p].task], now) /\ run[p].task \in Tasks
          /\ Ended(run[p].task)
        BY <1>10, SucceedShape, FailShape
    <2>1. /\ run[p].at = "runs" /\ w \in rebuild.read
          /\ run' = [run EXCEPT ![p].at = "reports"] \/ run' = [run EXCEPT ![p].at = "none"]
        BY <1>10 DEF Succeed, Fail
    <2>2. run'[p].task = run[p].task /\ \A q \in Run \ {p} : run'[q] = run[q]
        BY <1>8, <2>1
    <2>3. CASE run[p].task # t
        <3>1. \A q \in Run : Active(q, t)' => Active(q, t) /\ run'[q].at = run[q].at
            BY <2>2, <2>3 DEF Active
        <3> QED BY <1>1, <1>3, <2>0, <2>1, <2>3, <3>1
    <2>4. CASE run[p].task = t
        <3>1. w.status \notin Finished /\ CalmRead(w)
            BY <1>9, <2>1, <2>4
        <3>2. Wait(t)' = Wait(t) /\ Full(t)' = Full(t)
            BY <2>0, <2>4, WaitSame DEF Ended
        <3> QED BY <1>0, <3>1, <3>2 DEF CalmRead, Finished
    <2> QED BY <2>3, <2>4
<1>11. ASSUME NEW p \in Run, run[p].at # "none", run' = [run EXCEPT ![p].at = "none"],
              w \in rebuild.read, hash'[t] = hash[t]
       PROVE  CalmRead(w)'
    <2>1. \A q \in Run : Active(q, t)' => Active(q, t) /\ run'[q].at = run[q].at
        BY <1>8, <1>11 DEF Active
    <2> QED BY <1>1, <1>11, <2>1
<1>12. ASSUME NEW p \in Run, ReadBack(p) PROVE CalmRead(w)'
    <2>0. /\ run[p].at = "reports" /\ w \in rebuild.read
          /\ run' = [run EXCEPT ![p].at = "none"]
        BY <1>12 DEF ReadBack
    <2>1. CASE Full(run[p].task)
        BY <1>11, <1>12, <2>0, <2>1 DEF ReadBack
    <2>2. CASE ~Full(run[p].task)
        <3>0. /\ Writes(run[p].task, Default, now) /\ run[p].task \in Tasks
              /\ hash'[run[p].task].status = "FAILED" /\ Ended(run[p].task)
            BY <1>12, <2>2, ReadBackShape
        <3>1. CASE run[p].task # t
            BY <1>3, <1>11, <2>0, <3>0, <3>1
        <3>2. CASE run[p].task = t
            <4>1. Active(p, t) /\ CalmRead(w)
                BY <1>0, <2>0, <3>2 DEF Active
            <4>2. w.status # "FAILED"
                BY <4>1 DEF CalmRead
            <4>3. Wait(t)' = Wait(t) /\ Full(t)' = Full(t)
                BY <3>0, <3>2, WaitSame DEF Ended
            <4>4. \A q \in Run : Active(q, t) => q = p
                BY <1>0, <3>2, <4>1 DEF CalmRun
            <4>5. run'[p].at = "none" /\ \A q \in Run \ {p} : run'[q] = run[q]
                BY <1>8, <2>0
            <4>6. \A q \in Run : ~Active(q, t)'
                BY <4>4, <4>5 DEF Active
            <4> QED BY <1>0, <3>0, <3>2, <4>1, <4>2, <4>3, <4>6 DEF CalmRead, Done, Finished
        <3> QED BY <3>1, <3>2
    <2> QED BY <2>1, <2>2
<1>13. ASSUME NEW p \in Run, Die(p) PROVE CalmRead(w)'
    BY <1>11, <1>13 DEF Die
<1>14. ASSUME NEW u \in Tasks, DeleteWrites(u) PROVE CalmRead(w)'
    <2>1. hash' = [hash EXCEPT ![u] = NoHash] /\ run' = run /\ w \in rebuild.read
        BY <1>14 DEF DeleteWrites
    <2>2. hash'[t] = hash[t] \/ hash'[t] = NoHash
        BY <1>0, <2>1
    <2> QED BY <1>2, <2>1, <2>2
<1>15. ASSUME Tick PROVE CalmRead(w)'
    <2>1. run' = run /\ w \in rebuild.read /\ (hash'[t] = hash[t] \/ hash'[t] = NoHash)
        BY <1>0, <1>15 DEF Tick
    <2> QED BY <1>2, <2>1
<1>16. ASSUME NEW u \in Tasks,
              OperatorDeletes(u) \/ PurgeReads(u) \/ PurgeDeletes(u) \/ ResetReads(u)
       PROVE  CalmRead(w)'
    BY <1>2, <1>16 DEF OperatorDeletes, DeleteReads, PurgeReads, PurgeDeletes, ResetReads
<1>17. ASSUME \/ AskIndex \/ MarkBuilt \/ PurgeBegins \/ PurgeEnds \/ UNCHANGED vars
              \/ (\E q \in Scopes : ReadIndex(q))
       PROVE  CalmRead(w)'
    BY <1>2, <1>17 DEF AskIndex, MarkBuilt, PurgeBegins, PurgeEnds, ReadIndex, vars
<1>18. ASSUME RebuildBegins \/ RebuildEnds PROVE FALSE
    BY <1>18 DEF RebuildBegins, RebuildEnds, Idle
<1>19. ASSUME NEW v, RebuildIndexes(v) PROVE CalmRead(w)'
    <2>1. hash' = hash /\ run' = run /\ rebuild'.read \subseteq rebuild.read
        BY <1>0, <1>19 DEF RebuildIndexes, PassTypes
    <2> QED BY <1>2, <2>1
<1>20. ASSUME NEW u \in Tasks, RebuildReads(u) PROVE CalmRead(w)'
    <2>0. hash' = hash /\ run' = run
        BY <1>20 DEF RebuildReads
    <2>1. CASE w \in rebuild.read
        BY <1>2, <2>0, <2>1
    <2>2. CASE w \notin rebuild.read
        <3>1. w = [task |-> u, status |-> hash[u].status, full |-> hash[u].full,
                   since |-> StatusSince(hash[u], rebuild.start)]
            BY <1>0, <1>20, <2>2 DEF RebuildReads, PassTypes
        <3>2. /\ t = u /\ w.status = hash[t].status
              /\ w.since = StatusSince(hash[t], rebuild.start)
            BY <3>1
        <3>3. CalmHash(t) /\ TimesOf(t) /\ \A q \in Run : CalmRun(q, t)
            BY <1>0
        <3>4. CASE w.status \in Finished
            <4>1. w.since = hash[t].done
                BY <3>2, <3>3, <3>4 DEF StatusSince, Since, CalmHash, Finished
            <4>2. \A r \in Run : Active(r, t) =>
                     run[r].at = "reports" /\ hash[t].status = "SUCCESSFUL"
                <5> SUFFICES ASSUME NEW r \in Run, Active(r, t)
                             PROVE  run[r].at = "reports" /\ hash[t].status = "SUCCESSFUL"
                    OBVIOUS
                <5>1. run[r].at \in {"runs", "reports"}
                    BY <1>0 DEF CallerTypes, Active
                <5> QED BY <3>2, <3>3, <3>4, <5>1 DEF CalmRun, Finished
            <4>3. CalmRead(w)
                BY <3>2, <3>4, <4>1, <4>2 DEF CalmRead, Done, Finished
            <4> QED BY <1>0, <2>0, <4>3 DEF CalmRead, Active, Full, Wait
        <3>5. CASE w.status = "READY"
            <4>1. Full(t) => Wait(t) \in Nat
                BY <1>0, <3>3, WaitTypes DEF TimesOf, IndexInv
            <4>2. Full(t) => w.since = Wait(t)
                BY <3>2, <3>5, <4>1 DEF StatusSince, Since, Wait, Never
            <4>3. CalmRead(w)
                BY <3>5, <4>2 DEF CalmRead, Finished
            <4> QED BY <1>0, <2>0, <4>3 DEF CalmRead, Active, Full, Wait
        <3>6. CASE w.status = "RUNNING"
            <4>1. w.since = hash[t].tried
                BY <3>2, <3>3, <3>6 DEF StatusSince, Since, TimesOf
            <4>2. CalmRead(w)
                BY <3>2, <3>3, <3>6, <4>1 DEF CalmRead, CalmHash, Finished
            <4> QED BY <1>0, <2>0, <4>2 DEF CalmRead, Active, Full, Wait
        <3> QED BY <1>0, <3>4, <3>5, <3>6 DEF Statuses
    <2> QED BY <2>1, <2>2
<1>21. setup.delays \subseteq Nat /\ now \in Nat
    BY SetupTypes DEF IndexInv, StoreTypes
<1>22. ASSUME NEW u \in Tasks, Enqueue(u, Never) PROVE CalmRead(w)'
    <2>1. Never \in Nat \cup {Never}
        OBVIOUS
    <2> QED BY <1>4, <1>22, <2>1
<1>23. ASSUME NEW u \in Tasks, NEW d \in setup.delays, Enqueue(u, now + d)
       PROVE  CalmRead(w)'
    <2>1. now + d \in Nat \cup {Never}
        BY <1>21
    <2> QED BY <1>4, <1>23, <2>1
<1> HIDE DEF jobs, store
<1> QED BY <1>5, <1>6, <1>7, <1>10, <1>12, <1>13, <1>14, <1>15, <1>16, <1>17, <1>18,
           <1>19, <1>20, <1>22, <1>23 DEF Next

LEMMA CalmStep == IndexInv /\ Paid /\ Times /\ CalmInv /\ [Next]_vars => CalmInv'
<1> SUFFICES ASSUME IndexInv, Paid, Times, CalmInv, [Next]_vars, Calm'
             PROVE  /\ \A t \in Tasks : CalmHash(t)'
                    /\ \A r \in Run, t \in Tasks : CalmRun(r, t)'
                    /\ \A w \in rebuild'.read : CalmRead(w)'
    BY DEF CalmInv
<1> QED BY CalmHashStep, CalmRunStep, CalmReadStep

-----------------------------------------------------------------------------
(* The TTL of a hash that waits, runs, or may run again                    *)

(* The condition of RetriesCovered on the settings alone.                  *)
Covering == 0 < CompletedTtl /\ CompletedTtl <= ResultTtl

(* No hash that has an entry outlives it: it expires the TTL after the     *)
(* task is due, or after the last write.                                   *)
TtlOf(t) ==
    /\ ResultTtl > 0
    /\ hash[t].status \in {"READY", "RUNNING"} \/ (hash[t].status \in Finished /\ Covering)
    => hash[t].expires # Never /\ hash[t].expires <= Later(now, Wait(t)) + ResultTtl

TtlInv == Without({"reset"}) /\ RetriesCovered => \A t \in Tasks : TtlOf(t)

LEMMA SettingsStay ==
    ASSUME IndexInv, [Next]_vars
    PROVE  /\ setup' = setup
           /\ ResultTtl' = ResultTtl /\ CompletedTtl' = CompletedTtl /\ Legacy' = Legacy
           /\ EarlyTriggers' = EarlyTriggers /\ Covering' = Covering
           /\ \A status : Ttl(status)' = Ttl(status)
<1>1. setup' = setup
    BY StepShapes
<1> QED BY <1>1 DEF ResultTtl, CompletedTtl, Legacy, EarlyTriggers, Covering, Ttl

LEMMA CoveredBefore ==
    ASSUME IndexInv, [Next]_vars
    PROVE  /\ RetriesCovered' => RetriesCovered
           /\ FinishesOnce' => FinishesOnce
           /\ Without({"reset"})' => Without({"reset"})
           /\ FinishesOnce' /\ ~Without({"rebuild"})' => Calm'
<1>1. /\ {"retry"} \in SUBSET Kinds /\ {"reset"} \in SUBSET Kinds
      /\ {"handback"} \in SUBSET Kinds /\ {"rebuild"} \in SUBSET Kinds
      /\ {"retry", "giveup"} \in SUBSET Kinds
    BY DEF Kinds
<1>2. /\ Without({"retry"})' => Without({"retry"})
      /\ Without({"reset"})' => Without({"reset"})
      /\ Without({"handback"})' => Without({"handback"})
      /\ Without({"rebuild"})' => Without({"rebuild"})
      /\ Without({"retry", "giveup"})' => Without({"retry", "giveup"})
    BY <1>1, WithoutBefore
<1>3. setup' = setup /\ ResultTtl' = ResultTtl /\ CompletedTtl' = CompletedTtl
    BY SettingsStay
<1>4. RetriesCovered' => RetriesCovered
    BY <1>2, <1>3 DEF RetriesCovered
<1>5. FinishesOnce' => FinishesOnce
    BY <1>2, <1>3 DEF FinishesOnce
<1>6. FinishesOnce' /\ ~Without({"rebuild"})' => Calm'
    BY DEF FinishesOnce, Calm, Without
<1> QED BY <1>2, <1>4, <1>5, <1>6

LEMMA TtlInit == Init => TtlInv
<1> SUFFICES ASSUME Init, NEW t \in Tasks PROVE TtlOf(t)
    BY DEF TtlInv
<1>1. PICK status \in [Legacy -> {"READY", "FAILED"}] :
          hash = [u \in Tasks |-> IF u \in Legacy THEN LegacyHash(status[u]) ELSE NoHash]
    BY DEF Init
<1>2. /\ setup \in Setups /\ ResultTtl \in Nat /\ CompletedTtl \in Nat /\ now = 0
    BY SetupTypes DEF Init
<1>3. CASE t \notin Legacy
    BY <1>1, <1>3 DEF TtlOf, NoHash, Finished
<1>4. CASE t \in Legacy /\ status[t] = "READY"
    <2>1. /\ hash[t].status = "READY" /\ hash[t].enqueued = 0 /\ hash[t].due = Never
          /\ ResultTtl > 0 => hash[t].expires = ResultTtl
        BY <1>1, <1>2, <1>4 DEF LegacyHash, Ttl, Finished
    <2>2. Later(now, Wait(t)) = 0
        BY <1>2, <2>1 DEF Wait, Later, Never
    <2> QED BY <1>2, <2>1, <2>2 DEF TtlOf, Never
<1>5. CASE t \in Legacy /\ status[t] = "FAILED"
    <2>1. /\ hash[t].status = "FAILED" /\ hash[t].enqueued = 0 /\ hash[t].due = Never
          /\ CompletedTtl > 0 => hash[t].expires = CompletedTtl
        BY <1>1, <1>2, <1>5 DEF LegacyHash, Ttl, Finished
    <2>2. Later(now, Wait(t)) = 0
        BY <1>2, <2>1 DEF Wait, Later, Never
    <2> QED BY <1>2, <2>1, <2>2 DEF TtlOf, Never, Covering
<1> QED BY <1>3, <1>4, <1>5

LEMMA TtlStep == IndexInv /\ Paid /\ TtlInv /\ [Next]_vars => TtlInv'
<1> SUFFICES ASSUME IndexInv, Paid, TtlInv, [Next]_vars, Without({"reset"})', RetriesCovered',
                    NEW t \in Tasks
             PROVE  TtlOf(t)'
    BY DEF TtlInv
<1>0. /\ TtlOf(t) /\ Without({"reset"}) /\ RetriesCovered /\ now \in Nat
      /\ hash[t] \in Hash /\ hash \in [Tasks -> Hash] /\ Wait(t) \in Nat \cup {Never}
      /\ ResultTtl \in Nat /\ CompletedTtl \in Nat
      /\ ResultTtl' = ResultTtl /\ CompletedTtl' = CompletedTtl /\ Covering' = Covering
    BY CoveredBefore, SetupTypes, SettingsStay, WaitTypes DEF TtlInv, IndexInv, StoreTypes
<1>1. ASSUME hash'[t] = hash[t], now' = now PROVE TtlOf(t)'
    BY <1>0, <1>1 DEF TtlOf, Wait
<1>2. CASE Same
    BY <1>1, <1>2 DEF Same
<1>3. ASSUME NEW u \in Tasks, NEW q, NEW score, Writes(u, q, score)
      PROVE  /\ u # t => hash'[t] = hash[t]
             /\ now' = now
    BY <1>3 DEF Writes, Stores
(* The hash keeps its TTL, and had to have one before.                     *)
<1>4. ASSUME SameFields(t), hash'[t].expires = hash[t].expires, now' = now,
             \/ hash[t].status \in {"READY", "RUNNING"}
             \/ hash[t].status \in Finished /\ (Covering \/ ResultTtl = 0)
      PROVE  TtlOf(t)'
    <2>1. Wait(t)' = Wait(t)
        BY <1>4, WaitSame
    <2> QED BY <1>0, <1>4, <2>1 DEF TtlOf
<1>5. ASSUME NEW u \in Tasks, NEW due \in Nat \cup {Never}, Enqueue(u, due)
      PROVE  TtlOf(t)'
    <2>1. CASE u # t
        BY <1>1, <1>3, <1>5, <2>1, EnqueueShape
    <2>2. CASE u = t
        <3>1. /\ hash'[t].enqueued = now /\ hash'[t].due = due /\ now' = now
              /\ hash'[t].expires = WaitingExpiry(due)
            BY <1>3, <1>5, <2>2, EnqueueShape
        <3>2. Wait(t)' = Later(now, due) /\ Later(now, due) \in Nat
              /\ Later(now, Later(now, due)) = Later(now, due)
            BY <1>0, <3>1 DEF Wait, Later, Never
        <3> QED BY <1>0, <3>1, <3>2 DEF TtlOf, WaitingExpiry, Never
    <2> QED BY <2>1, <2>2
<1>6. ASSUME NEW u \in Tasks, Claim(u) PROVE TtlOf(t)'
    <2>1. CASE u # t
        BY <1>1, <1>3, <1>6, <2>1, ClaimShape
    <2>2. CASE u = t
        <3>1. /\ SameFields(t) /\ hash'[t].expires = hash[t].expires /\ now' = now
            BY <1>3, <1>6, <2>2, ClaimShape
        <3>2. CASE hash[t].status = "READY"
            BY <1>4, <3>1, <3>2
        <3>3. CASE hash[t].status = "FAILED"
            <4>1. ~Without({"retry"})'
                <5>1. spent' = [spent EXCEPT !.retry = @ + 1] /\ spent \in [Kinds -> Nat]
                    BY <1>6, <2>2, <3>3 DEF Claim, IndexInv, CallerTypes
                <5>2. spent'["retry"] = spent["retry"] + 1 /\ spent["retry"] \in Nat
                    BY <5>1 DEF Kinds
                <5> QED BY <5>2 DEF Without
            <4>2. Covering \/ ResultTtl = 0
                BY <1>0, <4>1 DEF RetriesCovered, Covering
            <4> QED BY <1>4, <3>1, <3>3, <4>2 DEF Finished
        <3> QED BY <1>6, <2>2, <3>2, <3>3 DEF Claim
    <2> QED BY <2>1, <2>2
<1>7. ASSUME NEW u \in Tasks, HandBack(u) \/ GiveUp(u) PROVE TtlOf(t)'
    <2>0. /\ Writes(u, QueueOf[u], now) /\ SameTimes(u)
          /\ hash[u].status \in {"READY", "RUNNING"}
        BY <1>7, HandBackShape, GiveUpShape
    <2>1. CASE u # t
        BY <1>1, <1>3, <2>0, <2>1
    <2>2. CASE u = t
        BY <1>3, <1>4, <2>0, <2>2 DEF SameTimes
    <2> QED BY <2>1, <2>2
<1>8. ASSUME NEW u \in Tasks, ResetWrites(u) PROVE FALSE
    BY <1>0, <1>8 DEF ResetWrites, Paid, Without
<1>9. ASSUME NEW u \in Tasks, NEW q \in Scopes, Finishing(u, q) PROVE TtlOf(t)'
    <2>1. CASE u # t
        BY <1>1, <1>3, <1>9, <2>1 DEF Finishing
    <2>2. CASE u = t
        <3>1. /\ hash'[t].status \in Finished /\ SameFields(t) /\ now' = now
              /\ hash'[t].expires = CompletedExpiry(t)
            BY <1>3, <1>9, <2>2 DEF Finishing, Ended
        <3>2. Wait(t)' = Wait(t)
            BY <3>1, WaitSame
        <3> QED BY <1>0, <3>1, <3>2
            DEF TtlOf, CompletedExpiry, Covering, Later, Never, Finished
    <2> QED BY <2>1, <2>2
<1>10. ASSUME hash'[t] = NoHash PROVE TtlOf(t)'
    BY <1>10 DEF TtlOf, NoHash, Finished
<1>11. ASSUME NEW u \in Tasks, DeleteWrites(u) PROVE TtlOf(t)'
    <2>1. hash' = [hash EXCEPT ![u] = NoHash] /\ now' = now
        BY <1>11 DEF DeleteWrites
    <2> QED BY <1>0, <1>1, <1>10, <2>1
<1>12. ASSUME NEW w, RebuildIndexes(w) PROVE TtlOf(t)'
    BY <1>1, <1>12 DEF RebuildIndexes
<1>13. ASSUME NEW q, ReadIndex(q) PROVE TtlOf(t)'
    BY <1>1, <1>13 DEF ReadIndex
<1>14. ASSUME Tick PROVE TtlOf(t)'
    <2>1. /\ now' = now + 1
          /\ hash'[t] = hash[t] \/ hash'[t] = NoHash
        BY <1>14 DEF Tick
    <2>2. CASE hash'[t] = hash[t]
        <3>1. Wait(t)' = Wait(t)
            BY <2>2 DEF Wait
        <3>2. Later(now, Wait(t)) <= Later(now + 1, Wait(t))
              /\ Later(now, Wait(t)) \in Nat /\ Later(now + 1, Wait(t)) \in Nat
            BY <1>0 DEF Later, Never
        <3> QED BY <1>0, <2>1, <2>2, <3>1, <3>2 DEF TtlOf, Hash, Never
    <2> QED BY <1>10, <2>1, <2>2
<1> QED BY <1>2, <1>5, <1>6, <1>7, <1>8, <1>9, <1>11, <1>12, <1>13, <1>14, StepKinds

-----------------------------------------------------------------------------
(* What the index lists                                                    *)

(* A task that runs without early triggers was due.                        *)
DueOf(t) == ~EarlyTriggers /\ hash[t].status = "RUNNING" => Wait(t) <= now
DueInv == \A t \in Tasks : DueOf(t)

LEMMA DueInit == Init => DueInv
<1> SUFFICES ASSUME Init, NEW t \in Tasks PROVE DueOf(t)
    BY DEF DueInv
<1>1. PICK status \in [Legacy -> {"READY", "FAILED"}] :
          hash = [u \in Tasks |-> IF u \in Legacy THEN LegacyHash(status[u]) ELSE NoHash]
    BY DEF Init
<1>2. hash[t].status # "RUNNING"
    BY <1>1 DEF LegacyHash, NoHash
<1> QED BY <1>2 DEF DueOf

LEMMA DueStep == IndexInv /\ Paid /\ Times /\ DueInv /\ [Next]_vars => DueInv'
<1> SUFFICES ASSUME IndexInv, Paid, Times, DueInv, [Next]_vars, NEW t \in Tasks
             PROVE  DueOf(t)'
    BY DEF DueInv
<1>0. /\ DueOf(t) /\ now \in Nat /\ TimesOf(t) /\ hash[t] \in Hash
      /\ hash \in [Tasks -> Hash] /\ Wait(t) \in Nat \cup {Never}
      /\ EarlyTriggers' = EarlyTriggers
    BY SetupTypes, SettingsStay, WaitTypes DEF DueInv, Times, IndexInv, StoreTypes
<1>1. ASSUME hash'[t] = hash[t], now' \in Nat, now' >= now PROVE DueOf(t)'
    <2>1. Wait(t)' = Wait(t)
        BY <1>1 DEF Wait
    <2>2. ~EarlyTriggers /\ hash'[t].status = "RUNNING" => Wait(t) <= now
        BY <1>0, <1>1 DEF DueOf
    <2>3. Wait(t) <= now => Wait(t) <= now'
        BY <1>0, <1>1 DEF Never
    <2> QED BY <1>0, <2>1, <2>2, <2>3 DEF DueOf
<1>2. CASE Same
    BY <1>0, <1>1, <1>2 DEF Same
<1>3. ASSUME hash'[t].status # "RUNNING" PROVE DueOf(t)'
    BY <1>3 DEF DueOf
<1>4. ASSUME NEW u \in Tasks, NEW q, NEW score, Writes(u, q, score),
             u = t => hash'[t].status # "RUNNING"
      PROVE  DueOf(t)'
    BY <1>0, <1>1, <1>3, <1>4 DEF Writes, Stores
<1>5. ASSUME NEW u \in Tasks, NEW due \in Nat \cup {Never}, Enqueue(u, due) PROVE DueOf(t)'
    BY <1>4, <1>5, EnqueueShape
<1>6. ASSUME NEW u \in Tasks, Claim(u) PROVE DueOf(t)'
    <2>1. /\ Writes(u, QueueOf[u], now) /\ SameFields(u) /\ now' = now
        BY <1>6, ClaimShape DEF Writes
    <2>2. CASE u # t
        BY <1>4, <2>1, <2>2
    <2>3. CASE u = t
        <3>1. EarlyTriggers \/ hash[t].due <= now
            BY <1>6, <2>3 DEF Claim
        <3>2. hash[t].due <= now => Wait(t) <= now
            BY <1>0 DEF Wait, Later, TimesOf, Hash, Never
        <3>3. Wait(t)' = Wait(t)
            BY <2>1, <2>3, WaitSame
        <3> QED BY <1>0, <2>1, <3>1, <3>2, <3>3 DEF DueOf
    <2> QED BY <2>2, <2>3
<1>7. ASSUME NEW u \in Tasks, HandBack(u) \/ GiveUp(u) \/ ResetWrites(u) PROVE DueOf(t)'
    <2>1. \E q, score : Writes(u, q, score) /\ hash'[u].status # "RUNNING"
        BY <1>7, HandBackShape, GiveUpShape, ResetShape
    <2> QED BY <1>4, <2>1
<1>8. ASSUME NEW u \in Tasks, NEW q \in Scopes, Finishing(u, q) PROVE DueOf(t)'
    BY <1>4, <1>8 DEF Finishing, Finished
<1>9. ASSUME NEW u \in Tasks, DeleteWrites(u) PROVE DueOf(t)'
    <2>1. hash' = [hash EXCEPT ![u] = NoHash] /\ now' = now
        BY <1>9 DEF DeleteWrites
    <2>2. hash'[t] = hash[t] \/ hash'[t].status # "RUNNING"
        BY <1>0, <2>1 DEF NoHash
    <2> QED BY <1>0, <1>1, <1>3, <2>1, <2>2
<1>10. ASSUME NEW w, RebuildIndexes(w) PROVE DueOf(t)'
    BY <1>0, <1>1, <1>10 DEF RebuildIndexes
<1>11. ASSUME NEW q, ReadIndex(q) PROVE DueOf(t)'
    BY <1>0, <1>1, <1>11 DEF ReadIndex
<1>12. ASSUME Tick PROVE DueOf(t)'
    <2>1. now' = now + 1 /\ (hash'[t] = hash[t] \/ hash'[t] = NoHash)
        BY <1>12 DEF Tick
    <2>2. hash'[t] = hash[t] \/ hash'[t].status # "RUNNING"
        BY <2>1 DEF NoHash
    <2> QED BY <1>0, <1>1, <1>3, <2>1, <2>2
<1> QED BY <1>2, <1>5, <1>6, <1>7, <1>8, <1>9, <1>10, <1>11, <1>12, StepKinds

(* Only the record of the error ends what mark_task_failed began.          *)
LEMMA GiveUpEnds ==
    ASSUME IndexInv, [Next]_vars, NEW t \in Tasks
    PROVE  \/ giveup'[t] = giveup[t]
           \/ giveup[t] # "none" /\ giveup'[t] # "none"
           \/ GiveUp(t)
           \/ \E q \in Scopes : Finishing(t, q)
<1> USE DEF jobs, store
<1>0. giveup \in [Tasks -> {"none", "marked", "full", "bare"}]
    BY DEF IndexInv, CallerTypes
<1>1. ASSUME NEW u \in Tasks, u # t, GiveUp(u) \/ GiveUpReads(u) \/ GiveUpRecords(u)
      PROVE  giveup'[t] = giveup[t]
    BY <1>0, <1>1 DEF GiveUp, GiveUpReads, GiveUpRecords
<1>2. ASSUME GiveUpReads(t) PROVE giveup[t] # "none" /\ giveup'[t] # "none"
    BY <1>0, <1>2 DEF GiveUpReads
<1>3. ASSUME GiveUpRecords(t) PROVE \E q \in Scopes : Finishing(t, q)
    <2> DEFINE own == Queue(t, giveup[t] = "full")
    <2>1. own \in Scopes /\ Writes(t, own, now)
        BY <1>3, GiveUpRecordsShape
    <2>2. t \in ids /\ hash'[t].status \in Finished /\ Ended(t)
        BY <1>3, GiveUpRecordsShape DEF Finished
    <2> HIDE DEF own
    <2> QED BY <2>1, <2>2 DEF Finishing
<1>4. ASSUME NEW u \in Tasks,
             \/ Claim(u) \/ HandBack(u) \/ ResetReads(u) \/ ResetWrites(u)
             \/ OperatorDeletes(u) \/ DeleteWrites(u) \/ PurgeReads(u) \/ PurgeDeletes(u)
             \/ RebuildReads(u) \/ (\E due : Enqueue(u, due))
      PROVE  giveup' = giveup
    BY <1>4 DEF Enqueue, Claim, HandBack, ResetReads, ResetWrites, OperatorDeletes,
       DeleteReads, DeleteWrites, PurgeReads, PurgeDeletes, RebuildReads
<1>5. ASSUME \/ AskIndex \/ MarkBuilt \/ PurgeBegins \/ PurgeEnds \/ RebuildBegins
             \/ RebuildEnds \/ Tick \/ UNCHANGED vars
             \/ (\E w \in rebuild.read : RebuildIndexes(w))
             \/ (\E q \in Scopes : ReadIndex(q))
             \/ (\E r \in Run : Succeed(r) \/ ReadBack(r) \/ Fail(r) \/ Die(r))
      PROVE  giveup' = giveup
    BY <1>5 DEF AskIndex, MarkBuilt, PurgeBegins, PurgeEnds, RebuildBegins, RebuildEnds,
       Tick, RebuildIndexes, ReadIndex, Succeed, ReadBack, Fail, Die, vars
<1> HIDE DEF jobs, store
<1> QED BY <1>1, <1>2, <1>3, <1>4, <1>5 DEF Next

(* An entry that a read of the index does not prune: it expires no earlier *)
(* than the hash, and a task that waits is listed by the time it is due.   *)
Kept(e) ==
    /\ e.status = hash[e.task].status
    /\ Ttl(e.status) > 0 => /\ hash[e.task].expires # Never
                            /\ hash[e.task].expires <= e.score + Ttl(e.status)
    /\ e.status = "READY" => e.score <= Later(now, Wait(e.task))

Lists(t, q) == \E e \in index : e.scope = q /\ e.task = t /\ Kept(e)

(* The scopes that a pass over the results counts the task in.             *)
Own(t) == {Backend} \cup (IF Full(t) THEN {QueueOf[t]} ELSE {})
Listed(t) == \A q \in Own(t) : Lists(t, q)

(* Stored before the index existed and not written since: the marker is    *)
(* not set, and cannot be before a rebuild has been at the task.           *)
Untouched(t) ==
    /\ t \in Legacy /\ t \in results /\ ~built /\ ~asked
    /\ rebuild.at = "walk" =>
          t \in rebuild.todo \/ \E w \in rebuild.read : w.task = t /\ w.status = hash[t].status

(* Who is to be listed at all: see BuiltMeansCovered.                      *)
Expected(t) ==
    /\ Stored(t) /\ ~Unrecorded(t)
    /\ EarlyTriggers => hash[t].status \notin EarlyStatuses

ListedInv ==
    FinishesOnce /\ RetriesCovered =>
        \A t \in Tasks : Expected(t) => Listed(t) \/ Untouched(t)

LEMMA KeptIsAhead ==
    ASSUME IndexInv, NEW e \in index, Kept(e), Stored(e.task), NEW at \in Nat, at <= now
    PROVE  e.score > Cutoff(e.status, at)
<1>1. /\ setup \in Setups /\ e.score \in Nat /\ e.task \in Tasks /\ Ttl(e.status) \in Nat
      /\ now \in Nat
    BY SetupTypes, TtlTypes DEF IndexInv, StoreTypes, Entry
<1>2. /\ hash[e.task].expires \in Nat \cup {Never}
      /\ hash[e.task].expires = Never \/ hash[e.task].expires > now
    BY <1>1 DEF IndexInv, StoreTypes, Sound, Hash
<1>3. CASE Ttl(e.status) > 0
    <2>1. /\ hash[e.task].expires # Never
          /\ hash[e.task].expires <= e.score + Ttl(e.status)
        BY <1>3 DEF Kept
    <2> QED BY <1>1, <1>2, <1>3, <2>1 DEF Cutoff, Never
<1>4. CASE Ttl(e.status) = 0
    BY <1>1, <1>4 DEF Cutoff, Never
<1> QED BY <1>1, <1>3, <1>4

(* A write of another task leaves the entries that are not past the cutoff *)
(* of the written status.                                                  *)
LEMMA IndexedKeeps ==
    ASSUME NEW idx, NEW scopes, NEW t, NEW status, NEW score, NEW cutoff,
           NEW e \in idx, e.task # t, e.status = status => ~(e.score <= cutoff)
    PROVE  e \in Indexed(idx, scopes, t, status, score, cutoff)
BY DEF Indexed, Stays

LEMMA IndexedHas ==
    ASSUME NEW idx, NEW scopes, NEW t, NEW status, NEW score, NEW cutoff, NEW q \in scopes
    PROVE  [scope |-> q, status |-> status, task |-> t, score |-> score]
              \in Indexed(idx, scopes, t, status, score, cutoff)
BY DEF Indexed

(* A kept entry of another task survives every write of the index, and it  *)
(* is kept as long as the hash is.                                         *)
LEMMA KeptSurvives ==
    ASSUME IndexInv, NEW e \in index, Kept(e), Stored(e.task),
           NEW scopes, NEW t, t # e.task, NEW status, NEW score, NEW at \in Nat, at <= now
    PROVE  e \in Indexed(index, scopes, t, status, score, Cutoff(status, at))
<1>1. e.score > Cutoff(e.status, at)
    BY KeptIsAhead
<1>2. e.score \in Nat /\ Cutoff(e.status, at) \in Int
    <2>1. setup \in Setups /\ e.score \in Nat
        BY DEF IndexInv, StoreTypes, Entry
    <2>2. Ttl(e.status) \in Nat
        BY <2>1, TtlTypes
    <2> QED BY <2>1, <2>2 DEF Cutoff, Never
<1>3. e.status = status => ~(e.score <= Cutoff(status, at))
    BY <1>1, <1>2
<1> QED BY <1>3, IndexedKeeps

LEMMA KeptLater ==
    ASSUME IndexInv, [Next]_vars, NEW e \in index, Kept(e), Stored(e.task),
           hash'[e.task] = hash[e.task], now' \in Nat, now' >= now
    PROVE  Kept(e)'
<1>1. /\ \A status : Ttl(status)' = Ttl(status)
    BY SettingsStay
<1>2. Wait(e.task)' = Wait(e.task)
    BY DEF Wait
<1>3. e.task \in Tasks /\ e.score \in Nat /\ now \in Nat
    BY SetupTypes DEF IndexInv, StoreTypes, Entry
<1>4. Wait(e.task) \in Nat \cup {Never}
    BY <1>3, WaitTypes DEF IndexInv
<1>5. e.status = "READY" => e.score <= Later(now, Wait(e.task))
    BY DEF Kept
<1>6. Later(now, Wait(e.task)) <= Later(now', Wait(e.task))
    BY <1>3, <1>4 DEF Later, Never
<1>7. Later(now, Wait(e.task)) \in Nat /\ Later(now', Wait(e.task)) \in Nat
    BY <1>3, <1>4 DEF Later, Never
<1>8. e.status = "READY" => e.score <= Later(now', Wait(e.task)')
    BY <1>2, <1>3, <1>5, <1>6, <1>7
<1>9. /\ e.status = hash'[e.task].status
      /\ Ttl(e.status) > 0 => /\ hash'[e.task].expires # Never
                              /\ hash'[e.task].expires <= e.score + Ttl(e.status)
    BY DEF Kept
<1> QED BY <1>1, <1>8, <1>9 DEF Kept

LEMMA ListedStays ==
    ASSUME IndexInv, [Next]_vars, NEW t \in Tasks, Stored(t), Listed(t),
           hash'[t] = hash[t], now' \in Nat, now' >= now,
           \A e \in index : e.task = t /\ Kept(e) => e \in index'
    PROVE  Listed(t)'
<1>1. Own(t)' = Own(t)
    BY DEF Own, Full
<1>2. ASSUME NEW q \in Own(t) PROVE Lists(t, q)'
    <2>1. PICK e \in index : e.scope = q /\ e.task = t /\ Kept(e)
        BY <1>2 DEF Listed, Lists
    <2>2. e \in index' /\ Kept(e)'
        BY <2>1, KeptLater
    <2> QED BY <2>1, <2>2 DEF Lists
<1> QED BY <1>1, <1>2 DEF Listed

(* A step that does not write t, though a rebuild may get to it.           *)
Elsewhere(t) ==
    \/ Same \/ Tick
    \/ \E u \in Tasks \ {t} : \/ \E q \in Scopes, score \in Nat : Writes(u, q, score)
                             \/ DeleteWrites(u)
    \/ \E w \in rebuild.read : RebuildIndexes(w)
    \/ \E q \in Scopes : ReadIndex(q)

LEMMA StepElsewhere ==
    ASSUME IndexInv, [Next]_vars, NEW t \in Tasks
    PROVE  \/ Elsewhere(t)
           \/ \E due \in Nat \cup {Never} : Enqueue(t, due)
           \/ Claim(t) \/ HandBack(t) \/ GiveUp(t) \/ ResetWrites(t) \/ DeleteWrites(t)
           \/ \E q \in Scopes : Finishing(t, q)
<1>0. now \in Nat
    BY SetupTypes DEF IndexInv, StoreTypes
<1>1. ASSUME NEW u \in Tasks, u # t, NEW q \in Scopes, NEW score \in Nat, Writes(u, q, score)
      PROVE  Elsewhere(t)
    BY <1>1 DEF Elsewhere
<1>2. ASSUME NEW u \in Tasks, u # t, NEW due \in Nat \cup {Never}, Enqueue(u, due)
      PROVE  Elsewhere(t)
    BY <1>1, <1>2, EnqueueShape, OwnScopes
<1>3. ASSUME NEW u \in Tasks, u # t, Claim(u) \/ HandBack(u) \/ GiveUp(u)
      PROVE  Elsewhere(t)
    <2>1. Writes(u, QueueOf[u], now)
        BY <1>3, ClaimShape, HandBackShape, GiveUpShape
    <2> QED BY <1>0, <1>1, <1>3, <2>1, OwnScopes
<1>4. ASSUME NEW u \in Tasks, u # t, ResetWrites(u) PROVE Elsewhere(t)
    BY <1>0, <1>1, <1>4, ResetShape
<1>5. ASSUME NEW u \in Tasks, u # t, NEW q \in Scopes, Finishing(u, q)
      PROVE  Elsewhere(t)
    BY <1>0, <1>1, <1>5 DEF Finishing
<1>6. ASSUME \/ Same \/ Tick \/ (\E u \in Tasks \ {t} : DeleteWrites(u))
             \/ (\E w \in rebuild.read : RebuildIndexes(w))
             \/ (\E q \in Scopes : ReadIndex(q))
      PROVE  Elsewhere(t)
    BY <1>6 DEF Elsewhere
<1>7. CASE \E u \in Tasks : \E due \in Nat \cup {Never} : Enqueue(u, due)
    BY <1>2, <1>7
<1>8. CASE \E u \in Tasks : \/ Claim(u) \/ HandBack(u) \/ GiveUp(u) \/ ResetWrites(u)
                           \/ DeleteWrites(u) \/ \E q \in Scopes : Finishing(u, q)
    BY <1>3, <1>4, <1>5, <1>6, <1>8
<1> QED BY <1>6, <1>7, <1>8, StepKinds

LEMMA ElsewhereStays ==
    ASSUME IndexInv, [Next]_vars, NEW t \in Tasks, Elsewhere(t), Stored(t)'
    PROVE  hash'[t] = hash[t] /\ now' \in Nat /\ now' >= now
<1>0. now \in Nat /\ hash \in [Tasks -> Hash]
    BY SetupTypes DEF IndexInv, StoreTypes
<1>1. CASE Same
    BY <1>0, <1>1 DEF Same
<1>2. CASE Tick
    BY <1>0, <1>2 DEF Tick, Stored, NoHash
<1>3. ASSUME NEW u \in Tasks \ {t}, NEW q, NEW score, Writes(u, q, score)
      PROVE  hash'[t] = hash[t] /\ now' = now
    BY <1>3 DEF Writes, Stores
<1>4. ASSUME NEW u \in Tasks \ {t}, DeleteWrites(u) PROVE hash'[t] = hash[t] /\ now' = now
    BY <1>0, <1>4 DEF DeleteWrites
<1>5. ASSUME NEW w, RebuildIndexes(w) PROVE hash' = hash /\ now' = now
    BY <1>5 DEF RebuildIndexes
<1>6. ASSUME NEW q, ReadIndex(q) PROVE hash' = hash /\ now' = now
    BY <1>6 DEF ReadIndex
<1> QED BY <1>0, <1>1, <1>2, <1>3, <1>4, <1>5, <1>6 DEF Elsewhere

(* Nothing but a write of t itself, or its turn in a rebuild, takes a kept *)
(* entry of t out of the index.                                            *)
LEMMA EntriesStay ==
    ASSUME IndexInv, Paid, NEW t \in Tasks, Elsewhere(t), Stored(t), NEW e \in index,
           e.task = t, Kept(e)
    PROVE  \/ e \in index'
           \/ \E w \in rebuild.read : w.task = t /\ RebuildIndexes(w) /\ StillThere(w)
<1>0. /\ now \in Nat /\ rebuild.start \in Nat /\ rebuild.start <= now
    BY SetupTypes DEF IndexInv, StoreTypes, PassTypes, Paid
<1>1. CASE Same
    BY <1>1 DEF Same
<1>2. ASSUME NEW u \in Tasks \ {t}, NEW q, NEW score, Writes(u, q, score) PROVE e \in index'
    <2>1. index' = Indexed(index, {Backend, q}, u, hash'[u].status, score,
                           Cutoff(hash'[u].status, now))
        BY <1>2 DEF Writes, Moves
    <2> QED BY <1>0, <1>2, <2>1, KeptSurvives
<1>3. ASSUME NEW u \in Tasks \ {t}, DeleteWrites(u) PROVE e \in index'
    BY <1>3 DEF DeleteWrites
<1>4. ASSUME NEW w \in rebuild.read, RebuildIndexes(w), w.task # t PROVE e \in index'
    <2> DEFINE scopes == {Backend, Queue(w.task, w.full)}
    <2>1. \/ index' = index
          \/ index' = {f \in index : f.task # w.task \/ f.scope \notin scopes}
          \/ index' = Indexed(index, scopes, w.task, w.status, w.since,
                              Cutoff(w.status, rebuild.start))
        BY <1>4 DEF RebuildIndexes
    <2>2. e \in Indexed(index, scopes, w.task, w.status, w.since,
                        Cutoff(w.status, rebuild.start))
        BY <1>0, <1>4, KeptSurvives
    <2> QED BY <1>4, <2>1, <2>2
<1>5. ASSUME NEW w \in rebuild.read, RebuildIndexes(w), w.task = t, ~StillThere(w)
      PROVE  e \in index'
    BY <1>5 DEF RebuildIndexes
<1>6. ASSUME NEW q \in Scopes, ReadIndex(q) PROVE e \in index'
    <2>1. e.score > Cutoff(e.status, now)
        BY <1>0, KeptIsAhead
    <2> QED BY <1>6, <2>1 DEF ReadIndex
<1>7. CASE Tick
    BY <1>7 DEF Tick
<1> QED BY <1>1, <1>2, <1>3, <1>4, <1>5, <1>6, <1>7 DEF Elsewhere

(* Until it is written, or the rebuild gets to it, a task stored before    *)
(* the index keeps the marker from being set.                              *)
LEMMA UntouchedStays ==
    ASSUME IndexInv, Paid, [Next]_vars, NEW t \in Tasks, Stored(t), Untouched(t),
           hash'[t] = hash[t]
    PROVE  \/ Untouched(t)'
           \/ \E w \in rebuild.read : /\ w.task = t /\ RebuildIndexes(w) /\ StillThere(w)
<1> USE DEF jobs, store
<1>0. /\ t \in results' /\ Legacy' = Legacy /\ PassTypes /\ PassTypes'
      /\ rebuild.at \in {"idle", "walk"}
    BY ResultsStay, SettingsStay, PassStep DEF IndexInv, PassTypes, Untouched, Stored
<1>1. ASSUME built' = built, asked' = asked, rebuild' = rebuild PROVE Untouched(t)'
    BY <1>0, <1>1 DEF Untouched
<1>2. ASSUME NEW u \in Tasks,
             \/ Claim(u) \/ HandBack(u) \/ GiveUp(u) \/ GiveUpReads(u) \/ GiveUpRecords(u)
             \/ ResetReads(u) \/ ResetWrites(u) \/ OperatorDeletes(u) \/ DeleteWrites(u)
             \/ PurgeReads(u) \/ PurgeDeletes(u) \/ (\E due : Enqueue(u, due))
      PROVE  built' = built /\ asked' = asked /\ rebuild' = rebuild
    BY <1>2 DEF Enqueue, Claim, HandBack, GiveUp, GiveUpReads, GiveUpRecords, ResetReads,
       ResetWrites, OperatorDeletes, DeleteReads, DeleteWrites, PurgeReads, PurgeDeletes
<1>3. ASSUME NEW r \in Run, Succeed(r) \/ ReadBack(r) \/ Fail(r) \/ Die(r)
      PROVE  built' = built /\ asked' = asked /\ rebuild' = rebuild
    BY <1>3 DEF Succeed, ReadBack, Fail, Die
<1>4. ASSUME \/ PurgeBegins \/ PurgeEnds \/ Tick \/ UNCHANGED vars
             \/ (\E q \in Scopes : ReadIndex(q))
      PROVE  built' = built /\ asked' = asked /\ rebuild' = rebuild
    BY <1>4 DEF PurgeBegins, PurgeEnds, Tick, ReadIndex, vars
<1>5. ASSUME AskIndex \/ MarkBuilt PROVE FALSE
    BY <1>5 DEF AskIndex, MarkBuilt, Untouched
<1>6. CASE RebuildBegins
    <2>1. /\ built' = built /\ asked' = asked
          /\ rebuild' = [at |-> "walk", start |-> now, todo |-> results, read |-> {}]
        BY <1>6 DEF RebuildBegins
    <2> QED BY <1>0, <2>1 DEF Untouched
<1>7. CASE RebuildEnds
    BY <1>7 DEF RebuildEnds, RebuildDone, Untouched
<1>8. ASSUME NEW u \in Tasks, RebuildReads(u) PROVE Untouched(t)'
    <2> DEFINE w == [task |-> u, status |-> hash[u].status, full |-> hash[u].full,
                     since |-> StatusSince(hash[u], rebuild.start)]
    <2>1. /\ built' = built /\ asked' = asked /\ rebuild.at = "walk"
          /\ rebuild'.todo = rebuild.todo \ {u}
          /\ rebuild.read \subseteq rebuild'.read
          /\ Stored(u) => w \in rebuild'.read
        BY <1>0, <1>8 DEF RebuildReads, PassTypes
    <2>2. CASE t \in rebuild.todo /\ u # t
        BY <1>0, <2>1, <2>2 DEF Untouched
    <2>3. CASE t \in rebuild.todo /\ u = t
        <3>1. w \in rebuild'.read /\ w.task = t /\ w.status = hash'[t].status
            BY <2>1, <2>3
        <3> HIDE DEF w
        <3> QED BY <1>0, <2>1, <3>1 DEF Untouched
    <2>4. CASE \E v \in rebuild.read : v.task = t /\ v.status = hash[t].status
        BY <1>0, <2>1, <2>4 DEF Untouched
    <2> QED BY <2>1, <2>2, <2>3, <2>4 DEF Untouched
<1>9. ASSUME NEW v \in rebuild.read, RebuildIndexes(v)
      PROVE  \/ Untouched(t)'
             \/ \E w \in rebuild.read : /\ w.task = t /\ RebuildIndexes(w) /\ StillThere(w)
    <2>1. CASE v.task = t /\ StillThere(v)
        BY <1>9, <2>1
    <2>2. CASE ~(v.task = t /\ StillThere(v))
        <3>1. /\ built' = built /\ asked' = asked /\ rebuild.at = "walk"
              /\ rebuild'.todo = rebuild.todo /\ rebuild'.read = rebuild.read \ {v}
            BY <1>0, <1>9 DEF RebuildIndexes, PassTypes
        <3>2. ~(v.task = t /\ v.status = hash[t].status)
            BY <2>2 DEF StillThere
        <3> QED BY <1>0, <3>1, <3>2 DEF Untouched
    <2> QED BY <2>1, <2>2
<1> HIDE DEF jobs, store
<1> QED BY <1>1, <1>2, <1>3, <1>4, <1>5, <1>6, <1>7, <1>8, <1>9 DEF Next

(* A write lists the task it writes, if the entry outlives the hash.       *)
LEMMA WriteLists ==
    ASSUME IndexInv, [Next]_vars, NEW t \in Tasks, NEW q, NEW score \in Nat,
           Writes(t, q, score),
           Ttl(hash'[t].status) > 0 =>
               /\ hash'[t].expires # Never
               /\ hash'[t].expires <= score + Ttl(hash'[t].status),
           hash'[t].status = "READY" => score <= Later(now, Wait(t)')
    PROVE  Listed(t)'
<1>1. Own(t)' \subseteq {Backend, q}
    BY DEF Writes, Own, Full, Bare
<1>2. ASSUME NEW p \in {Backend, q} PROVE Lists(t, p)'
    <2>1. index' = Indexed(index, {Backend, q}, t, hash'[t].status, score,
                           Cutoff(hash'[t].status, now))
        BY DEF Writes, Moves
    <2>2. [scope |-> p, status |-> hash'[t].status, task |-> t, score |-> score] \in index'
        BY <2>1, IndexedHas
    <2>3. PICK e : /\ e \in index' /\ e.scope = p /\ e.task = t
                   /\ e.status = hash'[t].status /\ e.score = score
        BY <2>2
    <2>4. now' = now /\ Ttl(e.status)' = Ttl(e.status)
        BY SettingsStay DEF Writes
    <2>5. Kept(e)'
        BY <2>3, <2>4 DEF Kept
    <2> QED BY <2>3, <2>5 DEF Lists
<1> QED BY <1>1, <1>2 DEF Listed

(* So does a rebuild, of what it has read of a task that finishes once.    *)
LEMMA RebuildLists ==
    ASSUME IndexInv, Times, [Next]_vars, NEW w \in rebuild.read, RebuildIndexes(w),
           StillThere(w), CalmHash(w.task), CalmRead(w), Without({"reset"}),
           EarlyTriggers => w.status # "RUNNING"
    PROVE  Listed(w.task)'
<1> DEFINE t == w.task
           own == Queue(t, w.full)
<1>0. /\ t \in Tasks /\ w.status \in Statuses /\ w.since \in Nat /\ w.full \in BOOLEAN
      /\ hash[t].status = w.status /\ hash' = hash /\ now' = now
      /\ \A status : Ttl(status)' = Ttl(status)
      /\ now \in Nat /\ TimesOf(t)
    BY SettingsStay, SetupTypes
       DEF IndexInv, StoreTypes, PassTypes, Reading, RebuildIndexes, StillThere, Times
<1>1. Stored(t)
    BY <1>0 DEF Stored, Statuses, Finished
<1>2. index' = Indexed(index, {Backend, own}, t, w.status, w.since,
                       Cutoff(w.status, rebuild.start))
    BY <1>1 DEF RebuildIndexes
<1>3. Own(t)' \subseteq {Backend, own}
    BY <1>0 DEF Own, Full, Queue, IndexInv, OwnQueue, Bare
<1>4. w.status \in {"READY", "RUNNING"} => Full(t)
    BY <1>0, <1>1 DEF TimesOf, Finished
<1>5. Wait(t) \in Nat \cup {Never} /\ (Full(t) => Wait(t) \in Nat)
    BY <1>0, WaitTypes DEF TimesOf, IndexInv
<1>6. Ttl(w.status) > 0 => /\ hash[t].expires # Never
                           /\ hash[t].expires <= w.since + Ttl(w.status)
    <2>0. setup \in Setups /\ ResultTtl \in Nat /\ CompletedTtl \in Nat
        BY SetupTypes DEF IndexInv, StoreTypes
    <2>1. CASE w.status = "READY"
        BY <1>0, <1>4, <1>5, <2>0, <2>1 DEF CalmHash, CalmRead, Ttl, Finished, Never
    <2>2. CASE w.status = "RUNNING"
        BY <1>0, <1>4, <1>5, <2>0, <2>2 DEF CalmHash, CalmRead, Ttl, Finished, Never
    <2>3. CASE w.status \in Finished
        <3>1. hash[t].done = w.since /\ Ttl(w.status) = CompletedTtl
            BY <1>0, <2>3 DEF CalmRead, Ttl
        <3> QED BY <1>0, <2>0, <2>3, <3>1 DEF CalmHash, Never
    <2> QED BY <1>0, <2>1, <2>2, <2>3 DEF Statuses
<1>7. w.status = "READY" => w.since <= Later(now, Wait(t))
    BY <1>0, <1>4, <1>5 DEF CalmRead, Later
<1>8. Wait(t)' = Wait(t)
    BY <1>0 DEF Wait
<1>9. ASSUME NEW p \in {Backend, own} PROVE Lists(t, p)'
    <2> DEFINE e == [scope |-> p, status |-> w.status, task |-> t, score |-> w.since]
    <2>1. e \in index'
        BY <1>2, IndexedHas
    <2>2. e.scope = p /\ e.task = t /\ e.status = w.status /\ e.score = w.since
        OBVIOUS
    <2> HIDE DEF e
    <2>3. Kept(e)'
        BY <1>0, <1>6, <1>7, <1>8, <2>2 DEF Kept
    <2> QED BY <2>1, <2>2, <2>3 DEF Lists
<1> QED BY <1>3, <1>9 DEF Listed

LEMMA ListedInit == Init => ListedInv
<1> SUFFICES ASSUME Init, NEW t \in Tasks, Stored(t) PROVE Untouched(t)
    BY DEF ListedInv, Expected
<1>1. t \in Legacy
    BY DEF Init, Stored, NoHash
<1> QED BY <1>1 DEF Init, Untouched, Idle

LEMMA ListedStep ==
    /\ IndexInv /\ Paid /\ Times /\ CalmInv /\ DueInv /\ TtlInv /\ ListedInv /\ [Next]_vars
    => ListedInv'
<1> SUFFICES ASSUME IndexInv, Paid, Times, CalmInv, DueInv, TtlInv, ListedInv, [Next]_vars,
                    FinishesOnce', RetriesCovered', NEW t \in Tasks, Expected(t)'
             PROVE  Listed(t)' \/ Untouched(t)'
    BY DEF ListedInv
<1>0. /\ FinishesOnce /\ RetriesCovered /\ Without({"reset"})' /\ Without({"reset"})
      /\ Stored(t)' /\ EarlyTriggers' = EarlyTriggers
      /\ \A status : Ttl(status)' = Ttl(status)
    BY CoveredBefore, SettingsStay DEF FinishesOnce, Expected
<1>1. /\ setup \in Setups /\ now \in Nat /\ ResultTtl \in Nat /\ CompletedTtl \in Nat
      /\ hash[t] \in Hash /\ Wait(t) \in Nat \cup {Never}
      /\ TimesOf(t) /\ DueOf(t) /\ Ttl("READY") = ResultTtl /\ Ttl("RUNNING") = ResultTtl
    BY SetupTypes, WaitTypes DEF IndexInv, StoreTypes, Times, DueInv, Ttl, Finished
<1>2. TtlOf(t)'
    BY <1>0, TtlStep DEF TtlInv
<1>3. ASSUME NEW q \in Scopes, Finishing(t, q) PROVE Listed(t)'
    <2>1. /\ Writes(t, q, now) /\ hash'[t].status \in Finished
          /\ hash'[t].expires = CompletedExpiry(t)
        BY <1>3 DEF Finishing, Ended
    <2>2. /\ hash'[t].status # "READY" /\ Ttl(hash'[t].status) = CompletedTtl
        BY <2>1 DEF Ttl, Finished
    <2>3. CompletedTtl > 0 => /\ hash'[t].expires # Never
                              /\ hash'[t].expires <= now + CompletedTtl
        BY <1>1, <2>1 DEF CompletedExpiry, Never
    <2> QED BY <1>1, <2>1, <2>2, <2>3, WriteLists
<1>4. ASSUME NEW due \in Nat \cup {Never}, Enqueue(t, due) PROVE Listed(t)'
    <2>1. /\ Writes(t, QueueOf[t], Later(now, due)) /\ Later(now, due) \in Nat
          /\ hash'[t].status = "READY" /\ hash'[t].enqueued = now /\ hash'[t].due = due
          /\ hash'[t].expires = WaitingExpiry(due)
        BY <1>4, EnqueueShape
    <2>2. Wait(t)' = Later(now, due) /\ Later(now, due) <= Later(now, Later(now, due))
        BY <1>1, <2>1 DEF Wait, Later
    <2>3. ResultTtl > 0 => /\ hash'[t].expires # Never
                           /\ hash'[t].expires <= Later(now, due) + ResultTtl
        BY <1>1, <2>1 DEF WaitingExpiry, Never
    <2> QED BY <1>1, <2>1, <2>2, <2>3, WriteLists
(* A task that runs, or is handed back, was due: its entry counts from now. *)
<1>5. ASSUME Claim(t) \/ HandBack(t) PROVE Listed(t)'
    <2>1. /\ Writes(t, QueueOf[t], now) /\ SameFields(t) /\ now' = now
          /\ hash'[t].status \in {"READY", "RUNNING"}
        BY <1>5, ClaimShape, HandBackShape DEF SameTimes, Writes
    <2>2. ~EarlyTriggers
        <3>1. CASE Claim(t)
            <4>1. hash'[t].status = "RUNNING"
                BY <3>1, ClaimShape
            <4> QED BY <1>0, <4>1 DEF Expected, EarlyStatuses
        <3>2. CASE HandBack(t)
            <4>1. hash'[t].status = "READY"
                BY <3>2, HandBackShape
            <4>2. spent \in [Kinds -> Nat] /\ spent' = [spent EXCEPT !["handback"] = @ + 1]
                BY <3>2 DEF HandBack, Spend, IndexInv, CallerTypes
            <4>3. ~Without({"handback"})'
                BY <4>2 DEF Without, Kinds
            <4> QED BY <1>0, <4>1, <4>3 DEF Expected, EarlyStatuses
        <3> QED BY <1>5, <3>1, <3>2
    <2>3. Wait(t) <= now
        <3>1. CASE Claim(t)
            BY <1>1, <2>2, <3>1 DEF Claim, Wait, Later, TimesOf, Hash, Never
        <3>2. CASE HandBack(t)
            BY <1>1, <2>2, <3>2, HandBackShape DEF DueOf
        <3> QED BY <1>5, <3>1, <3>2
    <2>4. Wait(t)' = Wait(t) /\ Later(now, Wait(t)) = now
        <3>1. Later(now, Wait(t)) = now
            BY <1>1, <2>3 DEF Later, Never
        <3> QED BY <2>1, <3>1, WaitSame
    <2>5. ResultTtl' = ResultTtl
        BY SettingsStay
    <2>6. ResultTtl > 0 => hash'[t].expires # Never /\ hash'[t].expires <= now + ResultTtl
        BY <1>2, <2>1, <2>4, <2>5 DEF TtlOf
    <2>7. Ttl(hash'[t].status) = ResultTtl /\ now <= Later(now, Wait(t)')
        BY <1>1, <2>1, <2>4
    <2> QED BY <1>1, <2>1, <2>6, <2>7, WriteLists
<1>6. ASSUME GiveUp(t) PROVE FALSE
    <2>1. hash'[t].status = "FAILED"
        BY <1>6, GiveUpShape
    <2>2. giveup'[t] = "marked"
        BY <1>6 DEF GiveUp, IndexInv, CallerTypes
    <2> QED BY <2>1, <2>2 DEF Expected, Unrecorded
<1>7. ASSUME ResetWrites(t) PROVE FALSE
    BY <1>0, <1>7 DEF ResetWrites, Paid, Without
<1>8. ASSUME DeleteWrites(t) PROVE FALSE
    <2>1. hash'[t] = NoHash
        BY <1>8 DEF DeleteWrites, IndexInv, StoreTypes
    <2> QED BY <1>0, <2>1 DEF Stored, NoHash
<1>9. ASSUME NEW w \in rebuild.read, w.task = t, RebuildIndexes(w), StillThere(w),
             hash'[t] = hash[t]
      PROVE  Listed(t)'
    <2>1. spent["rebuild"] # 0 /\ spent'["rebuild"] # 0
        <3>1. spent["rebuild"] # 0
            BY <1>9 DEF RebuildIndexes, Paid
        <3> QED BY <3>1, SpentStays DEF Kinds
    <2>2. Calm'
        BY <2>1, CoveredBefore DEF Without
    <2>3. Calm
        BY <2>2, CalmBefore
    <2>4. CalmHash(w.task) /\ CalmRead(w)
        BY <1>9, <2>3 DEF CalmInv
    <2>5. EarlyTriggers => w.status # "RUNNING"
        BY <1>0, <1>9 DEF Expected, EarlyStatuses, StillThere
    <2> QED BY <1>0, <1>9, <2>4, <2>5, RebuildLists
<1>10. ASSUME Elsewhere(t), ~\E q \in Scopes : Finishing(t, q)
       PROVE  Listed(t)' \/ Untouched(t)'
    <2>1. hash'[t] = hash[t] /\ now' \in Nat /\ now' >= now
        BY <1>0, <1>10, ElsewhereStays
    <2>2. Stored(t) /\ ~Unrecorded(t)
        <3>1. giveup'[t] = "none" => giveup[t] = "none"
            BY <1>6, <1>10, GiveUpEnds
        <3> QED BY <2>1, <3>1 DEF Expected, Unrecorded, Stored
    <2>3. EarlyTriggers => hash[t].status \notin EarlyStatuses
        <3>1. Without({"handback"})' => Without({"handback"})
            BY WithoutBefore DEF Kinds
        <3> QED BY <1>0, <2>1, <3>1 DEF Expected, EarlyStatuses
    <2>4. Listed(t) \/ Untouched(t)
        BY <1>0, <2>2, <2>3 DEF ListedInv, Expected
    <2>5. CASE \E w \in rebuild.read : w.task = t /\ RebuildIndexes(w) /\ StillThere(w)
        BY <1>9, <2>1, <2>5
    <2>6. CASE ~\E w \in rebuild.read : w.task = t /\ RebuildIndexes(w) /\ StillThere(w)
        <3>1. CASE Listed(t)
            <4>1. \A e \in index : e.task = t /\ Kept(e) => e \in index'
                BY <1>10, <2>2, <2>6, EntriesStay
            <4> QED BY <2>1, <2>2, <3>1, <4>1, ListedStays
        <3>2. CASE Untouched(t)
            BY <2>1, <2>2, <2>6, <3>2, UntouchedStays
        <3> QED BY <2>4, <3>1, <3>2
    <2> QED BY <2>5, <2>6
<1> QED BY <1>3, <1>4, <1>5, <1>6, <1>7, <1>8, <1>10, StepElsewhere

(* Everything the two counts rest on.                                      *)
CountInv == Paid /\ Times /\ CalmInv /\ DueInv /\ TtlInv /\ ListedInv

LEMMA CountHolds == Spec => [](IndexInv /\ CountInv)
<1>1. Init => CountInv
    BY PaidInit, TimesInit, CalmInit, DueInit, TtlInit, ListedInit DEF CountInv
<1>2. IndexInv /\ CountInv /\ [Next]_vars => CountInv'
    BY PaidStep, TimesStep, CalmStep, DueStep, TtlStep, ListedStep DEF CountInv
<1> QED BY <1>1, <1>2, IndexHolds, PTL DEF Spec

LEMMA BuiltCovers == IndexInv /\ CountInv => BuiltMeansCovered
<1>1. ASSUME IndexInv, CountInv, built, FinishesOnce, RetriesCovered,
             NEW q \in Scopes, NEW s \in Statuses, EarlyTriggers => s \notin EarlyStatuses,
             NEW t \in Scanned(q, s), ~Unrecorded(t)
      PROVE  /\ t \in Counted(q, s)
             /\ s = "READY" /\ t \in PendingScanned(q) => t \in PendingCounted(q)
    <2>1. t \in Tasks /\ hash[t].status = s /\ (q = Backend \/ (Full(t) /\ q = QueueOf[t]))
        BY <1>1 DEF Scanned, IndexInv, Known
    <2>2. Stored(t) /\ q \in Own(t)
        BY <2>1 DEF Stored, Statuses, Finished, Own
    <2>3. Listed(t)
        BY <1>1, <2>1, <2>2 DEF CountInv, ListedInv, Expected, Untouched
    <2>4. PICK e \in index : e.scope = q /\ e.task = t /\ Kept(e)
        BY <2>2, <2>3 DEF Listed, Lists
    <2>5. now \in Nat
        BY <1>1, SetupTypes DEF IndexInv, StoreTypes
    <2>6. e.status = s /\ e.score > Cutoff(s, now)
        BY <1>1, <2>1, <2>2, <2>4, <2>5, KeptIsAhead DEF Kept
    <2>7. t \in Counted(q, s)
        BY <2>4, <2>6 DEF Counted
    <2>8. ASSUME s = "READY", t \in PendingScanned(q) PROVE t \in PendingCounted(q)
        <3>1. Wait(t) <= now
            BY <2>8 DEF PendingScanned, Wait
        <3>2. Later(now, Wait(t)) = now
            BY <1>1, <2>1, <2>5, <3>1, WaitTypes DEF Later, Never, IndexInv
        <3>3. e.score <= now
            BY <2>4, <2>6, <2>8, <3>2 DEF Kept
        <3> QED BY <2>4, <2>6, <2>8, <3>3 DEF PendingCounted
    <2> QED BY <2>7, <2>8
<1>2. \A q : \A t \in PendingScanned(q) : t \in Scanned(q, "READY") /\ ~Unrecorded(t)
    BY DEF PendingScanned, Scanned, Unrecorded
<1> QED BY <1>1, <1>2 DEF BuiltMeansCovered

(* Once the marker is set, every result that is stored is counted under    *)
(* its status, in the backend and in its queue, and as pending when it is  *)
(* due (has_status_index, _read_status_index, rebuild_status_index).       *)
THEOREM BuiltCoversAll == Spec => []BuiltMeansCovered
BY BuiltCovers, CountHolds, PTL

-----------------------------------------------------------------------------
(* The count of finished tasks                                             *)

(* Every finished hash has the TTL of a finished task.                     *)
AllTtls == ResultTtl = 0 \/ CompletedTtl > 0

(* A recorded end: the hash expires the TTL after it, or never.            *)
EndedHash(t) ==
    /\ hash[t].status \in Finished /\ giveup[t] = "none" =>
          /\ hash[t].done # Never
          /\ hash[t].expires = IF CompletedTtl > 0 THEN hash[t].done + CompletedTtl ELSE Never
    /\ CompletedTtl = 0 => hash[t].expires = Never

(* A finished entry is no newer than the end that its hash records, and    *)
(* past the cutoff when the hash is gone.                                  *)
EndedEntry(e) ==
    e.status \in Finished =>
        /\ e.score <= now
        /\ giveup[e.task] = "none" =>
              /\ hash[e.task].status \in Finished => e.score <= hash[e.task].done
              /\ ~Stored(e.task) /\ (e.scope = Backend \/ Without({"delete", "purge"}))
                    => CompletedTtl > 0 /\ e.score + CompletedTtl <= now

EndedInv ==
    FinishesOnce /\ AllTtls =>
        /\ \A t \in Tasks : EndedHash(t)
        /\ \A e \in index : EndedEntry(e)

LEMMA EndedInit == Init => EndedInv
<1> SUFFICES ASSUME Init, NEW t \in Tasks, AllTtls PROVE EndedHash(t)
    BY DEF EndedInv, Init
<1>1. PICK status \in [Legacy -> {"READY", "FAILED"}] :
          hash = [u \in Tasks |-> IF u \in Legacy THEN LegacyHash(status[u]) ELSE NoHash]
    BY DEF Init
<1>2. ResultTtl \in Nat /\ CompletedTtl \in Nat
    BY SetupTypes DEF Init
<1>3. CASE t \notin Legacy
    BY <1>1, <1>3 DEF EndedHash, NoHash, Finished
<1>4. CASE t \in Legacy /\ status[t] = "READY"
    BY <1>1, <1>2, <1>4 DEF EndedHash, LegacyHash, Ttl, Finished, AllTtls
<1>5. CASE t \in Legacy /\ status[t] = "FAILED"
    BY <1>1, <1>2, <1>5 DEF EndedHash, LegacyHash, Ttl, Finished, AllTtls, Never
<1> QED BY <1>3, <1>4, <1>5

(* A hash that nobody writes or deletes goes only by its TTL.              *)
LEMMA Vanishes ==
    ASSUME IndexInv, NEW t \in Tasks, Elsewhere(t), Stored(t), ~Stored(t)'
    PROVE  Tick
<1>0. hash \in [Tasks -> Hash]
    BY DEF IndexInv, StoreTypes
<1>1. CASE Same
    BY <1>1 DEF Same, Stored
<1>2. ASSUME NEW u \in Tasks \ {t}, NEW q, NEW score, Writes(u, q, score) PROVE FALSE
    BY <1>2 DEF Writes, Stores, Stored
<1>3. ASSUME NEW u \in Tasks \ {t}, DeleteWrites(u) PROVE FALSE
    BY <1>0, <1>3 DEF DeleteWrites, Stored
<1>4. ASSUME NEW w, RebuildIndexes(w) PROVE FALSE
    BY <1>4 DEF RebuildIndexes, Stored
<1>5. ASSUME NEW q, ReadIndex(q) PROVE FALSE
    BY <1>5 DEF ReadIndex, Stored
<1> QED BY <1>1, <1>2, <1>3, <1>4, <1>5 DEF Elsewhere

(* A task that nobody writes has a new entry only from a rebuild.          *)
LEMMA NewEntry ==
    ASSUME IndexInv, NEW t \in Tasks, Elsewhere(t), NEW e, e \in index', e \notin index,
           e.task = t
    PROVE  /\ \E w \in rebuild.read : /\ w.task = t /\ RebuildIndexes(w) /\ StillThere(w)
                                      /\ e.score = w.since /\ e.status = w.status
           /\ hash' = hash /\ now' = now
<1>1. CASE Same \/ Tick
    BY <1>1 DEF Same, Tick
<1>2. ASSUME NEW u \in Tasks \ {t}, NEW q, NEW score, Writes(u, q, score) PROVE FALSE
    <2>1. index' = Indexed(index, {Backend, q}, u, hash'[u].status, score,
                           Cutoff(hash'[u].status, now))
        BY <1>2 DEF Writes, Moves
    <2>2. e = [scope |-> e.scope, status |-> hash'[u].status, task |-> u, score |-> score]
        BY <2>1, IndexedEntries
    <2>3. e.task = u
        BY <2>2
    <2> QED BY <2>3
<1>3. ASSUME NEW u \in Tasks \ {t}, DeleteWrites(u) PROVE FALSE
    BY <1>3 DEF DeleteWrites
<1>4. ASSUME NEW w \in rebuild.read, RebuildIndexes(w)
      PROVE  /\ w.task = t /\ StillThere(w) /\ e.score = w.since /\ e.status = w.status
             /\ hash' = hash /\ now' = now
    <2> DEFINE scopes == {Backend, Queue(w.task, w.full)}
    <2>1. /\ hash' = hash /\ now' = now /\ StillThere(w)
          /\ index' = Indexed(index, scopes, w.task, w.status, w.since,
                              Cutoff(w.status, rebuild.start))
        BY <1>4 DEF RebuildIndexes
    <2>2. e = [scope |-> e.scope, status |-> w.status, task |-> w.task, score |-> w.since]
        BY <2>1, IndexedEntries
    <2>3. e.task = w.task /\ e.status = w.status /\ e.score = w.since
        BY <2>2
    <2> QED BY <2>1, <2>3
<1>5. ASSUME NEW q, ReadIndex(q) PROVE FALSE
    BY <1>5 DEF ReadIndex
<1> QED BY <1>1, <1>2, <1>3, <1>4, <1>5 DEF Elsewhere

LEMMA EndedHashStep ==
    ASSUME IndexInv, CountInv, EndedInv, [Next]_vars, FinishesOnce', AllTtls, NEW t \in Tasks
    PROVE  EndedHash(t)'
<1>0. /\ EndedHash(t) /\ Without({"reset"}) /\ Paid /\ now \in Nat
      /\ hash[t] \in Hash /\ hash \in [Tasks -> Hash]
      /\ ResultTtl \in Nat /\ CompletedTtl \in Nat /\ CompletedTtl' = CompletedTtl
    BY CoveredBefore, SettingsStay, SetupTypes
       DEF EndedInv, CountInv, IndexInv, StoreTypes, FinishesOnce
<1>1. ASSUME NEW q \in Scopes, Finishing(t, q) PROVE EndedHash(t)'
    <2>1. /\ hash'[t].done = now /\ hash'[t].expires = CompletedExpiry(t)
        BY <1>1 DEF Finishing, Ended
    <2> QED BY <1>0, <2>1 DEF EndedHash, CompletedExpiry, Never
<1>2. ASSUME hash'[t] = NoHash PROVE EndedHash(t)'
    BY <1>2 DEF EndedHash, NoHash, Finished
<1>3. ASSUME hash'[t].expires = hash[t].expires,
             hash'[t].status \in Finished => giveup'[t] # "none"
      PROVE  EndedHash(t)'
    BY <1>0, <1>3 DEF EndedHash
<1>4. ASSUME NEW due \in Nat \cup {Never}, Enqueue(t, due) PROVE EndedHash(t)'
    <2>1. /\ hash'[t].status = "READY" /\ hash'[t].expires = WaitingExpiry(due)
        BY <1>4, EnqueueShape
    <2> QED BY <1>0, <2>1 DEF EndedHash, WaitingExpiry, AllTtls, Finished
<1>5. ASSUME Claim(t) \/ HandBack(t) PROVE EndedHash(t)'
    <2>1. /\ hash'[t].expires = hash[t].expires /\ hash'[t].status \in {"READY", "RUNNING"}
        BY <1>5, ClaimShape, HandBackShape DEF SameTimes
    <2> QED BY <1>3, <2>1 DEF Finished
<1>6. ASSUME GiveUp(t) PROVE EndedHash(t)' /\ giveup'[t] = "marked"
    <2>1. hash'[t].expires = hash[t].expires
        BY <1>6, GiveUpShape DEF SameTimes
    <2>2. giveup'[t] = "marked"
        BY <1>6 DEF GiveUp, IndexInv, CallerTypes
    <2> QED BY <1>3, <2>1, <2>2
<1>7. ASSUME ResetWrites(t) PROVE FALSE
    BY <1>0, <1>7 DEF ResetWrites, Paid, Without
<1>8. ASSUME DeleteWrites(t) PROVE EndedHash(t)'
    BY <1>2, <1>8 DEF DeleteWrites, IndexInv, StoreTypes
<1>9. ASSUME Elsewhere(t), ~(\E q \in Scopes : Finishing(t, q)) PROVE EndedHash(t)'
    <2>1. CASE Stored(t)'
        <3>1. hash'[t] = hash[t]
            BY <1>9, <2>1, ElsewhereStays
        <3>2. giveup'[t] = "none" => giveup[t] = "none"
            BY <1>6, <1>9, GiveUpEnds
        <3> QED BY <1>0, <3>1, <3>2 DEF EndedHash
    <2>2. CASE ~Stored(t)'
        <3>1. hash'[t] = NoHash
            BY <2>2, StoreTypesStep DEF StoreTypes, Sound, Stored
        <3> QED BY <1>2, <3>1
    <2> QED BY <2>1, <2>2
<1> QED BY <1>1, <1>4, <1>5, <1>6, <1>7, <1>8, <1>9, StepElsewhere

LEMMA NowGrows ==
    ASSUME IndexInv, [Next]_vars
    PROVE  now \in Nat /\ now' \in Nat /\ now' >= now
<1>0. now \in Nat
    BY SetupTypes DEF IndexInv, StoreTypes
<1>1. CASE Tick
    BY <1>0, <1>1 DEF Tick
<1>2. CASE Same
    BY <1>0, <1>2 DEF Same
<1>3. CASE Writing
    BY <1>0, <1>3 DEF Writing, Writes
<1>4. ASSUME NEW t \in Tasks, DeleteWrites(t) PROVE now' = now
    BY <1>4 DEF DeleteWrites
<1>5. ASSUME NEW w, RebuildIndexes(w) PROVE now' = now
    BY <1>5 DEF RebuildIndexes
<1>6. ASSUME NEW q, ReadIndex(q) PROVE now' = now
    BY <1>6 DEF ReadIndex
<1> QED BY <1>0, <1>1, <1>2, <1>3, <1>4, <1>5, <1>6, StepShapes

LEMMA EndedEntryStep ==
    ASSUME IndexInv, CountInv, EndedInv, [Next]_vars, FinishesOnce', AllTtls,
           NEW e, e \in index'
    PROVE  EndedEntry(e)'
<1> DEFINE t == e.task
<1>0. /\ Without({"reset"}) /\ Paid /\ now \in Nat /\ now' \in Nat /\ now' >= now
      /\ hash \in [Tasks -> Hash] /\ hash[t] \in Hash /\ hash'[t] \in Hash
      /\ EndedHash(t) /\ TimesOf(t) /\ e \in Entry /\ StoreTypes'
      /\ CompletedTtl \in Nat /\ CompletedTtl' = CompletedTtl
      /\ e \in index => EndedEntry(e)
    <2>1. StoreTypes'
        BY StoreTypesStep
    <2>2. e \in Entry /\ t \in Tasks
        BY <2>1 DEF StoreTypes, Entry
    <2>3. now \in Nat /\ now' \in Nat /\ now' >= now
        BY NowGrows
    <2> QED BY <2>1, <2>2, <2>3, CoveredBefore, SettingsStay, SetupTypes
            DEF EndedInv, CountInv, Times, IndexInv, StoreTypes, FinishesOnce
<1>1. SUFFICES ASSUME e.status \in Finished
               PROVE  /\ e.score <= now'
                      /\ giveup'[t] = "none" =>
                            /\ hash'[t].status \in Finished => e.score <= hash'[t].done
                            /\ ~Stored(t)' /\ (e.scope = Backend \/ Without({"delete", "purge"})')
                                  => CompletedTtl > 0 /\ e.score + CompletedTtl <= now'
    BY <1>0 DEF EndedEntry
<1>2. t \in Tasks /\ e.score \in Nat /\ e.scope \in Scopes
    BY <1>0 DEF Entry
(* A write of the task: what is not moved was finished no later than now.  *)
<1>3. ASSUME NEW q \in Scopes, NEW score \in Nat, Writes(t, q, score),
             hash'[t].status \in Finished => score <= now
      PROVE  e.score <= now /\ now' = now /\ Stored(t)'
    <2>1. index' = Indexed(index, {Backend, q}, t, hash'[t].status, score,
                           Cutoff(hash'[t].status, now))
        BY <1>3 DEF Writes, Moves
    <2>2. CASE e \in index
        BY <1>0, <1>1, <1>3, <2>2 DEF EndedEntry, Writes, Stores, Stored, Statuses, Finished
    <2>3. CASE e.score = score /\ e.status = hash'[t].status
        BY <1>1, <1>3, <2>3 DEF Writes, Stores, Stored, Statuses, Finished
    <2>4. \/ e \in index
          \/ e = [scope |-> e.scope, status |-> hash'[t].status, task |-> t, score |-> score]
        BY <2>1, IndexedEntries
    <2> QED BY <2>2, <2>3, <2>4
<1>4. ASSUME NEW q \in Scopes, Finishing(t, q) PROVE e.score <= now' /\ Stored(t)'
                                                     /\ e.score <= hash'[t].done
    BY <1>0, <1>3, <1>4 DEF Finishing, Ended
<1>5. ASSUME NEW due \in Nat \cup {Never}, Enqueue(t, due)
      PROVE  e.score <= now' /\ Stored(t)' /\ hash'[t].status \notin Finished
    <2>1. /\ Writes(t, QueueOf[t], Later(now, due)) /\ Later(now, due) \in Nat
          /\ hash'[t].status = "READY"
        BY <1>2, <1>5, EnqueueShape
    <2> QED BY <1>2, <1>3, <2>1, OwnScopes DEF Finished
<1>6. ASSUME Claim(t) \/ HandBack(t)
      PROVE  e.score <= now' /\ Stored(t)' /\ hash'[t].status \notin Finished
    <2>1. /\ Writes(t, QueueOf[t], now) /\ hash'[t].status \in {"READY", "RUNNING"}
        BY <1>2, <1>6, ClaimShape, HandBackShape
    <2> QED BY <1>0, <1>2, <1>3, <2>1, OwnScopes DEF Finished
<1>7. ASSUME GiveUp(t) PROVE e.score <= now' /\ giveup'[t] # "none"
    <2>1. Writes(t, QueueOf[t], now) /\ now <= now
        BY <1>0, <1>2, <1>7, GiveUpShape
    <2>2. giveup'[t] = "marked"
        BY <1>2, <1>7 DEF GiveUp, IndexInv, CallerTypes
    <2> QED BY <1>0, <1>2, <1>3, <2>1, <2>2, OwnScopes
<1>8. ASSUME ResetWrites(t) PROVE FALSE
    BY <1>0, <1>2, <1>8 DEF ResetWrites, Paid, Without
<1>9. ASSUME DeleteWrites(t) PROVE EndedEntry(e)'
    <2>1. /\ index' = {f \in index : f.task # t \/ f.scope \notin Swept(t)}
          /\ now' = now /\ hash'[t] = NoHash /\ delete[t][1] # "none"
        BY <1>0, <1>2, <1>9 DEF DeleteWrites
    <2>2. e \in index /\ e.scope # Backend
        BY <2>1 DEF Swept
    <2>3. ~Without({"delete", "purge"})'
        <3>1. spent["delete"] # 0 \/ spent["purge"] # 0
            BY <1>0, <1>2, <2>1 DEF Paid
        <3>2. spent'["delete"] # 0 \/ spent'["purge"] # 0
            BY <3>1, SpentStays DEF Kinds
        <3> QED BY <3>2 DEF Without
    <2> QED BY <1>0, <1>1, <2>1, <2>2, <2>3 DEF EndedEntry, NoHash, Finished
(* The rebuild brings back the end that the hash records.                  *)
<1>10. ASSUME NEW w \in rebuild.read, w.task = t, RebuildIndexes(w), StillThere(w),
              e.score = w.since, e.status = w.status
       PROVE  e.score = hash[t].done /\ hash[t].status \in Finished
    <2>1. spent["rebuild"] # 0 /\ spent'["rebuild"] # 0
        <3>1. spent["rebuild"] # 0
            BY <1>0, <1>10 DEF RebuildIndexes, Paid
        <3> QED BY <3>1, SpentStays DEF Kinds
    <2>2. Calm'
        BY <2>1, CoveredBefore DEF Without
    <2>3. Calm
        BY <2>2, CalmBefore
    <2>4. CalmRead(w)
        BY <2>3 DEF CalmInv, CountInv
    <2> QED BY <1>1, <1>10, <2>4 DEF CalmRead, StillThere
<1>11. ASSUME Elsewhere(t), ~(\E q \in Scopes : Finishing(t, q)),
              e \in index
       PROVE  EndedEntry(e)'
    <2>0. giveup'[t] = "none" => giveup[t] = "none"
        BY <1>2, <1>7, <1>11, GiveUpEnds
    <2>1. EndedEntry(e) /\ e.score <= now
        BY <1>0, <1>1, <1>11 DEF EndedEntry
    <2>2. CASE Stored(t)'
        <3>1. hash'[t] = hash[t]
            BY <1>2, <1>11, <2>2, ElsewhereStays
        <3> QED BY <1>0, <1>2, <2>0, <2>1, <2>2, <3>1 DEF EndedEntry
    <2>3. CASE ~Stored(t)' /\ ~Stored(t)
        <3>1. Without({"delete", "purge"})' => Without({"delete", "purge"})
            BY WithoutBefore DEF Kinds
        <3> QED BY <1>0, <1>1, <1>2, <2>0, <2>1, <2>3, <3>1 DEF EndedEntry, Stored, Finished
    <2>4. CASE ~Stored(t)' /\ Stored(t)
        <3>1. Tick
            BY <1>0, <1>2, <1>11, <2>4, Vanishes
        <3>2. hash[t].expires # Never /\ hash[t].expires <= now'
            BY <1>2, <2>4, <3>1 DEF Tick, Expired, Stored
        <3>3. ASSUME giveup[t] = "none", e.scope = Backend \/ Without({"delete", "purge"})
              PROVE  CompletedTtl > 0 /\ e.score + CompletedTtl <= now'
            <4>1. hash[t].status \in Finished
                <5>1. CASE Full(t) \/ e.scope = Backend
                    BY <1>1, <1>11, <2>4, <5>1 DEF IndexInv, IndexAgrees
                <5>2. CASE ~Full(t)
                    BY <1>0, <2>4, <5>2 DEF TimesOf
                <5> QED BY <5>1, <5>2
            <4>2. e.score <= hash[t].done
                BY <1>1, <2>1, <3>3, <4>1 DEF EndedEntry
            <4>3. /\ hash[t].done # Never /\ CompletedTtl > 0
                  /\ hash[t].expires = hash[t].done + CompletedTtl
                BY <1>0, <3>2, <3>3, <4>1 DEF EndedHash
            <4>4. hash[t].done \in Nat
                BY <1>0, <4>3 DEF Hash
            <4> QED BY <1>0, <1>2, <3>2, <4>2, <4>3, <4>4
        <3>4. Without({"delete", "purge"})' => Without({"delete", "purge"})
            BY WithoutBefore DEF Kinds
        <3>5. hash'[t].status \notin Finished
            BY <2>4 DEF Stored, Finished
        <3> QED BY <1>0, <1>2, <2>0, <2>1, <3>3, <3>4, <3>5 DEF EndedEntry
    <2> QED BY <2>2, <2>3, <2>4
<1>12. ASSUME Elsewhere(t), e \notin index
       PROVE  /\ \E w \in rebuild.read : /\ w.task = t /\ RebuildIndexes(w) /\ StillThere(w)
                                         /\ e.score = w.since /\ e.status = w.status
              /\ hash' = hash /\ now' = now
    BY <1>2, <1>12, NewEntry
<1>13. ASSUME Elsewhere(t), e \notin index PROVE EndedEntry(e)'
    <2>1. e.score = hash[t].done /\ hash[t].status \in Finished /\ hash' = hash /\ now' = now
        BY <1>10, <1>12, <1>13
    <2>2. hash[t].done <= now
        BY <1>0 DEF TimesOf
    <2>3. Stored(t)'
        BY <2>1 DEF Stored, Finished
    <2> QED BY <1>0, <1>2, <2>1, <2>2, <2>3 DEF EndedEntry
<1> QED BY <1>0, <1>1, <1>2, <1>4, <1>5, <1>6, <1>7, <1>8, <1>9, <1>11, <1>13, StepElsewhere
        DEF EndedEntry

LEMMA EndedStep == IndexInv /\ CountInv /\ EndedInv /\ [Next]_vars => EndedInv'
<1> SUFFICES ASSUME IndexInv, CountInv, EndedInv, [Next]_vars, FinishesOnce', AllTtls'
             PROVE  /\ \A t \in Tasks : EndedHash(t)'
                    /\ \A e \in index' : EndedEntry(e)'
    BY DEF EndedInv
<1>1. AllTtls
    BY SettingsStay DEF AllTtls
<1>2. \A t \in Tasks : EndedHash(t)'
    BY <1>1, EndedHashStep
<1>3. \A e : e \in index' => EndedEntry(e)'
    BY <1>1, EndedEntryStep
<1> QED BY <1>2, <1>3

(* A finished task is counted exactly as long as its result is stored:     *)
(* the entries that a read does not prune are those of the hashes that     *)
(* have not expired (index_status, _read_status_index, delete_task_data).  *)
THEOREM FinishedCountsExactly == Spec => []FinishedCountIsExact
<1>1. ASSUME IndexInv, CountInv, EndedInv, built, FinishesOnce, RetriesCovered, AllTtls,
             NEW q \in Scopes, NEW s \in Finished, q = Backend \/ Without({"delete", "purge"})
      PROVE  {t \in Counted(q, s) : (Stored(t) => Full(t)) /\ giveup[t] = "none"}
                 = {t \in Scanned(q, s) : Full(t) /\ giveup[t] = "none"}
    <2>1. ASSUME NEW t \in Counted(q, s), Stored(t) => Full(t), giveup[t] = "none"
          PROVE  t \in Scanned(q, s) /\ Full(t)
        <3>1. PICK e \in index : /\ e.task = t /\ e.scope = q /\ e.status = s
                                 /\ e.score > Cutoff(s, now)
            BY DEF Counted
        <3>2. /\ t \in Tasks /\ e.score \in Nat /\ now \in Nat /\ CompletedTtl \in Nat
              /\ EndedEntry(e) /\ TimesOf(t)
            BY <1>1, <3>1, SetupTypes
               DEF IndexInv, StoreTypes, Entry, EndedInv, CountInv, Times
        <3>3. Stored(t)
            <4> SUFFICES ASSUME ~Stored(t) PROVE FALSE
                OBVIOUS
            <4>1. CompletedTtl > 0 /\ e.score + CompletedTtl <= now
                BY <1>1, <2>1, <3>1, <3>2 DEF EndedEntry
            <4>2. Cutoff(s, now) = now - CompletedTtl
                BY <4>1 DEF Cutoff, Ttl
            <4> QED BY <3>1, <3>2, <4>1, <4>2
        <3>4. hash[t].status = s
            BY <1>1, <2>1, <3>1, <3>3 DEF IndexInv, IndexAgrees
        <3>5. q = Backend \/ q = QueueOf[t]
            BY <1>1, <2>1, <3>1, <3>3 DEF IndexInv, OwnQueue, Bare
        <3> QED BY <2>1, <3>2, <3>3, <3>4, <3>5 DEF Scanned, TimesOf
    <2>2. ASSUME NEW t \in Scanned(q, s), giveup[t] = "none" PROVE t \in Counted(q, s)
        <3>1. s \in Statuses /\ (EarlyTriggers => s \notin EarlyStatuses) /\ ~Unrecorded(t)
            BY <2>2 DEF Statuses, Finished, EarlyStatuses, Unrecorded
        <3> QED BY <1>1, <2>2, <3>1, BuiltCovers DEF BuiltMeansCovered
    <2> QED BY <2>1, <2>2
<1>2. IndexInv /\ CountInv /\ EndedInv => FinishedCountIsExact
    BY <1>1 DEF FinishedCountIsExact, AllTtls
<1>3. Init => EndedInv
    BY EndedInit
<1> QED BY <1>2, <1>3, EndedStep, CountHolds, PTL DEF Spec

=============================================================================
