--------------------------- MODULE Custody_proofs ---------------------------
(***************************************************************************)
(* Who has a message: theorems about pending messages, the messages of a   *)
(* task, and, from the two, that no task is executed twice at once, by the *)
(* messages or by the claim, and that none is lost.                        *)
(***************************************************************************)
EXTENDS TaskQueue_proofs

USE StreamAssumption, TaskQueueAssumption

(***************************************************************************)
(* The consumers a worker is about to remove are down and hold nothing on  *)
(* the stream it removes them from; since they are down, nothing can come  *)
(* to them between the look and the removal.                               *)
(***************************************************************************)
InHand(w) ==
    pc[w] \in HandSteps =>
        /\ cur[w] \in Msg \ batch[w]
        /\ place[cur[w]] = "pending" /\ owner[cur[w]] = w
        /\ job[w] = entry[cur[w]]

InBatch(w) == \A m \in batch[w] : place[m] = "pending" /\ owner[m] = w

DownIdle(w) == pc[w] = "down" => batch[w] = {}

DoomedIdle(w) ==
    /\ doomed[w] # {} => pc[w] = "remove"
    /\ \A c \in doomed[w] :
          pc[c] = "down" /\ \A m \in Msg :
             place[m] = "pending" /\ owner[m] = c => ~In(m, at[w])

(* What it acknowledged stays acknowledged until it deletes it.            *)
Acked(w) ==
    pc[w] = "xdel" => cur[w] \in Msg /\ place[cur[w]] \in {"behind", "deleted"}

CustodyOf(w) ==
    InHand(w) /\ InBatch(w) /\ Acked(w) /\ DownIdle(w) /\ DoomedIdle(w)

CustodyInv == \A w \in Worker : CustodyOf(w)

(***************************************************************************)
(* What a step does to a worker that does not take it.                     *)
(***************************************************************************)
SameLocals(w) ==
    /\ pc'[w] = pc[w] /\ cur'[w] = cur[w] /\ job'[w] = job[w]
    /\ batch'[w] = batch[w] /\ at'[w] = at[w] /\ doomed'[w] = doomed[w]

Kept(w) ==
    \A m \in Msg :
        /\ place[m] = "pending" /\ owner[m] = w /\ pc[w] # "down" /\
           (m \in batch[w] \/ (pc[w] \in HandSteps /\ m = cur[w]))
           => place'[m] = "pending" /\ owner'[m] = w /\ entry'[m] = entry[m]
        /\ place[m] \in {"behind", "deleted"} =>
              place'[m] \in {"behind", "deleted"}

NothingTo(c) ==
    \A m \in Msg :
        place'[m] = "pending" /\ owner'[m] = c =>
            place[m] = "pending" /\ owner[m] = c /\ entry'[m] = entry[m]

DownStays == \A c \in Worker : pc[c] = "down" => pc'[c] = "down" /\ NothingTo(c)

(* Such a worker keeps its custody.                                        *)
LEMMA Others ==
    ASSUME TypeInv, NEW w \in Worker, CustodyOf(w), SameLocals(w), Kept(w),
           DownStays
    PROVE  CustodyOf(w)'
<1> USE DEF CustodyOf, SameLocals, Kept
<1>1. batch[w] \subseteq Msg /\ doomed[w] \subseteq Worker
  BY DEF TypeInv, TypeOK, LocalTypeOK, Actor
<1>2. InBatch(w)' BY <1>1 DEF InBatch, DownIdle
<1>3. InHand(w)'
  BY <1>1 DEF InHand, HandSteps, RunSteps
<1>4. Acked(w)' /\ DownIdle(w)' BY DEF Acked, DownIdle
<1>5. DoomedIdle(w)' BY <1>1 DEF DoomedIdle, DownStays, NothingTo, In
<1> QED BY <1>2, <1>3, <1>4, <1>5

(* The Redis commands, as a worker that does not issue them sees them.     *)
LEMMA AddKeeps ==
    ASSUME NEW t \in Task, XAdd(t), StreamTypeOK, NEW w \in Worker
    PROVE  Kept(w) /\ NothingTo(w)
BY DEF XAdd, StreamTypeOK, Kept, NothingTo

LEMMA SameKeeps ==
    ASSUME UNCHANGED streamVars, NEW w \in Worker
    PROVE  Kept(w) /\ NothingTo(w)
BY DEF streamVars, Kept, NothingTo

LEMMA DeliverKeeps ==
    ASSUME NEW c \in Worker, NEW M \in SUBSET Msg, Deliver(c, M),
           \A m \in M : \/ place[m] = "queued"
                        \/ place[m] = "pending" /\ owner[m] = c,
           NEW w \in Worker, w # c
    PROVE  Kept(w) /\ NothingTo(w)
BY DEF Deliver, Kept, NothingTo

LEMMA DropKeeps ==
    ASSUME NEW M \in SUBSET Msg, DropPending(M), StreamTypeOK, NEW w \in Worker,
           pc[w] = "down" \/ \A m \in M : owner[m] # w
    PROVE  Kept(w) /\ NothingTo(w)
BY DEF DropPending, StreamTypeOK, Kept, NothingTo

(* A sweep takes a message only from a worker that is down, or that does   *)
(* not have it in hand: without slow workers nobody else is silent.        *)
LEMMA ClaimKeeps ==
    ASSUME Slow = {}, NEW c \in Worker, NEW n \in Msg, MayBeStale(n),
           XClaim(c, n), StreamTypeOK, NEW w \in Worker, w # c
    PROVE  Kept(w) /\ NothingTo(w)
BY DEF MayBeStale, Silent, Handling, XClaim, StreamTypeOK, Kept, NothingTo,
       HandSteps, RunSteps, SweepSteps

LEMMA DelKeeps ==
    ASSUME NEW n \in Msg, XDel(n), place[n] \in {"behind", "deleted"},
           StreamTypeOK, NEW w \in Worker
    PROVE  Kept(w) /\ NothingTo(w)
BY DEF XDel, StreamTypeOK, Kept, NothingTo

(* A worker that leaves what it was doing has nothing in custody; one that *)
(* goes on to the next command about the message it has keeps it.          *)
LEMMA OwnLeave ==
    ASSUME TypeInv, NEW w \in Worker, NEW p \in Steps \ (HandSteps \cup {"xdel"}),
           Leave(w, p)
    PROVE  CustodyOf(w)'
BY DEF Leave, CustodyOf, InHand, InBatch, Acked, DownIdle, DoomedIdle,
       TypeInv, TypeOK, LocalTypeOK, Actor

LEMMA OwnGo ==
    ASSUME TypeInv, NEW w \in Worker, CustodyOf(w), NEW p \in HandSteps, Go(w, p),
           pc[w] \in HandSteps, UNCHANGED streamVars
    PROVE  CustodyOf(w)'
BY DEF Go, CustodyOf, InHand, InBatch, Acked, DownIdle, DoomedIdle, streamVars,
       TypeInv, TypeOK, LocalTypeOK, Actor, HandSteps, RunSteps

(* So the custody of all workers is left to the one that takes the step.   *)
LEMMA Frame ==
    ASSUME TypeInv, CustodyInv, NEW a \in Actor,
           a \in Worker => pc[a] # "down" /\ CustodyOf(a)',
           \A w \in Worker \ {a} : SameLocals(w) /\ Kept(w) /\ NothingTo(w)
    PROVE  CustodyInv'
<1>1. DownStays BY DEF DownStays, SameLocals
<1>2. ASSUME NEW w \in Worker, w # a PROVE CustodyOf(w)'
  BY <1>1, <1>2, Others DEF CustodyInv
<1> QED BY <1>2 DEF CustodyInv

(* The locals of the others are their own.                                 *)
LEMMA OnlyOwn ==
    ASSUME TypeInv, NEW a \in Actor, NEW w \in Worker, w # a,
           \E p \in Steps : Leave(a, p) \/ Go(a, p)
    PROVE  SameLocals(w)
BY DEF TypeInv, TypeOK, LocalTypeOK, SameLocals, Leave, Go, Actor

LEMMA CustodyClient ==
    ASSUME TypeInv, CustodyInv, NEW t \in Task, Client(t) \/ ResetDies(t)
    PROVE  CustodyInv'
<1>1. UNCHANGED localVars /\ (XAdd(t) \/ UNCHANGED streamVars)
  BY DEF Client, EnqueueNow, EnqueueLater, ComesDue, Vanish, ResetRead,
         ResetWrite, Requeue, ResetDies
<1>2. \A w \in Worker : Kept(w) /\ NothingTo(w)
  BY <1>1, AddKeeps, SameKeeps DEF TypeInv, TypeOK
<1>3. \A w \in Worker : SameLocals(w) BY <1>1 DEF localVars, SameLocals
<1>4. DownStays BY <1>2, <1>3 DEF DownStays, SameLocals
<1> QED BY <1>2, <1>3, <1>4, Others DEF CustodyInv

LEMMA CustodyRun ==
    ASSUME TypeInv, CustodyInv, NEW a \in Actor, Run(a)
    PROVE  CustodyInv'
<1>1. UNCHANGED streamVars
  BY DEF Run, Call, Claim, Start, SetupFails, Finish, ReportSuccess,
         ReportFailure
<1>2. CASE Call(a)
  <2>1. a \notin Worker BY <1>2 DEF Call
  <2>2. \A w \in Worker \ {a} : SameLocals(w)
    BY <1>2 DEF Call, SameLocals, TypeInv, TypeOK, LocalTypeOK
  <2> QED BY <1>1, <2>1, <2>2, SameKeeps, Frame
<1>3. CASE ~Call(a)
  <2>1. pc[a] \in RunSteps
    BY <1>3 DEF Run, Claim, Start, SetupFails, Finish, ReportSuccess,
                ReportFailure, RunSteps
  <2>2. \/ \E p \in {"start", "run", "sent", "failed"} : Go(a, p)
        \/ AfterRun(a) \/ Raise(a)
    BY <1>3 DEF Run, Claim, Start, SetupFails, Finish, ReportSuccess,
                ReportFailure
  <2>3. \/ \E p \in HandSteps : Go(a, p)
        \/ Leave(a, Base(a)) \/ (a \notin Worker /\ Leave(a, "idle"))
    BY <2>2 DEF AfterRun, Raise, HandSteps, RunSteps
  <2>4. HandSteps \subseteq Steps /\ {"loop", "idle"} \subseteq Steps \ HandSteps
    BY DEF HandSteps, Steps, RunSteps, ReceiveSteps, SweepSteps
  <2>5. \A w \in Worker \ {a} : SameLocals(w)
    BY <2>3, <2>4, OnlyOwn DEF Base
  <2>6. a \in Worker => CustodyOf(a)'
    BY <1>1, <2>1, <2>3, <2>4, OwnGo, OwnLeave DEF CustodyInv, HandSteps, Base
  <2>7. pc[a] # "down" BY <2>1 DEF RunSteps
  <2> QED BY <1>1, <2>5, <2>6, <2>7, SameKeeps, Frame
<1> QED BY <1>2, <1>3

LEMMA CustodyReceive ==
    ASSUME TypeInv, CustodyInv, NEW w \in Worker, Receive(w)
    PROVE  CustodyInv'
<1>1. w \in Actor /\ CustodyOf(w) /\ StreamTypeOK /\ cur[w] \in Msg \cup {0}
      /\ batch[w] \subseteq Msg /\ doomed[w] \subseteq Worker
  BY DEF CustodyInv, Actor, TypeInv, TypeOK, LocalTypeOK
<1>2. pc[w] # "down"
  BY DEF Receive, BeginReceive, PromoteOne, PromoteDone, ReadHistory, ReadNew,
         WaitRead, WaitOver, TakeDone, TakeEarly, TakeReady, TakeNext, Defer,
         Ack, Delete
<1>3. \A v \in Worker \ {w} : SameLocals(v)
  <2> USE DEF SameLocals, TypeInv, TypeOK, LocalTypeOK, Actor
  <2>1. CASE \E p : Go(w, p) \/ Leave(w, p) BY <2>1 DEF Go, Leave
  <2>2. CASE ReadHistory(w) \/ ReadNew(w) \/ WaitRead(w)
    BY <2>2 DEF ReadHistory, ReadNew, WaitRead
  <2>3. CASE TakeDone(w) \/ TakeEarly(w) \/ TakeReady(w)
    BY <2>3 DEF TakeDone, TakeEarly, TakeReady, Handle
  <2>4. CASE Delete(w) BY <2>4 DEF Delete, Go, Leave
  <2> QED BY <2>1, <2>2, <2>3, <2>4
      DEF Receive, BeginReceive, PromoteOne, PromoteDone, WaitOver, TakeNext,
          Defer, Ack
<1>4. (\A v \in Worker \ {w} : Kept(v) /\ NothingTo(v)) /\ CustodyOf(w)'
  <2>1. CASE BeginReceive(w) \/ PromoteDone(w) \/ TakeNext(w)
    <3>1. UNCHANGED streamVars
      BY <2>1 DEF BeginReceive, PromoteDone, TakeNext
    <3>2. CustodyOf(w)'
      BY <1>1, <2>1, <3>1
      DEF BeginReceive, PromoteDone, TakeNext, Go, CustodyOf, InHand, InBatch,
          Acked, DownIdle, DoomedIdle, HandSteps, RunSteps, streamVars,
          TypeInv, TypeOK, LocalTypeOK
    <3> QED BY <3>1, <3>2, SameKeeps
  <2>2. CASE PromoteOne(w)
    <3>1. ASSUME NEW t \in Task, XAdd(t), Go(w, "promote")
          PROVE  (\A v \in Worker \ {w} : Kept(v) /\ NothingTo(v)) /\ CustodyOf(w)'
      <4>1. \A m \in Msg : place[m] = "pending" =>
               place'[m] = "pending" /\ owner'[m] = owner[m] /\ entry'[m] = entry[m]
        BY <1>1, <3>1 DEF XAdd, StreamTypeOK
      <4>2. \A m \in Msg : place'[m] = "pending" =>
               place[m] = "pending" /\ owner'[m] = owner[m] /\ entry'[m] = entry[m]
        BY <1>1, <3>1 DEF XAdd, StreamTypeOK
      <4> QED
        BY <1>1, <2>2, <3>1, <4>1, <4>2, AddKeeps
        DEF PromoteOne, Go, CustodyOf, InHand, InBatch, Acked, DownIdle,
            DoomedIdle, HandSteps, RunSteps, TypeInv, TypeOK, LocalTypeOK
    <3>2. ASSUME UNCHANGED streamVars, Go(w, "promote")
          PROVE  CustodyOf(w)'
      BY <1>1, <2>2, <3>2
      DEF PromoteOne, Go, CustodyOf, InHand, InBatch, Acked, DownIdle,
          DoomedIdle, HandSteps, RunSteps, streamVars, TypeInv, TypeOK, LocalTypeOK
    <3>3. Leave(w, "loop") => CustodyOf(w)'
      BY OwnLeave DEF HandSteps, RunSteps, Steps
    <3>4. delayed \subseteq Task BY DEF TypeInv, TypeOK, StoreTypeOK
    <3>5. \/ UNCHANGED streamVars /\ Leave(w, "loop")
          \/ UNCHANGED streamVars /\ Go(w, "promote")
          \/ \E t \in Task : XAdd(t) /\ Go(w, "promote")
      BY <2>2, <3>4 DEF PromoteOne
    <3> QED BY <3>1, <3>2, <3>3, <3>5, SameKeeps
  <2>3. ASSUME NEW M \in SUBSET Msg, Deliver(w, M),
               \A m \in M : \/ place[m] = "queued"
                            \/ place[m] = "pending" /\ owner[m] = w,
               batch' = [batch EXCEPT ![w] = M],
               pc' = [pc EXCEPT ![w] = "take"], UNCHANGED doomed,
               pc[w] # "remove"
        PROVE  (\A v \in Worker \ {w} : Kept(v) /\ NothingTo(v)) /\ CustodyOf(w)'
    BY <1>1, <2>3, DeliverKeeps
    DEF Deliver, CustodyOf, InHand, InBatch, Acked, DownIdle, DoomedIdle,
        HandSteps, RunSteps, TypeInv, TypeOK, LocalTypeOK
  <2>4. CASE ReadHistory(w)
    <3> DEFINE M == UNION {NextHeld(w, s) : s \in Serves[w]}
    <3>1. M \in SUBSET Msg /\ \A m \in M : place[m] = "pending" /\ owner[m] = w
      BY DEF NextHeld, Oldest
    <3>2. Deliver(w, M) /\ batch' = [batch EXCEPT ![w] = M]
          /\ pc' = [pc EXCEPT ![w] = "take"] /\ UNCHANGED doomed
          /\ pc[w] # "remove"
      BY <2>4 DEF ReadHistory
    <3> HIDE DEF M
    <3> QED BY <2>3, <3>1, <3>2
  <2>5. CASE ReadNew(w)
    <3> DEFINE M == IF at[w] \in Serves[w] THEN NextNew(at[w]) ELSE {}
    <3>1. M \in SUBSET Msg /\ \A m \in M : place[m] = "queued"
      BY DEF NextNew, Oldest
    <3>2. Deliver(w, M) /\ batch' = [batch EXCEPT ![w] = M]
          /\ pc' = [pc EXCEPT ![w] = "take"] /\ UNCHANGED doomed
          /\ pc[w] # "remove"
      BY <2>5 DEF ReadNew
    <3> HIDE DEF M
    <3> QED BY <2>3, <3>1, <3>2
  <2>6. CASE WaitRead(w)
    <3> DEFINE M == UNION {NextNew(s) : s \in Serves[w]}
    <3>1. M \in SUBSET Msg /\ \A m \in M : place[m] = "queued"
      BY DEF NextNew, Oldest
    <3>2. Deliver(w, M) /\ batch' = [batch EXCEPT ![w] = M]
          /\ pc' = [pc EXCEPT ![w] = "take"] /\ UNCHANGED doomed
          /\ pc[w] # "remove"
      BY <2>6 DEF WaitRead
    <3> HIDE DEF M
    <3> QED BY <2>3, <3>1, <3>2
  <2>7. CASE WaitOver(w)
    BY <2>7, OwnLeave, SameKeeps DEF WaitOver, HandSteps, RunSteps, Steps
  <2>8. CASE TakeDone(w) \/ TakeEarly(w) \/ TakeReady(w)
    <3>1. UNCHANGED streamVars BY <2>8 DEF TakeDone, TakeEarly, TakeReady
    <3>2. PICK m \in batch[w], p \in HandSteps :
             /\ pc' = [pc EXCEPT ![w] = p]
             /\ cur' = [cur EXCEPT ![w] = m]
             /\ job' = [job EXCEPT ![w] = entry[m]]
             /\ \/ batch' = [batch EXCEPT ![w] = @ \ {m}]
                \/ batch' = [batch EXCEPT ![w] = {}]
             /\ UNCHANGED doomed /\ pc[w] = "take"
      BY <2>8 DEF TakeDone, TakeEarly, TakeReady, FirstOf, Handle, HandSteps,
                  RunSteps
    <3>3. CustodyOf(w)'
      BY <1>1, <3>1, <3>2
      DEF CustodyOf, InHand, InBatch, Acked, DownIdle, DoomedIdle, HandSteps,
          RunSteps, streamVars, TypeInv, TypeOK, LocalTypeOK
    <3> QED BY <3>1, <3>3, SameKeeps
  <2>9. CASE Defer(w)
    <3>1. UNCHANGED streamVars BY <2>9 DEF Defer
    <3>2. CustodyOf(w)'
      BY <1>1, <2>9, <3>1, OwnGo DEF Defer, HandSteps
    <3> QED BY <3>1, <3>2, SameKeeps
  <2>10. CASE Ack(w)
    <3>1. cur[w] \in Msg \ batch[w] /\ place[cur[w]] = "pending" /\ owner[cur[w]] = w
      BY <1>1, <2>10 DEF Ack, CustodyOf, InHand, HandSteps
    <3>2. DropPending({cur[w]}) BY <2>10 DEF Ack, XAck
    <3>3. \A v \in Worker \ {w} : Kept(v) /\ NothingTo(v)
      BY <1>1, <3>1, <3>2, DropKeeps
    <3>4. CustodyOf(w)'
      BY <1>1, <2>10, <3>1, <3>2
      DEF Ack, Go, DropPending, CustodyOf, InHand, InBatch, Acked, DownIdle,
          DoomedIdle, HandSteps, RunSteps, TypeInv, TypeOK, LocalTypeOK,
          StreamTypeOK
    <3> QED BY <3>3, <3>4
  <2>11. CASE Delete(w)
    <3>1. cur[w] \in Msg /\ place[cur[w]] \in {"behind", "deleted"}
      BY <1>1, <2>11 DEF Delete, CustodyOf, Acked
    <3>2. \A v \in Worker \ {w} : Kept(v) /\ NothingTo(v)
      BY <1>1, <2>11, <3>1, DelKeeps DEF Delete
    <3>3. CASE Leave(w, "loop")
      BY <3>2, <3>3, OwnLeave DEF HandSteps, RunSteps, Steps
    <3>4. CASE /\ pc' = [pc EXCEPT ![w] = "take"] \/ pc' = [pc EXCEPT ![w] = "sweep"]
               /\ UNCHANGED <<batch, doomed>>
      BY <1>1, <2>11, <3>1, <3>2, <3>4
      DEF Delete, XDel, CustodyOf, InHand, InBatch, Acked, DownIdle,
          DoomedIdle, HandSteps, RunSteps, TypeInv, TypeOK, LocalTypeOK,
          StreamTypeOK
    <3> QED BY <2>11, <3>3, <3>4 DEF Delete, Go
  <2> QED BY <2>1, <2>2, <2>4, <2>5, <2>6, <2>7, <2>8, <2>9, <2>10, <2>11
      DEF Receive
<1> QED BY <1>1, <1>2, <1>3, <1>4, Frame

LEMMA CustodySweep ==
    ASSUME Slow = {}, TypeInv, CustodyInv, NEW w \in Worker, Sweep(w)
    PROVE  CustodyInv'
<1>1. w \in Actor /\ CustodyOf(w) /\ StreamTypeOK /\ cur[w] \in Msg \cup {0}
      /\ batch[w] \subseteq Msg /\ doomed[w] \subseteq Worker
  BY DEF CustodyInv, Actor, TypeInv, TypeOK, LocalTypeOK
<1>2. pc[w] # "down"
  BY DEF Sweep, BeginSweep, SweepClaim, SweepNext, Release, Attempts, GiveUp,
         Record, ReapScan, RemoveOne, RemoveDone
<1>3. \A v \in Worker \ {w} : SameLocals(v)
  <2> USE DEF SameLocals, TypeInv, TypeOK, LocalTypeOK, Actor
  <2>1. CASE \E p : Go(w, p) \/ Leave(w, p) BY <2>1 DEF Go, Leave
  <2>2. CASE BeginSweep(w) \/ SweepClaim(w) \/ SweepNext(w)
    BY <2>2 DEF BeginSweep, SweepClaim, SweepNext
  <2>3. CASE Release(w) /\ ~Leave(w, "loop") BY <2>3 DEF Release
  <2>4. CASE ReapScan(w) \/ RemoveOne(w) BY <2>4 DEF ReapScan, RemoveOne
  <2>5. CASE RemoveDone(w) /\ ~Leave(w, "loop") BY <2>5 DEF RemoveDone
  <2> QED BY <2>1, <2>2, <2>3, <2>4, <2>5
      DEF Sweep, Attempts, GiveUp, Record
<1>4. (\A v \in Worker \ {w} : Kept(v) /\ NothingTo(v)) /\ CustodyOf(w)'
  <2> USE DEF HandSteps, RunSteps
  <2>1. ASSUME UNCHANGED <<streamVars, batch, doomed>>,
               NEW p \in {"sweep", "reap"}, pc' = [pc EXCEPT ![w] = p],
               pc[w] # "remove" \/ doomed[w] = {}
        PROVE  (\A v \in Worker \ {w} : Kept(v) /\ NothingTo(v)) /\ CustodyOf(w)'
    BY <1>1, <2>1, SameKeeps
    DEF CustodyOf, InHand, InBatch, Acked, DownIdle, DoomedIdle, streamVars,
        TypeInv, TypeOK, LocalTypeOK
  <2>2. CASE BeginSweep(w) BY <2>1, <2>2 DEF BeginSweep
  <2>3. CASE SweepClaim(w)
    <3>1. PICK m \in Msg :
             /\ MayBeStale(m) /\ XClaim(w, m)
             /\ cur' = [cur EXCEPT ![w] = m]
             /\ job' = [job EXCEPT ![w] = entry[m]]
             /\ pc' = [pc EXCEPT
                         ![w] = IF CapReached(m) THEN "attempts" ELSE "release"]
      BY <2>3 DEF SweepClaim
    <3>2. \A v \in Worker \ {w} : Kept(v) /\ NothingTo(v)
      BY <1>1, <3>1, ClaimKeeps
    <3>3. m \notin batch[w]
      BY <1>1, <1>2, <3>1
      DEF MayBeStale, Silent, Handling, CustodyOf, InBatch
    <3>4. pc[w] = "sweep" /\ doomed[w] = {} /\ UNCHANGED <<batch, doomed>>
      BY <1>1, <2>3 DEF SweepClaim, CustodyOf, DoomedIdle
    <3>5. CustodyOf(w)'
      BY <1>1, <3>1, <3>3, <3>4
      DEF XClaim, CustodyOf, InHand, InBatch, Acked, DownIdle, DoomedIdle,
          TypeInv, TypeOK, LocalTypeOK, StreamTypeOK
    <3> QED BY <3>2, <3>5
  <2>4. CASE SweepNext(w) BY <2>1, <2>4 DEF SweepNext
  <2>5. CASE Release(w)
    <3>1. CASE Leave(w, "loop")
      BY <2>5, <3>1, OwnLeave, SameKeeps DEF Release, Steps
    <3> QED BY <2>1, <2>5, <3>1 DEF Release
  <2>6. CASE Attempts(w) \/ GiveUp(w) \/ Record(w)
    <3>1. UNCHANGED streamVars /\ pc[w] \in HandSteps
      BY <2>6 DEF Attempts, GiveUp, Record
    <3>2. \E p \in HandSteps : Go(w, p)
      BY <2>6 DEF Attempts, GiveUp, Record
    <3> QED BY <1>1, <3>1, <3>2, OwnGo, SameKeeps
  <2>7. CASE ReapScan(w)
    <3>1. UNCHANGED <<streamVars, batch, cur, at>> /\ pc[w] = "reap"
          /\ pc' = [pc EXCEPT ![w] = "remove"]
      BY <2>7 DEF ReapScan
    <3>2. PICK D \in SUBSET Worker :
             /\ doomed' = [doomed EXCEPT ![w] = D]
             /\ \A c \in D : c # w /\ pc[c] = "down" /\ ~Holds(c, at[w])
      BY <2>7 DEF ReapScan, Silent, Removable
    <3>3. CustodyOf(w)'
      BY <1>1, <3>1, <3>2
      DEF CustodyOf, InHand, InBatch, Acked, DownIdle, DoomedIdle, Holds, In,
          streamVars, TypeInv, TypeOK, LocalTypeOK, Actor
    <3> QED BY <3>1, <3>3, SameKeeps
  <2>8. CASE RemoveOne(w)
    <3>1. PICK c \in doomed[w] :
             /\ DelConsumer(c, {at[w]})
             /\ doomed' = [doomed EXCEPT ![w] = @ \ {c}]
      BY <2>8 DEF RemoveOne
    <3>2. pc[c] = "down" /\ c # w
      BY <1>1, <1>2, <3>1 DEF CustodyOf, DoomedIdle
    <3> DEFINE M == {m \in Msg : owner[m] = c /\ \E s \in {at[w]} : In(m, s)}
    <3>3. M \in SUBSET Msg /\ DropPending(M) BY <3>1 DEF DelConsumer
    <3>4. \A v \in Worker : Kept(v) /\ NothingTo(v)
      BY <1>1, <3>2, <3>3, DropKeeps
    <3>5. UNCHANGED <<pc, cur, job, batch, at>> BY <2>8 DEF RemoveOne
    <3>6. InHand(w)' /\ InBatch(w)' /\ Acked(w)' /\ DownIdle(w)'
      BY <1>1, <1>2, <2>8, <3>4, <3>5
      DEF RemoveOne, CustodyOf, InHand, InBatch, Acked, DownIdle, Kept
    <3>7. doomed'[w] \subseteq doomed[w]
      BY <1>1, <3>1 DEF TypeInv, TypeOK, LocalTypeOK
    <3>8. DoomedIdle(w)'
      BY <1>1, <3>4, <3>5, <3>7 DEF CustodyOf, DoomedIdle, NothingTo, In
    <3> QED BY <3>4, <3>6, <3>8 DEF CustodyOf
  <2>9. CASE RemoveDone(w)
    <3>1. CASE Leave(w, "loop")
      BY <2>9, <3>1, OwnLeave, SameKeeps DEF RemoveDone, Steps
    <3> QED BY <2>1, <2>9, <3>1 DEF RemoveDone
  <2> QED BY <2>2, <2>3, <2>4, <2>5, <2>6, <2>7, <2>8, <2>9 DEF Sweep
<1> QED BY <1>1, <1>2, <1>3, <1>4, Frame

LEMMA CustodyEnd ==
    ASSUME TypeInv, CustodyInv, NEW a \in Actor,
           Crash(a) \/ Fault(a) \/ (a \in Worker /\ Exit(a))
    PROVE  CustodyInv'
<1> USE DEF HandSteps, RunSteps
<1>1. pc[a] # "down" BY DEF Crash, Fault, Exit
<1>2. PICK p \in {"loop", "idle", "down"} : Leave(a, p)
  BY DEF Crash, Fault, Exit, Raise, Base
<1>3. a \in Worker => CustodyOf(a)' BY <1>2, OwnLeave DEF Steps
<1>4. \A w \in Worker \ {a} : SameLocals(w) BY <1>2, OnlyOwn DEF Steps
<1>5. CASE UNCHANGED streamVars
  BY <1>1, <1>3, <1>4, <1>5, SameKeeps, Frame
<1>6. CASE a \in Worker /\ Exit(a)
  <2> DEFINE M == {m \in Msg : owner[m] = a /\
                     \E s \in {s \in Swept : Removable(a, s)} : In(m, s)}
  <2>1. M \in SUBSET Msg /\ DropPending(M) BY <1>6 DEF Exit, DelConsumer
  <2>2. \A w \in Worker \ {a} : Kept(w) /\ NothingTo(w)
    BY <2>1, DropKeeps DEF TypeInv, TypeOK
  <2> QED BY <1>1, <1>3, <1>4, <2>2, Frame
<1> QED BY <1>5, <1>6 DEF Crash, Fault

LEMMA CustodyStep ==
    ASSUME Slow = {}, TypeInv, CustodyInv, [Next]_vars
    PROVE  CustodyInv'
<1>1. CASE UNCHANGED vars
  BY <1>1 DEF vars, streamVars, localVars, CustodyInv, CustodyOf, InHand,
              InBatch, Acked, DownIdle, DoomedIdle, In
<1>2. CASE Next
  BY <1>2, CustodyClient, CustodyReceive, CustodySweep, CustodyRun, CustodyEnd
  DEF Next, Actor
<1> QED BY <1>1, <1>2

LEMMA CustodyInit == Init => CustodyInv
BY DEF Init, CustodyInv, CustodyOf, InHand, InBatch, Acked, DownIdle,
       DoomedIdle, HandSteps, RunSteps, Base, Actor

(* Without slow workers, what a worker that is up has in hand is pending   *)
(* in its name, whichever workers die, and whatever sweeps, triggers,      *)
(* resets and failed commands come between.                                *)
THEOREM HandsHeld == ASSUME Slow = {} PROVE Spec => []Custody
<1>1. Init => TypeInv /\ CustodyInv BY TypeInit, CustodyInit
<1>2. TypeInv /\ CustodyInv /\ [Next]_vars => (TypeInv /\ CustodyInv)'
  BY TypeStep, CustodyStep
<1>3. TypeInv /\ CustodyInv => Custody
  BY DEF CustodyInv, CustodyOf, InHand, InBatch, Custody
<1> QED BY <1>1, <1>2, <1>3, PTL DEF Spec

----------------------------------------------------------------------------
(* Only the acknowledgement of its handler takes a message from the        *)
(* pending list.                                                           *)
LEMMA OnlyAckDrops ==
    ASSUME TypeInv, CustodyInv, Next, NEW m \in Msg, place[m] = "pending",
           place'[m] # "pending"
    PROVE  \E w \in Worker : pc[w] = "ack" /\ cur[w] = m
<1> USE DEF TypeInv, TypeOK, StreamTypeOK
<1>1. ~UNCHANGED streamVars /\ ~\E t \in Task : XAdd(t)
  BY DEF streamVars, XAdd
<1>2. PICK w \in Worker : Receive(w) \/ Sweep(w) \/ Exit(w)
  BY <1>1
  DEF Next, Client, EnqueueNow, EnqueueLater, ComesDue, Vanish, ResetRead,
      ResetWrite, Requeue, ResetDies, Run, Call, Claim, Start, SetupFails,
      Finish, ReportSuccess, ReportFailure, Crash, Fault
<1>3. CASE Receive(w)
  <2>1. \A M : ~Deliver(w, M) BY DEF Deliver
  <2>2. ~PromoteOne(w)
    BY <1>1 DEF PromoteOne, StoreTypeOK
  <2>3. Ack(w) \/ Delete(w)
    BY <1>1, <1>3, <2>1, <2>2
    DEF Receive, BeginReceive, PromoteDone, ReadHistory, ReadNew, WaitRead,
        WaitOver, TakeDone, TakeEarly, TakeReady, TakeNext, Defer
  <2>4. CASE Ack(w)
    BY <2>4 DEF Ack, XAck, DropPending
  <2>5. CASE Delete(w)
    BY <2>5 DEF Delete, XDel, CustodyInv, CustodyOf, Acked
  <2> QED BY <2>3, <2>4, <2>5
<1>4. CASE Sweep(w)
  <2>1. RemoveOne(w)
    BY <1>1, <1>4
    DEF Sweep, BeginSweep, SweepClaim, XClaim, SweepNext, Release, Attempts,
        GiveUp, Record, ReapScan, RemoveDone
  <2>2. PICK c \in doomed[w] : owner[m] = c /\ In(m, at[w])
    BY <2>1 DEF RemoveOne, DelConsumer, DropPending
  <2> QED BY <2>2 DEF CustodyInv, CustodyOf, DoomedIdle
<1>5. CASE Exit(w)
  BY <1>5 DEF Exit, DelConsumer, DropPending, Removable, Holds
<1> QED BY <1>2, <1>3, <1>4, <1>5

(* Without slow workers, removing a consumer never takes a pending message *)
(* with it, although the consumers are looked up first and removed one by  *)
(* one later.                                                              *)
THEOREM NoMessageReaped == ASSUME Slow = {} PROVE Spec => PendingOnlyAcked
<1> DEFINE A == \A m \in Msg :
                   place[m] = "pending" /\ place'[m] # "pending" =>
                      \E w \in Worker : pc[w] = "ack" /\ cur[w] = m
<1>1. Init => TypeInv /\ CustodyInv BY TypeInit, CustodyInit
<1>2. TypeInv /\ CustodyInv /\ [Next]_vars => (TypeInv /\ CustodyInv)'
  BY TypeStep, CustodyStep
<1>3. TypeInv /\ CustodyInv /\ [Next]_vars => [A]_vars BY OnlyAckDrops
<1> QED BY <1>1, <1>2, <1>3, PTL DEF Spec, PendingOnlyAcked

----------------------------------------------------------------------------
(***************************************************************************)
(* One message for a task.  A message is added for a task that has just    *)
(* come to be or has just left the delayed set, and it was due then, so no *)
(* message is ever deferred.  Nothing is assumed of the workers, but that  *)
(* no task is reset.                                                       *)
(***************************************************************************)
MessageInv ==
    /\ OneMessage
    /\ \A m \in Msg : entry[m] \in Task => entry[m] \in due
    /\ \A w \in Worker : pc[w] # "defer"
    /\ \A t \in Task : status[t] = "NEW" => t \notin delayed /\ LiveMessages(t) = {}
    /\ \A t \in Task : resetting[t] = "no"

(* A step that adds no message and no delay keeps it.                      *)
NoNewMessage == UNCHANGED entry /\ \A m \in Msg : Live(m)' => Live(m)

NoNews ==
    /\ NoNewMessage
    /\ delayed' \subseteq delayed /\ due \subseteq due'
    /\ \A t \in Task : status'[t] = "NEW" => status[t] = "NEW"
    /\ \A w \in Worker : pc'[w] # "defer"
    /\ UNCHANGED resetting

LEMMA NoNewsKeeps == ASSUME MessageInv, NoNews PROVE MessageInv'
<1> USE DEF NoNews, NoNewMessage
<1>1. OneMessage' BY DEF MessageInv, OneMessage
<1>2. (\A m \in Msg : entry[m] \in Task => entry[m] \in due)'
  BY DEF MessageInv
<1>3. (\A t \in Task : status[t] = "NEW" => t \notin delayed /\ LiveMessages(t) = {})'
  BY DEF MessageInv, LiveMessages
<1> QED BY <1>1, <1>2, <1>3 DEF MessageInv

(* Adding the message of a task that has none and is not delayed.          *)
LEMMA AddNews ==
    ASSUME TypeInv, MessageInv, NEW t \in Task, XAdd(t), LiveMessages(t) = {},
           t \in due', t \notin delayed', status'[t] # "NEW",
           delayed' \subseteq delayed, due \subseteq due',
           \A u \in Task : status'[u] = "NEW" => status[u] = "NEW",
           \A w \in Worker : pc'[w] # "defer",
           UNCHANGED resetting
    PROVE  MessageInv'
<1>1. PICK m \in Msg : /\ place[m] = "free"
                       /\ entry' = [entry EXCEPT ![m] = t]
                       /\ place' = [place EXCEPT ![m] = "queued"]
  BY DEF XAdd
<1>2. \A n \in Msg : n # m => place'[n] = place[n] /\ entry'[n] = entry[n]
  BY <1>1 DEF TypeInv, TypeOK, StreamTypeOK
<1>3. place'[m] = "queued" /\ entry'[m] = t
  BY <1>1 DEF TypeInv, TypeOK, StreamTypeOK
<1>4. \A n \in Msg : Live(n) => entry[n] # t
  BY DEF LiveMessages
<1>5. OneMessage'
  BY <1>1, <1>2, <1>3, <1>4 DEF MessageInv, OneMessage, Live
<1>6. (\A n \in Msg : entry[n] \in Task => entry[n] \in due)'
  BY <1>2, <1>3 DEF MessageInv
<1>7. (\A u \in Task : status[u] = "NEW" => u \notin delayed /\ LiveMessages(u) = {})'
  BY <1>2, <1>3 DEF MessageInv, LiveMessages, Live
<1> QED BY <1>5, <1>6, <1>7 DEF MessageInv

LEMMA MessageInit == ASSUME Init PROVE MessageInv
BY DEF Init, StreamInit, MessageInv, OneMessage, LiveMessages, Live, Base, Actor

(* The Redis commands other than XADD add no message.                      *)
LEMMA DropNoNews ==
    ASSUME NEW M \in SUBSET Msg, DropPending(M), StreamTypeOK
    PROVE  NoNewMessage
BY DEF DropPending, StreamTypeOK, NoNewMessage, Live

LEMMA DeliverNoNews ==
    ASSUME NEW c, NEW M \in SUBSET Msg, Deliver(c, M), \A m \in M : Live(m)
    PROVE  NoNewMessage
BY DEF Deliver, NoNewMessage, Live

LEMMA MessageClient ==
    ASSUME MaxResets = 0, TypeInv, MessageInv, NEW t \in Task,
           Client(t) \/ ResetDies(t)
    PROVE  MessageInv'
<1> USE DEF TypeInv, TypeOK, StoreTypeOK
<1>1. ~ResetRead(t) /\ ~ResetWrite(t) /\ ~Requeue(t) /\ ~ResetDies(t)
  BY DEF MessageInv, ResetRead, ResetWrite, Requeue, ResetDies
<1>2. CASE EnqueueNow(t)
  BY <1>2, AddNews DEF EnqueueNow, MessageInv, localVars
<1>3. CASE EnqueueLater(t)
  BY <1>3 DEF EnqueueLater, MessageInv, OneMessage, LiveMessages, Live,
              localVars, streamVars
<1>4. CASE ComesDue(t) \/ Vanish(t)
  <2>1. NoNews
    BY <1>4 DEF ComesDue, Vanish, NoNews, NoNewMessage, MessageInv, Live,
                localVars, streamVars, hashVars, delayedVars
  <2> QED BY <2>1, NoNewsKeeps
<1> QED BY <1>1, <1>2, <1>3, <1>4 DEF Client

(* No status is ever written as NEW.                                       *)
LEMMA NeverNewAgain ==
    ASSUME TypeInv, Next
    PROVE  \A t \in Task : status'[t] = "NEW" => status[t] = "NEW"
<1> USE DEF TypeInv, TypeOK, StoreTypeOK
<1>1. UNCHANGED status \/ \E t, s : s # "NEW" /\ status' = [status EXCEPT ![t] = s]
  BY DEF Next, Client, EnqueueNow, EnqueueLater, ComesDue, Vanish, ResetRead,
      ResetWrite, Requeue, ResetDies, hashVars, WriteStatus,
      Run, Call, Claim, Start, SetupFails, Finish, ReportSuccess, ReportFailure,
      Crash, Fault, Exit, Receive, BeginReceive, PromoteOne, PromoteDone,
      ReadHistory, ReadNew, WaitRead, WaitOver, TakeDone, TakeEarly, TakeReady,
      TakeNext, Defer, Ack, Delete, Sweep, BeginSweep, SweepClaim, SweepNext,
      Release, HandBack, Attempts, GiveUp, Record, ReapScan, RemoveOne,
      RemoveDone
<1> QED BY <1>1

LEMMA MessageWorker ==
    ASSUME TypeInv, MessageInv, Next, NEW w \in Worker,
           Receive(w) \/ Sweep(w) \/ Exit(w)
    PROVE  MessageInv'
<1>1. w \in Actor /\ StreamTypeOK /\ pc \in [Actor -> Steps] /\ delayed \subseteq Task
  BY DEF Actor, TypeInv, TypeOK, LocalTypeOK, StoreTypeOK
<1>2. ~TakeEarly(w)
  BY <1>1 DEF TakeEarly, FirstOf, MessageInv, TypeInv, TypeOK, LocalTypeOK, LocalOK
<1>3. pc[w] # "defer" /\ ~Defer(w) BY DEF MessageInv, Defer
<1>4. UNCHANGED <<due, resetting>>
  BY <1>3
  DEF delayedVars, Exit, Receive, BeginReceive, PromoteOne, PromoteDone,
      ReadHistory, ReadNew, WaitRead, WaitOver, TakeDone, TakeEarly, TakeReady,
      TakeNext, Ack, Delete, Sweep, BeginSweep, SweepClaim, SweepNext,
      Release, Attempts, GiveUp, Record, ReapScan, RemoveOne, RemoveDone
<1>5. UNCHANGED pc \/ \E p : p # "defer" /\ pc' = [pc EXCEPT ![w] = p]
  BY <1>2, <1>3
  DEF Exit, Receive, BeginReceive, PromoteOne, PromoteDone,
      ReadHistory, ReadNew, WaitRead, WaitOver, TakeDone, TakeReady,
      TakeNext, Ack, Delete, Sweep, BeginSweep, SweepClaim, SweepNext,
      Release, Attempts, GiveUp, Record, ReapScan, RemoveOne, RemoveDone,
      Go, Leave, Handle
<1>6. \A v \in Worker : pc'[v] # "defer"
  BY <1>1, <1>5 DEF MessageInv, Actor
<1>7. \A t \in Task : status'[t] = "NEW" => status[t] = "NEW"
  BY NeverNewAgain
<1>8. CASE PromoteOne(w)
  <2>1. CASE UNCHANGED streamVars
    <3>1. delayed' \subseteq delayed
      BY <1>8 DEF PromoteOne, LeaveDelayed
    <3>2. NoNews
      BY <1>4, <1>6, <1>7, <2>1, <3>1
      DEF NoNews, NoNewMessage, Live, streamVars
    <3> QED BY <3>2, NoNewsKeeps
  <2>2. CASE ~UNCHANGED streamVars
    <3>1. PICK t \in delayed \cap due :
             LeaveDelayed(t) /\ XAdd(t) /\ status[t] = "READY"
      BY <1>8, <2>2 DEF PromoteOne
    <3>2. LiveMessages(t) = {}
      BY <3>1 DEF LiveMessages, MessageInv, OneMessage
    <3>3. UNCHANGED status BY <1>8 DEF PromoteOne, hashVars
    <3> QED BY <1>1, <1>4, <1>6, <3>1, <3>2, <3>3, AddNews DEF LeaveDelayed
  <2> QED BY <2>1, <2>2
<1>9. CASE ~PromoteOne(w)
  <2>1. UNCHANGED delayed
    BY <1>2, <1>3, <1>9
    DEF delayedVars, Exit, Receive, BeginReceive, PromoteDone,
        ReadHistory, ReadNew, WaitRead, WaitOver, TakeDone, TakeReady,
        TakeNext, Ack, Delete, Sweep, BeginSweep, SweepClaim, SweepNext,
        Release, Attempts, GiveUp, Record, ReapScan, RemoveOne, RemoveDone
  <2>2. NoNewMessage
    <3>1. CASE UNCHANGED streamVars
      BY <3>1 DEF NoNewMessage, Live, streamVars
    <3>2. CASE ReadHistory(w)
      <4> DEFINE M == UNION {NextHeld(w, s) : s \in Serves[w]}
      <4>1. M \in SUBSET Msg /\ \A m \in M : Live(m)
        BY DEF NextHeld, Oldest, Live
      <4>2. Deliver(w, M) BY <3>2 DEF ReadHistory
      <4> HIDE DEF M
      <4> QED BY <4>1, <4>2, DeliverNoNews
    <3>3. CASE ReadNew(w)
      <4> DEFINE M == IF at[w] \in Serves[w] THEN NextNew(at[w]) ELSE {}
      <4>1. M \in SUBSET Msg /\ \A m \in M : Live(m)
        BY DEF NextNew, Oldest, Live
      <4>2. Deliver(w, M) BY <3>3 DEF ReadNew
      <4> HIDE DEF M
      <4> QED BY <4>1, <4>2, DeliverNoNews
    <3>4. CASE WaitRead(w)
      <4> DEFINE M == UNION {NextNew(s) : s \in Serves[w]}
      <4>1. M \in SUBSET Msg /\ \A m \in M : Live(m)
        BY DEF NextNew, Oldest, Live
      <4>2. Deliver(w, M) BY <3>4 DEF WaitRead
      <4> HIDE DEF M
      <4> QED BY <4>1, <4>2, DeliverNoNews
    <3>5. CASE Ack(w)
      BY <1>1, <3>5 DEF Ack, XAck, DropPending, NoNewMessage, Live, StreamTypeOK
    <3>6. CASE Delete(w)
      BY <1>1, <3>6 DEF Delete, XDel, NoNewMessage, Live, StreamTypeOK
    <3>7. CASE SweepClaim(w)
      BY <3>7 DEF SweepClaim, XClaim, NoNewMessage, Live
    <3>8. CASE RemoveOne(w) \/ Exit(w)
      <4>1. \E M \in SUBSET Msg : DropPending(M)
        BY <3>8 DEF RemoveOne, Exit, DelConsumer
      <4> QED BY <1>1, <4>1, DropNoNews
    <3> QED
      BY <1>2, <1>3, <1>9, <3>1, <3>2, <3>3, <3>4, <3>5, <3>6, <3>7, <3>8
      DEF Receive, BeginReceive, PromoteDone, WaitOver, TakeDone, TakeReady,
          TakeNext, Sweep, BeginSweep, SweepNext, Release, Attempts, GiveUp,
          Record, ReapScan, RemoveDone
  <2>3. NoNews BY <1>4, <1>6, <1>7, <2>1, <2>2 DEF NoNews
  <2> QED BY <2>3, NoNewsKeeps
<1> QED BY <1>8, <1>9

LEMMA MessageStep ==
    ASSUME MaxResets = 0, TypeInv, MessageInv, [Next]_vars
    PROVE  MessageInv'
<1>1. CASE UNCHANGED vars
  BY <1>1 DEF vars, streamVars, hashVars, delayedVars, localVars, MessageInv,
              OneMessage, LiveMessages, Live
<1>2. ASSUME Next, NEW a \in Actor, Run(a) \/ Crash(a) \/ Fault(a)
      PROVE  MessageInv'
  <2>1. UNCHANGED <<streamVars, delayedVars, resetting>>
    BY <1>2 DEF Run, Call, Claim, Start, SetupFails, Finish, ReportSuccess,
                ReportFailure, Crash, Fault
  <2>2. \E p : p # "defer" /\ pc' = [pc EXCEPT ![a] = p]
    <3>1. CASE Call(a) BY <3>1 DEF Call
    <3>2. CASE \E p : p # "defer" /\ (Go(a, p) \/ Leave(a, p))
      BY <3>2 DEF Go, Leave
    <3>3. Base(a) # "defer" BY DEF Base
    <3> QED
      BY <1>2, <3>1, <3>2, <3>3
      DEF Run, Claim, Start, SetupFails, Finish, ReportSuccess, ReportFailure,
          Crash, Fault, AfterRun, Raise
  <2>3. \A w \in Worker : pc'[w] # "defer"
    BY <2>2 DEF MessageInv, TypeInv, TypeOK, LocalTypeOK, Actor
  <2>4. NoNews
    BY <1>2, <2>1, <2>3, NeverNewAgain
    DEF NoNews, NoNewMessage, Live, streamVars, delayedVars
  <2> QED BY <2>4, NoNewsKeeps
<1> QED BY <1>1, <1>2, MessageClient, MessageWorker DEF Next

(* As long as no task is reset, a task has one message at most, and none   *)
(* while it is in the delayed set, whatever workers, sweeps and triggers   *)
(* do and wherever they die.                                               *)
THEOREM NoDuplicate == ASSUME MaxResets = 0 PROVE Spec => []OneMessage
<1>1. Init => TypeInv /\ MessageInv BY TypeInit, MessageInit
<1>2. TypeInv /\ MessageInv /\ [Next]_vars => (TypeInv /\ MessageInv)'
  BY TypeStep, MessageStep
<1>3. MessageInv => OneMessage BY DEF MessageInv
<1> QED BY <1>1, <1>2, <1>3, PTL DEF Spec

----------------------------------------------------------------------------
(* Workers alone, none of them slow, and no resets: no task is executed by *)
(* two of them at once.  Two workers that execute the same task would each *)
(* have its one message in hand, and a message has one owner.              *)
THEOREM NeverTwice ==
    ASSUME Trigger = {}, Slow = {}, MaxResets = 0
    PROVE  Spec => []ExclusiveRun
<1>1. Init => TypeInv /\ CustodyInv /\ MessageInv
  BY TypeInit, CustodyInit, MessageInit
<1>2. TypeInv /\ CustodyInv /\ MessageInv /\ [Next]_vars
         => (TypeInv /\ CustodyInv /\ MessageInv)'
  BY TypeStep, CustodyStep, MessageStep
<1>3. CustodyInv /\ MessageInv => ExclusiveRun
  <2> SUFFICES ASSUME CustodyInv, MessageInv, NEW a \in Actor, NEW b \in Actor,
                      Executing(a), Executing(b), job[a] = job[b]
               PROVE  a = b
    BY DEF ExclusiveRun
  <2>1. a \in Worker /\ b \in Worker BY DEF Actor
  <2>2. \A w \in {a, b} : /\ cur[w] \in Msg /\ Live(cur[w])
                          /\ owner[cur[w]] = w /\ job[w] = entry[cur[w]]
    BY <2>1 DEF CustodyInv, CustodyOf, InHand, HandSteps, RunSteps, Executing, Live
  <2>3. cur[a] = cur[b] BY <2>2 DEF MessageInv, OneMessage
  <2> QED BY <2>2, <2>3
<1> QED BY <1>1, <1>2, <1>3, PTL DEF Spec

----------------------------------------------------------------------------
(***************************************************************************)
(* The claim alone.  Where nobody sweeps, a task that is claimed goes back *)
(* to a status that can be claimed only through its own actor, or a reset. *)
(* So beside triggers, slow workers, deletions and failing commands, two   *)
(* actors execute a task at once only after it was reset.  Until then an   *)
(* actor from the claim to the report finds the status it has written,     *)
(* unless the hash is gone, or was made again without its fields.          *)
(***************************************************************************)
InRun == {"start", "run", "sent"}

RunSeen(a) ==
    pc[a] \in InRun =>
        /\ status[job[a]] # "NEW"
        /\ Full(job[a]) =>
              status[job[a]] = IF pc[a] = "sent" THEN "SUCCESSFUL" ELSE "RUNNING"

ClaimInv ==
    resets = 0 =>
        /\ \A a \in Actor : RunSeen(a)
        /\ \A a, b \in Actor : pc[a] \in InRun /\ pc[b] \in InRun /\ job[a] = job[b] => a = b
        /\ \A t \in Task : resetting[t] = "no"

NoSweeps == \A w \in Worker : pc[w] \notin SweepSteps /\ then[w] # "sweep"

(* A step about something else: the tasks that are run are deleted at most.*)
Aside ==
    /\ \A t \in Task : \/ status'[t] = status[t] /\ (t \in partial' <=> t \in partial)
                       \/ status[t] = "NEW" /\ status'[t] = "READY"
                       \/ status'[t] = "GONE"
    /\ \A a \in Actor :
          pc'[a] \in InRun =>
              pc[a] \in InRun /\ job'[a] = job[a] /\ (pc'[a] = "sent" <=> pc[a] = "sent")
    /\ resets' = 0 => resets = 0 /\ UNCHANGED resetting

LEMMA AsideKeeps == ASSUME TypeInv, ClaimInv, Aside PROVE ClaimInv'
<1> SUFFICES ASSUME resets' = 0 PROVE ClaimInv' BY DEF ClaimInv
<1> USE DEF Aside
<1>1. \A a \in Actor : pc[a] \in InRun => job[a] \in Task
  BY DEF TypeInv, LocalOK, InRun, JobSteps, RunSteps
<1>2. ASSUME NEW a \in Actor, pc'[a] \in InRun PROVE RunSeen(a)'
  <2>1. /\ pc[a] \in InRun /\ job'[a] = job[a] /\ job[a] \in Task /\ RunSeen(a)
        /\ pc'[a] = "sent" <=> pc[a] = "sent"
    BY <1>1, <1>2 DEF ClaimInv
  <2>2. CASE status'[job[a]] = "GONE" BY <2>1, <2>2 DEF RunSeen, Full, Exists
  <2>3. CASE /\ status'[job[a]] = status[job[a]]
             /\ job[a] \in partial' <=> job[a] \in partial
    BY <2>1, <2>3 DEF RunSeen, Full, Exists
  <2> QED BY <2>1, <2>2, <2>3 DEF RunSeen
<1>3. \A a \in Actor : RunSeen(a)' BY <1>2 DEF RunSeen
<1> QED BY <1>3 DEF ClaimInv

(* A claim succeeds only on a status that no actor in a run has seen.      *)
LEMMA ClaimKeepsOne ==
    ASSUME TypeInv, ClaimInv, NEW a \in Actor, Claim(a)
    PROVE  ClaimInv'
<1> SUFFICES ASSUME resets' = 0 PROVE ClaimInv' BY DEF ClaimInv
<1>0. /\ pc[a] = "claim" /\ job[a] \in Task /\ resets = 0 /\ UNCHANGED resetting
      /\ pc \in [Actor -> Steps] /\ job \in [Actor -> Task \cup {NoTask}]
      /\ status \in [Task -> Status]
      /\ \A b \in Actor : pc[b] \in InRun => job[b] \in Task
  BY DEF Claim, boundVars, TypeInv, TypeOK, LocalTypeOK, StoreTypeOK, LocalOK, JobSteps,
         RunSteps, InRun
<1>1. CASE UNCHANGED hashVars /\ (AfterRun(a) \/ Raise(a))
  <2>1. \E p : p \notin InRun /\ (Go(a, p) \/ Leave(a, p))
    BY <1>1 DEF AfterRun, Raise, Base, InRun
  <2>2. \A b \in Actor : pc'[b] \in InRun => pc'[b] = pc[b] /\ job'[b] = job[b]
    BY <1>0, <2>1 DEF Go, Leave
  <2>3. Aside BY <1>0, <1>1, <2>2 DEF Aside, hashVars
  <2> QED BY <2>3, AsideKeeps
<1>2. CASE /\ \E from \in ClaimFrom(a) : MayMove(job[a], from)
           /\ status' = [status EXCEPT ![job[a]] = "RUNNING"]
           /\ UNCHANGED partial /\ Go(a, "start")
  <2>1. status[job[a]] \in {"READY", "FAILED"} /\ Full(job[a])
    BY <1>2 DEF ClaimFrom, MayMove
  <2>2. \A b \in Actor : pc[b] \in InRun => job[b] # job[a]
    BY <1>0, <2>1 DEF ClaimInv, RunSeen
  <2>3. /\ pc'[a] = "start" /\ job' = job
        /\ \A b \in Actor \ {a} : pc'[b] = pc[b]
    BY <1>0, <1>2 DEF Go
  <2>4. /\ status'[job[a]] = "RUNNING"
        /\ \A t \in Task \ {job[a]} : status'[t] = status[t]
    BY <1>0, <1>2
  <2>5. RunSeen(a)' BY <2>3, <2>4 DEF RunSeen
  <2>6. ASSUME NEW b \in Actor \ {a} PROVE RunSeen(b)'
    <3> SUFFICES ASSUME pc[b] \in InRun PROVE RunSeen(b)' BY <2>3 DEF RunSeen
    <3>1. job[b] \in Task \ {job[a]} /\ RunSeen(b) BY <1>0, <2>2 DEF ClaimInv
    <3> QED BY <1>2, <2>3, <2>4, <3>1 DEF RunSeen, Full, Exists
  <2>7. \A b, c \in Actor : pc'[b] \in InRun /\ pc'[c] \in InRun /\ job'[b] = job'[c] => b = c
    BY <1>0, <2>2, <2>3 DEF ClaimInv
  <2> QED BY <1>0, <2>5, <2>6, <2>7 DEF ClaimInv
<1> QED BY <1>1, <1>2 DEF Claim, hashVars

(* An actor that writes a status leaves the others' tasks alone.           *)
LEMMA WriteKeepsOne ==
    ASSUME TypeInv, ClaimInv, NEW a \in Actor, pc[a] \in InRun,
           NEW s \in {"SUCCESSFUL", "FAILED"}, WriteStatus(job[a], s),
           NEW p, Go(a, p) \/ Leave(a, p), p \in InRun => p = "sent" /\ s = "SUCCESSFUL" /\ Go(a, p),
           UNCHANGED <<resets, resetting>>
    PROVE  ClaimInv'
<1> SUFFICES ASSUME resets' = 0 PROVE ClaimInv' BY DEF ClaimInv
<1>0. /\ pc \in [Actor -> Steps] /\ job \in [Actor -> Task \cup {NoTask}]
      /\ status \in [Task -> Status] /\ resets = 0
      /\ \A b \in Actor : pc[b] \in InRun => job[b] \in Task
  BY DEF TypeInv, TypeOK, LocalTypeOK, StoreTypeOK, LocalOK, JobSteps, RunSteps, InRun
<1>1. /\ pc'[a] = p /\ \A b \in Actor \ {a} : pc'[b] = pc[b] /\ job'[b] = job[b]
      /\ p \in InRun => job'[a] = job[a]
  BY <1>0 DEF Go, Leave
<1>2. /\ status'[job[a]] = s
      /\ \A t \in Task \ {job[a]} : status'[t] = status[t] /\ (t \in partial' <=> t \in partial)
  BY <1>0 DEF WriteStatus
<1>3. ASSUME NEW b \in Actor, pc'[b] \in InRun PROVE RunSeen(b)'
  <2>1. CASE b = a BY <1>1, <1>2, <1>3, <2>1 DEF RunSeen
  <2>2. CASE b # a
    <3>1. pc[b] \in InRun /\ job[b] \in Task \ {job[a]} /\ RunSeen(b)
      BY <1>0, <1>1, <1>3, <2>2 DEF ClaimInv
    <3> QED BY <1>1, <1>2, <2>2, <3>1 DEF RunSeen, Full, Exists
  <2> QED BY <2>1, <2>2
<1>4. \A b \in Actor : RunSeen(b)' BY <1>3 DEF RunSeen
<1>5. \A b \in Actor : pc'[b] \in InRun => pc[b] \in InRun /\ job'[b] = job[b]
  BY <1>1
<1> QED BY <1>0, <1>4, <1>5 DEF ClaimInv

LEMMA ClaimRun ==
    ASSUME TypeInv, ClaimInv, NEW a \in Actor, Run(a) \/ Crash(a) \/ Fault(a)
    PROVE  ClaimInv'
<1>0. /\ UNCHANGED <<resets, resetting>>
      /\ pc \in [Actor -> Steps] /\ job \in [Actor -> Task \cup {NoTask}]
  BY DEF Run, Call, Claim, Start, SetupFails, Finish, ReportSuccess, ReportFailure, Crash,
         Fault, boundVars, TypeInv, TypeOK, LocalTypeOK
<1>1. Base(a) \notin InRun /\ "ack" \notin InRun /\ "failed" \notin InRun
  BY DEF Base, InRun
<1>2. AfterRun(a) \/ Raise(a) => \E p : p \notin InRun /\ (Go(a, p) \/ Leave(a, p))
  BY <1>1 DEF AfterRun, Raise, Base, InRun
<1>3. ASSUME UNCHANGED hashVars, NEW p, p \notin InRun, Go(a, p) \/ Leave(a, p)
      PROVE  ClaimInv'
  <2>1. \A b \in Actor : pc'[b] \in InRun => pc'[b] = pc[b] /\ job'[b] = job[b]
    BY <1>0, <1>3 DEF Go, Leave
  <2> QED BY <1>0, <1>3, <2>1, AsideKeeps DEF Aside, hashVars
<1>4. CASE Call(a)
  <2>1. \A b \in Actor : pc'[b] \in InRun => pc'[b] = pc[b] /\ job'[b] = job[b]
    BY <1>0, <1>4 DEF Call, InRun
  <2>2. UNCHANGED hashVars BY <1>4 DEF Call
  <2> QED BY <1>0, <2>1, <2>2, AsideKeeps DEF Aside, hashVars
<1>5. CASE Start(a)
  <2>1. CASE Go(a, "run") /\ UNCHANGED hashVars
    <3>1. \A b \in Actor :
             pc'[b] \in InRun => pc[b] \in InRun /\ job'[b] = job[b]
                                 /\ (pc'[b] = "sent" <=> pc[b] = "sent")
      BY <1>0, <1>5, <2>1 DEF Go, Start, InRun
    <3> QED BY <1>0, <2>1, <3>1, AsideKeeps DEF Aside, hashVars
  <2>2. CASE WriteStatus(job[a], "FAILED") /\ Raise(a)
    BY <1>0, <1>1, <1>5, <2>2, WriteKeepsOne DEF Raise, Start, InRun
  <2>3. CASE UNCHANGED hashVars /\ Raise(a) BY <1>2, <1>3, <2>3
  <2> QED BY <1>5, <2>1, <2>2, <2>3 DEF Start
<1>6. CASE SetupFails(a)
  BY <1>0, <1>1, <1>6, WriteKeepsOne DEF SetupFails, Raise, InRun
<1>7. CASE Finish(a)
  BY <1>0, <1>1, <1>7, WriteKeepsOne DEF Finish, InRun
<1>8. CASE ReportSuccess(a)
  <2>1. CASE AfterRun(a) /\ UNCHANGED hashVars BY <1>2, <1>3, <2>1
  <2>2. CASE WriteStatus(job[a], "FAILED") /\ Go(a, "failed")
    BY <1>0, <1>1, <1>8, <2>2, WriteKeepsOne DEF ReportSuccess, InRun
  <2> QED BY <1>8, <2>1, <2>2 DEF ReportSuccess
<1>9. CASE ReportFailure(a) BY <1>2, <1>3, <1>9 DEF ReportFailure
<1>10. CASE Fault(a) \/ Crash(a)
  <2>1. UNCHANGED hashVars /\ \E p : p \notin InRun /\ Leave(a, p)
    BY <1>1, <1>10 DEF Fault, Crash, Raise, InRun
  <2> QED BY <1>3, <2>1
<1> QED BY <1>4, <1>5, <1>6, <1>7, <1>8, <1>9, <1>10, ClaimKeepsOne DEF Run

LEMMA ClaimClient ==
    ASSUME TypeInv, ClaimInv, NEW t \in Task, Client(t) \/ ResetDies(t)
    PROVE  ClaimInv'
<1> SUFFICES ASSUME resets' = 0 PROVE ClaimInv' BY DEF ClaimInv
<1>1. resets = 0 /\ UNCHANGED <<resets, localVars>>
  BY DEF TypeInv, TypeOK, Client, EnqueueNow, EnqueueLater, ComesDue, Vanish, ResetRead,
         ResetWrite, Requeue, ResetDies, boundVars
<1>2. resetting[t] = "no" BY <1>1 DEF ClaimInv
<1>3. EnqueueNow(t) \/ EnqueueLater(t) \/ ComesDue(t) \/ Vanish(t)
  BY <1>1, <1>2 DEF Client, ResetRead, ResetWrite, Requeue, ResetDies, TypeInv, TypeOK
<1>4. UNCHANGED resetting
  BY <1>3 DEF EnqueueNow, EnqueueLater, ComesDue, Vanish
<1>5. \A u \in Task : \/ status'[u] = status[u] /\ (u \in partial' <=> u \in partial)
                      \/ status[u] = "NEW" /\ status'[u] = "READY"
                      \/ status'[u] = "GONE"
  BY <1>3 DEF EnqueueNow, EnqueueLater, ComesDue, Vanish, hashVars, TypeInv, TypeOK,
              StoreTypeOK
<1> QED BY <1>1, <1>4, <1>5, AsideKeeps DEF Aside, localVars

LEMMA ClaimWorker ==
    ASSUME TypeInv, ClaimInv, NoSweeps, Sweeper = {}, NEW w \in Worker,
           Receive(w) \/ Sweep(w) \/ Exit(w)
    PROVE  ClaimInv' /\ NoSweeps'
<1>0. /\ w \in Actor /\ pc \in [Actor -> Steps] /\ job \in [Actor -> Task \cup {NoTask}]
      /\ then \in [Actor -> {"loop", "take", "sweep"}]
      /\ pc[w] \notin SweepSteps /\ then[w] # "sweep"
  BY DEF Actor, TypeInv, TypeOK, LocalTypeOK, NoSweeps
<1>1. ~Sweep(w)
  BY <1>0 DEF Sweep, BeginSweep, SweepClaim, SweepNext, Release, Attempts, GiveUp, Record,
              ReapScan, RemoveOne, RemoveDone, SweepSteps
<1>2. UNCHANGED <<hashVars, resetting, resets>>
  BY <1>1 DEF Exit, Receive, BeginReceive, PromoteOne, PromoteDone, ReadHistory, ReadNew,
         WaitRead, WaitOver, TakeDone, TakeEarly, TakeReady, TakeNext, Defer, Ack, Delete,
         boundVars
<1>3. \E p \in Steps \ (InRun \cup SweepSteps) :
         /\ pc' = [pc EXCEPT ![w] = p]
         /\ \E t : job' = [job EXCEPT ![w] = t]
         /\ \E n : n # "sweep" /\ then' = [then EXCEPT ![w] = n]
  <2> USE <1>0 DEF Steps, InRun, SweepSteps, RunSteps, ReceiveSteps
  <2>1. ASSUME NEW p \in {"loop", "down", "promote", "history", "take", "new", "wait", "ack",
                          "xdel"}, Go(w, p) \/ Leave(w, p)
        PROVE  /\ pc' = [pc EXCEPT ![w] = p]
               /\ \E t : job' = [job EXCEPT ![w] = t]
               /\ \E n : n # "sweep" /\ then' = [then EXCEPT ![w] = n]
    <3>1. CASE Leave(w, p) BY <3>1 DEF Leave
    <3>2. CASE Go(w, p)
      <4>1. job' = [job EXCEPT ![w] = job[w]] /\ then' = [then EXCEPT ![w] = then[w]]
        BY <3>2 DEF Go
      <4> QED BY <3>2, <4>1 DEF Go
    <3> QED BY <2>1, <3>1, <3>2
  <2>2. CASE \E p \in {"loop", "down", "promote", "history", "take", "new", "wait", "ack",
                       "xdel"} : Go(w, p) \/ Leave(w, p)
    BY <2>1, <2>2
  <2>3. CASE ReadHistory(w) \/ ReadNew(w) \/ WaitRead(w)
    <3>1. job' = [job EXCEPT ![w] = job[w]] /\ then' = [then EXCEPT ![w] = then[w]]
      BY <2>3 DEF ReadHistory, ReadNew, WaitRead
    <3>2. pc' = [pc EXCEPT ![w] = "take"]
      BY <2>3 DEF ReadHistory, ReadNew, WaitRead
    <3> QED BY <3>1, <3>2
  <2>4. CASE TakeDone(w) \/ TakeEarly(w) \/ TakeReady(w)
    BY <2>4 DEF TakeDone, TakeEarly, TakeReady, Handle
  <2>5. CASE Delete(w)
    <3>1. CASE Leave(w, "loop") BY <2>2, <3>1
    <3>2. CASE then[w] = "take"
      BY <2>5, <3>2 DEF Delete, Leave
    <3> QED BY <2>5, <3>1, <3>2 DEF Delete
  <2> QED
    BY <1>1, <2>2, <2>3, <2>4, <2>5
    DEF Exit, Receive, BeginReceive, PromoteOne, PromoteDone, WaitOver, TakeNext, Defer, Ack
<1>4. NoSweeps' BY <1>0, <1>3 DEF NoSweeps, Actor
<1>5. \A b \in Actor : pc'[b] \in InRun => pc'[b] = pc[b] /\ job'[b] = job[b]
  BY <1>0, <1>3
<1> QED BY <1>2, <1>4, <1>5, AsideKeeps DEF Aside, hashVars

LEMMA ClaimStep ==
    ASSUME TypeInv, ClaimInv, NoSweeps, Sweeper = {}, [Next]_vars
    PROVE  ClaimInv' /\ NoSweeps'
<1>1. CASE UNCHANGED vars
  <2>1. Aside BY <1>1 DEF vars, localVars, hashVars, boundVars, Aside
  <2> QED BY <1>1, <2>1, AsideKeeps DEF vars, localVars, NoSweeps
<1>2. ASSUME NEW t \in Task, Client(t) \/ ResetDies(t) PROVE ClaimInv' /\ NoSweeps'
  <2>1. UNCHANGED localVars
    BY <1>2 DEF Client, EnqueueNow, EnqueueLater, ComesDue, Vanish, ResetRead, ResetWrite,
                Requeue, ResetDies
  <2> QED BY <1>2, <2>1, ClaimClient DEF NoSweeps, localVars
<1>3. ASSUME NEW a \in Actor, Run(a) \/ Crash(a) \/ Fault(a) PROVE ClaimInv' /\ NoSweeps'
  <2>1. \E p : p \notin SweepSteps /\ (Go(a, p) \/ Leave(a, p) \/ Call(a))
    <3>1. {"loop", "idle", "down", "ack", "start", "run", "sent", "failed"} \cap SweepSteps = {}
      BY DEF SweepSteps
    <3> QED BY <1>3, <3>1 DEF Run, Claim, Start, SetupFails, Finish, ReportSuccess,
                ReportFailure, Crash, Fault, AfterRun, Raise, Base
  <2>2. NoSweeps'
    BY <2>1 DEF NoSweeps, Go, Leave, Call, TypeInv, TypeOK, LocalTypeOK, Actor, SweepSteps
  <2> QED BY <1>3, <2>2, ClaimRun
<1> QED BY <1>1, <1>2, <1>3, ClaimWorker DEF Next

(* Until a task is reset nobody runs it beside another, not even a trigger *)
(* that may retry, wherever workers are slow, die or their commands fail,  *)
(* if nobody sweeps (_CLAIM_TASK).                                         *)
THEOREM ClaimExcludes == ASSUME Sweeper = {} PROVE Spec => []ExclusiveUntilReset
<1>1. Init => TypeInv /\ ClaimInv /\ NoSweeps
  BY TypeInit DEF Init, ClaimInv, NoSweeps, RunSeen, InRun, Base, SweepSteps, Actor
<1>2. TypeInv /\ ClaimInv /\ NoSweeps /\ [Next]_vars => (TypeInv /\ ClaimInv /\ NoSweeps)'
  BY TypeStep, ClaimStep
<1>3. ClaimInv => ExclusiveUntilReset
  BY DEF ClaimInv, ExclusiveUntilReset, ExclusiveRun, Executing, InRun
<1> QED BY <1>1, <1>2, <1>3, PTL DEF Spec

----------------------------------------------------------------------------
(***************************************************************************)
(* No task is lost.  A task that waits is in the delayed set or in a       *)
(* message whose handler still looks at the status before it acknowledges; *)
(* a task that runs is run by somebody, or its message is with a worker    *)
(* that is down or with the sweep that is about to hand it back.           *)
(***************************************************************************)
SpentSteps == {"sent", "failed", "record", "ack"}
RecoverySteps == {"release", "attempts", "give_up"}

Spent(m) == \E w \in Worker : pc[w] \in SpentSteps /\ cur[w] = m

Deliverable(m) == Live(m) /\ ~Spent(m)

Orphan(m) ==
    place[m] = "pending" /\ \E w \in Worker :
        owner[m] = w /\ (pc[w] = "down" \/ (pc[w] \in RecoverySteps /\ cur[w] = m))

ReadyHeld(t) ==
    status[t] = "READY" /\ t \notin partial /\ resetting[t] \notin {"requeue", "cut"} =>
        t \in delayed \/ \E m \in LiveMessages(t) : Deliverable(m)

RunHeld(t) ==
    status[t] = "RUNNING" /\ t \notin partial =>
        \/ \E a \in Actor : job[a] = t /\ Executing(a)
        \/ \E m \in LiveMessages(t) : Orphan(m)

(* A hash without its fields never has them back.                          *)
Bare(t) == t \in partial \/ status[t] = "GONE"

HeldInv ==
    \A t \in Task : ReadyHeld(t) /\ RunHeld(t) /\ (resetting[t] = "write_only" => Bare(t))

(* What the code needs for it: no run is cut off but by the death of a     *)
(* worker, no command fails between the claim or the XCLAIM and the write  *)
(* that answers for it, and only finished tasks are reset.                 *)
NoStranding ==
    /\ Slow = {} /\ Trigger \cap MayStop = {}
    /\ FaultSteps \cap ({"start", "run"} \cup RecoverySteps) = {}
    /\ ResetFrom \subseteq {"SUCCESSFUL", "FAILED"}

Own(a) ==
    \/ Run(a) \/ Crash(a) \/ Fault(a)
    \/ a \in Worker /\ (Receive(a) \/ Sweep(a) \/ Exit(a))

(* A step is that of a client or of one actor.                             *)
LEMMA OwnOrClient ==
    ASSUME Next
    PROVE  (\E t \in Task : Client(t) \/ ResetDies(t)) \/ \E a \in Actor : Own(a)
BY DEF Next, Own, Actor

LEMMA ClientLocals ==
    ASSUME NEW t \in Task, Client(t) \/ ResetDies(t)
    PROVE  UNCHANGED localVars
BY DEF Client, EnqueueNow, EnqueueLater, ComesDue, Vanish, ResetRead, ResetWrite, Requeue,
       ResetDies

(* It leaves the others what they have in hand.                            *)
LEMMA OthersLocals ==
    ASSUME TypeInv, NEW a \in Actor, NEW b \in Actor, a # b, Own(a)
    PROVE  /\ pc'[b] = pc[b] /\ cur'[b] = cur[b] /\ job'[b] = job[b]
           /\ batch'[b] = batch[b]
<1> USE DEF TypeInv, TypeOK, LocalTypeOK
<1>1. CASE \E p : Go(a, p) \/ Leave(a, p) BY <1>1 DEF Go, Leave
<1>2. CASE Run(a)
  BY <1>1, <1>2 DEF Run, Call, Claim, Start, SetupFails, Finish, ReportSuccess, ReportFailure,
                    AfterRun, Raise
<1>3. CASE Crash(a) \/ Fault(a) \/ Exit(a) BY <1>1, <1>3 DEF Crash, Fault, Raise, Exit
<1>4. CASE Receive(a)
  BY <1>1, <1>4
  DEF Receive, BeginReceive, PromoteOne, PromoteDone, ReadHistory, ReadNew, WaitRead, WaitOver,
      TakeDone, TakeEarly, TakeReady, TakeNext, Handle, Defer, Ack, Delete
<1>5. CASE Sweep(a)
  BY <1>1, <1>5
  DEF Sweep, BeginSweep, SweepClaim, SweepNext, Release, Attempts, GiveUp, Record, ReapScan,
      RemoveOne, RemoveDone
<1> QED BY <1>2, <1>3, <1>4, <1>5 DEF Own

(* So a worker whose hand changes has taken the step.                      *)
LEMMA HandMoved ==
    ASSUME TypeInv, Next, NEW b \in Actor,
           ~(pc'[b] = pc[b] /\ cur'[b] = cur[b] /\ job'[b] = job[b])
    PROVE  Own(b)
BY OwnOrClient, OthersLocals, ClientLocals DEF localVars

(* A message that is not being acknowledged stays.                         *)
LEMMA LiveStays ==
    ASSUME TypeInv, CustodyInv, Next, NEW m \in Msg, Live(m),
           ~\E w \in Worker : pc[w] = "ack" /\ cur[w] = m
    PROVE  Live(m)' /\ entry'[m] = entry[m]
<1> USE DEF TypeInv, TypeOK, StreamTypeOK, Live
<1>1. CASE UNCHANGED streamVars BY <1>1 DEF streamVars
<1>2. CASE \E t : XAdd(t) BY <1>2 DEF XAdd
<1>3. ASSUME NEW w \in Worker, Receive(w), ~\E t : XAdd(t), ~UNCHANGED streamVars
      PROVE  Live(m)' /\ entry'[m] = entry[m]
  <2>1. CASE \E c, M : Deliver(c, M) BY <2>1 DEF Deliver
  <2>2. CASE Ack(w) BY <2>2 DEF Ack, XAck, DropPending
  <2>3. CASE Delete(w) BY <2>3 DEF Delete, XDel, CustodyInv, CustodyOf, Acked
  <2> QED
    BY <1>3, <2>1, <2>2, <2>3
    DEF Receive, BeginReceive, PromoteOne, PromoteDone, ReadHistory, ReadNew, WaitRead,
        WaitOver, TakeDone, TakeEarly, TakeReady, TakeNext, Defer
<1>4. ASSUME NEW w \in Worker, Sweep(w) \/ Exit(w), ~UNCHANGED streamVars
      PROVE  Live(m)' /\ entry'[m] = entry[m]
  <2>1. CASE \E c, n : XClaim(c, n) BY <2>1 DEF XClaim
  <2>2. CASE \E c, S : DelConsumer(c, S)
    <3>1. entry'[m] = entry[m] /\ place'[m] \in {place[m], "behind"}
          /\ (place[m] = "queued" => place'[m] = "queued")
      BY <2>2 DEF DelConsumer, DropPending
    <3>2. place[m] = "pending" => place'[m] = "pending" BY OnlyAckDrops
    <3> QED BY <3>1, <3>2
  <2> QED
    BY <1>4, <2>1, <2>2
    DEF Exit, Sweep, BeginSweep, SweepClaim, SweepNext, Release, Attempts, GiveUp, Record,
        ReapScan, RemoveOne, RemoveDone
<1>5. ASSUME NEW t \in Task, Client(t) \/ ResetDies(t)
      PROVE  UNCHANGED streamVars \/ \E u : XAdd(u)
  BY <1>5 DEF Client, EnqueueNow, EnqueueLater, ComesDue, Vanish, ResetRead, ResetWrite,
              Requeue, ResetDies
<1>6. ASSUME NEW a \in Actor, Run(a) \/ Crash(a) \/ Fault(a) PROVE UNCHANGED streamVars
  BY <1>6 DEF Run, Call, Claim, Start, SetupFails, Finish, ReportSuccess, ReportFailure, Crash,
              Fault
<1> QED BY <1>1, <1>2, <1>3, <1>4, <1>5, <1>6 DEF Next

(* Who changes the hash of a task.                                         *)
LEMMA HashMoves ==
    ASSUME TypeInv, Next, NEW t \in Task
    PROVE  \/ status'[t] = status[t] /\ (t \in partial' <=> t \in partial)
           \/ EnqueueNow(t) \/ EnqueueLater(t) \/ Vanish(t) \/ ResetWrite(t)
           \/ \E a \in Actor : job[a] = t /\ (Run(a) \/ (a \in Worker /\ Sweep(a)))
<1> USE DEF TypeInv, TypeOK, StoreTypeOK
<1>1. CASE UNCHANGED hashVars BY <1>1 DEF hashVars
<1>2. ASSUME NEW u \in Task, Client(u) \/ ResetDies(u), u # t
      PROVE  status'[t] = status[t] /\ (t \in partial' <=> t \in partial)
  BY <1>2 DEF Client, EnqueueNow, EnqueueLater, ComesDue, Vanish, ResetRead, ResetWrite,
              Requeue, ResetDies, WriteStatus, hashVars
<1>3. CASE Client(t) \/ ResetDies(t)
  BY <1>1, <1>3 DEF Client, ComesDue, ResetRead, Requeue, ResetDies
<1>4. ASSUME NEW a \in Actor, Run(a), job[a] # t
      PROVE  status'[t] = status[t] /\ (t \in partial' <=> t \in partial)
  BY <1>4 DEF Run, Call, Claim, Start, SetupFails, Finish, ReportSuccess, ReportFailure,
              WriteStatus, hashVars
<1>5. ASSUME NEW w \in Worker, Sweep(w), job[w] # t
      PROVE  status'[t] = status[t] /\ (t \in partial' <=> t \in partial)
  BY <1>5 DEF Sweep, BeginSweep, SweepClaim, SweepNext, Release, HandBack, Attempts, GiveUp,
              Record, ReapScan, RemoveOne, RemoveDone, WriteStatus, hashVars
<1>6. ASSUME NEW w \in Worker, Receive(w) \/ Exit(w) PROVE UNCHANGED hashVars
  BY <1>6 DEF Exit, Receive, BeginReceive, PromoteOne, PromoteDone, ReadHistory, ReadNew,
              WaitRead, WaitOver, TakeDone, TakeEarly, TakeReady, TakeNext, Defer, Ack, Delete
<1>7. ASSUME NEW a \in Actor, Crash(a) \/ Fault(a) PROVE UNCHANGED hashVars
  BY <1>7 DEF Crash, Fault
<1> QED BY <1>1, <1>2, <1>3, <1>4, <1>5, <1>6, <1>7 DEF Next, Actor

LEMMA BareStays == ASSUME TypeInv, Next, NEW t \in Task, Bare(t) PROVE Bare(t)'
<1> USE DEF Bare
<1>0. /\ status \in [Task -> Status] /\ partial \subseteq Task
      /\ status[t] = "NEW" => t \in partial
  BY DEF TypeInv, TypeOK, StoreTypeOK
<1>1. CASE EnqueueNow(t) \/ EnqueueLater(t) \/ Vanish(t)
  BY <1>0, <1>1 DEF EnqueueNow, EnqueueLater, Vanish, hashVars
<1>2. CASE \E s : WriteStatus(t, s) BY <1>0, <1>2 DEF WriteStatus, Exists
<1>3. CASE ResetWrite(t) BY <1>2, <1>3 DEF ResetWrite
<1>4. ASSUME NEW a \in Actor, job[a] = t, Run(a) PROVE Bare(t)'
  <2>1. CASE UNCHANGED hashVars BY <2>1 DEF hashVars
  <2>2. ~\E from : MayMove(t, from) BY <1>0 DEF MayMove, Full, Exists
  <2> QED
    BY <1>2, <1>4, <2>1, <2>2
    DEF Run, Call, Claim, Start, SetupFails, Finish, ReportSuccess, ReportFailure, hashVars
<1>5. ASSUME NEW w \in Worker, job[w] = t, Sweep(w) PROVE Bare(t)'
  <2>1. CASE UNCHANGED hashVars BY <2>1 DEF hashVars
  <2>2. ~\E from : MayMove(t, from) BY <1>0 DEF MayMove, Full, Exists
  <2> QED
    BY <1>2, <1>5, <2>1, <2>2
    DEF Sweep, BeginSweep, SweepClaim, SweepNext, Release, HandBack, Attempts, GiveUp,
        MayGiveUp, Record, ReapScan, RemoveOne, RemoveDone
<1> QED BY <1>0, <1>1, <1>3, <1>4, <1>5, HashMoves

(* A task that waits loses its message to nobody who has not looked.       *)
LEMMA NotSpent ==
    ASSUME TypeInv, CustodyInv, Next, NEW m \in Msg, NEW t \in Task, entry[m] = t,
           status[t] = "READY", t \notin partial, status'[t] = "READY", t \notin delayed',
           ~Spent(m)
    PROVE  ~Spent(m)'
<1> SUFFICES ASSUME NEW w \in Worker, pc'[w] \in SpentSteps, cur'[w] = m PROVE FALSE
  BY DEF Spent
<1>0. /\ w \in Actor /\ pc \in [Actor -> Steps] /\ cur \in [Actor -> Msg \cup {0}]
      /\ status \in [Task -> Status]
      /\ pc[w] \in HandSteps => job[w] = entry[cur[w]] /\ cur[w] \in Msg
      /\ pc[w] \notin SpentSteps \/ cur[w] # m
  BY DEF Actor, TypeInv, TypeOK, LocalTypeOK, StoreTypeOK, CustodyInv, CustodyOf, InHand, Spent
<1>1. Own(w) BY <1>0, HandMoved
<1>2. Full(t) BY DEF Full, Exists
<1>3. ASSUME NEW p, p \notin SpentSteps, Go(w, p) \/ Leave(w, p) PROVE FALSE
  BY <1>0, <1>3 DEF Go, Leave
<1>4. "ack" \in SpentSteps /\ {"loop", "idle", "down", "start", "run", "promote", "history",
        "take", "new", "wait", "xdel", "release", "give_up", "attempts", "sweep", "claim",
        "defer", "reap", "remove"} \cap SpentSteps = {}
  BY DEF SpentSteps
<1>5. CASE Run(w)
  <2>1. pc[w] \in RunSteps \/ Call(w)
    BY <1>5 DEF Run, Claim, Start, SetupFails, Finish, ReportSuccess, ReportFailure, RunSteps
  <2>2. ~Call(w) BY DEF Call
  <2>3. \E p : Go(w, p) \/ Leave(w, p)
    BY <1>5, <2>2 DEF Run, Claim, Start, SetupFails, Finish, ReportSuccess, ReportFailure,
                AfterRun, Raise
  <2>4. cur[w] = m /\ job[w] = t /\ pc[w] \notin SpentSteps
    <3>1. cur'[w] \in {cur[w], 0} BY <1>0, <2>3 DEF Go, Leave
    <3>2. m # 0 BY DEF Msg
    <3>3. cur[w] = m BY <1>0, <3>1, <3>2
    <3> QED BY <1>0, <2>1, <2>2, <3>3 DEF HandSteps
  <2>5. CASE Claim(w)
    <3>1. \A from \in ClaimFrom(w) : MayMove(t, from) BY <1>2 DEF ClaimFrom, MayMove
    <3>2. Go(w, "start") BY <2>4, <2>5, <3>1 DEF Claim
    <3> QED BY <1>3, <1>4, <3>2
  <2>6. CASE Start(w)
    BY <1>0, <1>3, <1>4, <2>4, <2>6 DEF Start, Raise, Base
  <2>7. CASE SetupFails(w) \/ Finish(w)
    BY <1>0, <2>4, <2>7 DEF SetupFails, Finish, WriteStatus
  <2>8. ~ReportSuccess(w) /\ ~ReportFailure(w)
    BY <2>4 DEF ReportSuccess, ReportFailure, SpentSteps
  <2> QED BY <1>5, <2>2, <2>5, <2>6, <2>7, <2>8 DEF Run
<1>6. CASE Crash(w) \/ Fault(w) \/ Exit(w)
  BY <1>3, <1>4, <1>6 DEF Crash, Fault, Exit, Raise, Base
<1>7. CASE Receive(w)
  <2>1. CASE TakeDone(w)
    <3>1. PICK n \in FirstOf(batch[w]) : status[entry[n]] # "READY" /\ Handle(w, n, "ack", "take")
      BY <2>1 DEF TakeDone
    <3>2. n = m BY <1>0, <3>1 DEF Handle
    <3> QED BY <3>1, <3>2
  <2>2. CASE TakeEarly(w) \/ TakeReady(w)
    BY <1>0, <1>4, <2>2 DEF TakeEarly, TakeReady, Handle
  <2>3. CASE Defer(w)
    <3>1. cur'[w] = cur[w] /\ pc[w] = "defer" /\ job[w] \in delayed'
      BY <2>3 DEF Defer, Go
    <3> QED BY <1>0, <3>1 DEF HandSteps
  <2>4. CASE Ack(w) \/ Delete(w)
    BY <1>0, <1>3, <1>4, <2>4 DEF Ack, Delete
  <2>5. CASE ReadHistory(w) \/ ReadNew(w) \/ WaitRead(w)
    BY <1>0, <1>4, <2>5 DEF ReadHistory, ReadNew, WaitRead
  <2>6. CASE BeginReceive(w) \/ PromoteOne(w) \/ PromoteDone(w) \/ WaitOver(w) \/ TakeNext(w)
    BY <1>3, <1>4, <2>6 DEF BeginReceive, PromoteOne, PromoteDone, WaitOver, TakeNext
  <2> QED BY <1>7, <2>1, <2>2, <2>3, <2>4, <2>5, <2>6 DEF Receive
<1>8. CASE Sweep(w)
  <2>1. CASE BeginSweep(w) \/ SweepClaim(w) \/ SweepNext(w) \/ Release(w) \/ Attempts(w)
    BY <1>0, <1>3, <1>4, <2>1
    DEF BeginSweep, SweepClaim, SweepNext, Release, Attempts
  <2>2. CASE GiveUp(w)
    <3>1. cur[w] = m /\ job[w] = t
      BY <1>0, <2>2 DEF GiveUp, Go, HandSteps
    <3>2. MayGiveUp(t) BY <1>2 DEF MayGiveUp, MayMove
    <3> QED BY <1>0, <2>2, <3>1, <3>2 DEF GiveUp
  <2>3. CASE Record(w)
    BY <1>0, <2>3 DEF Record, Go, SpentSteps
  <2>4. CASE ReapScan(w) \/ RemoveOne(w) \/ RemoveDone(w)
    BY <1>0, <1>3, <1>4, <2>4 DEF ReapScan, RemoveOne, RemoveDone
  <2> QED BY <1>8, <2>1, <2>2, <2>3, <2>4 DEF Sweep
<1> QED BY <1>1, <1>5, <1>6, <1>7, <1>8 DEF Own

(* A new message is in nobody's hand.                                      *)
LEMMA AddedDeliverable ==
    ASSUME TypeInv, CustodyInv, NEW t \in Task, XAdd(t),
           \A w \in Worker : pc'[w] \in SpentSteps => pc[w] \in HandSteps /\ cur'[w] = cur[w]
    PROVE  \E m \in LiveMessages(t)' : Deliverable(m)'
<1>1. PICK m \in Msg : /\ place[m] = "free"
                       /\ entry' = [entry EXCEPT ![m] = t]
                       /\ place' = [place EXCEPT ![m] = "queued"]
  BY DEF XAdd
<1>2. entry'[m] = t /\ place'[m] = "queued"
  BY <1>1 DEF TypeInv, TypeOK, StreamTypeOK
<1>3. \A w \in Worker : pc[w] \in HandSteps => cur[w] # m
  BY <1>1 DEF CustodyInv, CustodyOf, InHand
<1> QED BY <1>2, <1>3 DEF LiveMessages, Deliverable, Live, Spent

(* How a task comes to wait.                                               *)
LEMMA BecomesReady ==
    ASSUME TypeInv, Next, NEW t \in Task, ~(status[t] = "READY" /\ t \notin partial),
           status'[t] = "READY", t \notin partial'
    PROVE  \/ EnqueueNow(t) \/ EnqueueLater(t) \/ ResetWrite(t)
           \/ \E w \in Worker : job[w] = t /\ Release(w) /\ MayMove(t, {"RUNNING"})
<1> USE DEF TypeInv, TypeOK, StoreTypeOK
<1>1. CASE UNCHANGED hashVars BY <1>1 DEF hashVars
<1>2. ~\E s : s # "READY" /\ WriteStatus(t, s) BY DEF WriteStatus
<1>3. ASSUME NEW a \in Actor, job[a] = t, Run(a) PROVE FALSE
  BY <1>1, <1>2, <1>3
  DEF Run, Call, Claim, Start, SetupFails, Finish, ReportSuccess, ReportFailure, hashVars
<1>4. ASSUME NEW w \in Worker, job[w] = t, Sweep(w)
      PROVE  Release(w) /\ MayMove(t, {"RUNNING"})
  BY <1>1, <1>2, <1>4
  DEF Sweep, BeginSweep, SweepClaim, SweepNext, Release, HandBack, Attempts, GiveUp, Record,
      ReapScan, RemoveOne, RemoveDone, hashVars
<1>5. ~Vanish(t) BY DEF Vanish
<1> QED BY <1>3, <1>4, <1>5, HashMoves

LEMMA ReadyKept ==
    ASSUME NoStranding, TypeInv, CustodyInv, HeldInv, Next, NEW t \in Task
    PROVE  ReadyHeld(t)'
<1> SUFFICES ASSUME status'[t] = "READY", t \notin partial',
                    resetting'[t] \notin {"requeue", "cut"}, t \notin delayed'
             PROVE  \E m \in LiveMessages(t)' : Deliverable(m)'
  BY DEF ReadyHeld
<1> USE DEF TypeInv, TypeOK, StoreTypeOK
<1>0. ReadyHeld(t) /\ (resetting[t] = "write_only" => Bare(t)) BY DEF HeldInv
<1>1. ASSUME UNCHANGED localVars, XAdd(t) PROVE \E m \in LiveMessages(t)' : Deliverable(m)'
  BY <1>1, AddedDeliverable DEF localVars, SpentSteps, HandSteps, RunSteps
<1>2. CASE status[t] = "READY" /\ t \notin partial
  <2>1. CASE resetting[t] \in {"requeue", "cut"}
    <3>1. Requeue(t)
      BY <1>2, <2>1
      DEF Next, Client, EnqueueNow, EnqueueLater, ComesDue, Vanish, ResetRead, ResetWrite,
          ResetDies, NoStranding, Exit, Crash, Fault, Run, Call, Claim, Start, SetupFails,
          Finish, ReportSuccess, ReportFailure, Receive, BeginReceive, PromoteOne, PromoteDone,
          ReadHistory, ReadNew, WaitRead, WaitOver, TakeDone, TakeEarly, TakeReady, TakeNext,
          Defer, Ack, Delete, Sweep, BeginSweep, SweepClaim, SweepNext, Release, Attempts,
          GiveUp, Record, ReapScan, RemoveOne, RemoveDone, Requeue
    <3> QED BY <1>1, <3>1 DEF Requeue
  <2>2. CASE resetting[t] \notin {"requeue", "cut"} /\ t \in delayed
    <3>1. PICK w \in Worker : PromoteOne(w)
      BY <2>2
      DEF Next, Client, EnqueueNow, EnqueueLater, ComesDue, Vanish, ResetRead, ResetWrite,
          ResetDies, Exit, Crash, Fault, Run, Call, Claim, Start, SetupFails,
          Finish, ReportSuccess, ReportFailure, Receive, BeginReceive, PromoteDone,
          ReadHistory, ReadNew, WaitRead, WaitOver, TakeDone, TakeEarly, TakeReady, TakeNext,
          Defer, Ack, Delete, Sweep, BeginSweep, SweepClaim, SweepNext, Release, Attempts,
          GiveUp, Record, ReapScan, RemoveOne, RemoveDone, Requeue, delayedVars
    <3>2. pc[w] = "promote" /\ XAdd(t) /\ Go(w, "promote")
      BY <1>2, <2>2, <3>1 DEF PromoteOne, LeaveDelayed
    <3>3. \A v \in Worker : pc'[v] \in SpentSteps => pc[v] \in HandSteps /\ cur'[v] = cur[v]
      BY <3>2 DEF Go, SpentSteps, HandSteps, RunSteps, LocalTypeOK, Actor
    <3> QED BY <3>2, <3>3, AddedDeliverable
  <2>3. CASE resetting[t] \notin {"requeue", "cut"} /\ t \notin delayed
    <3>1. PICK m \in LiveMessages(t) : Deliverable(m) BY <1>0, <1>2, <2>3 DEF ReadyHeld
    <3>2. m \in Msg /\ entry[m] = t /\ Live(m) /\ ~Spent(m)
      BY <3>1 DEF LiveMessages, Deliverable
    <3>3. ~Spent(m)' BY <1>2, <3>2, NotSpent
    <3>4. Live(m)' /\ entry'[m] = entry[m]
      BY <3>2, LiveStays DEF Spent, SpentSteps
    <3> QED BY <3>2, <3>3, <3>4 DEF LiveMessages, Deliverable
  <2> QED BY <2>1, <2>2, <2>3
<1>3. CASE ~(status[t] = "READY" /\ t \notin partial)
  <2>1. CASE EnqueueNow(t) BY <1>1, <2>1 DEF EnqueueNow
  <2>2. CASE EnqueueLater(t) BY <2>2 DEF EnqueueLater
  <2>3. CASE ResetWrite(t)
    <3>1. resetting[t] = "write_only" BY <2>3 DEF ResetWrite
    <3> QED BY <1>0, <2>3, <3>1 DEF Bare, ResetWrite, WriteStatus, Exists
  <2>4. ASSUME NEW w \in Worker, job[w] = t, Release(w), MayMove(t, {"RUNNING"})
        PROVE  \E m \in LiveMessages(t)' : Deliverable(m)'
    <3>1. PICK m \in Msg : /\ m = cur[w] /\ place[m] = "pending" /\ owner[m] = w
                           /\ entry[m] = t /\ pc[w] = "release"
      BY <2>4 DEF Release, CustodyInv, CustodyOf, InHand, HandSteps
    <3>2. UNCHANGED streamVars /\ pc'[w] \in {"loop", "sweep"}
      BY <2>4 DEF Release, Leave, LocalTypeOK, Actor
    <3>3. \A v \in Worker \ {w} : pc'[v] = pc[v] /\ cur'[v] = cur[v]
      BY <2>4, OthersLocals DEF Own, Sweep, Actor
    <3>4. \A v \in Worker \ {w} : ~(pc[v] \in SpentSteps /\ cur[v] = m)
      BY <3>1 DEF CustodyInv, CustodyOf, InHand, SpentSteps, HandSteps, RunSteps
    <3>5. ~Spent(m)'
      <4> SUFFICES ASSUME NEW v \in Worker, pc'[v] \in SpentSteps, cur'[v] = m
                   PROVE  FALSE
        BY DEF Spent
      <4> QED BY <3>2, <3>3, <3>4 DEF SpentSteps
    <3> QED BY <3>1, <3>2, <3>5 DEF LiveMessages, Deliverable, Live, streamVars
  <2> QED BY <1>3, <2>1, <2>2, <2>3, <2>4, BecomesReady
<1> QED BY <1>2, <1>3

----------------------------------------------------------------------------
(* How a task comes to run: by a claim, which begins to execute it.        *)
LEMMA BecomesRunning ==
    ASSUME TypeInv, Next, NEW t \in Task, ~(status[t] = "RUNNING" /\ t \notin partial),
           status'[t] = "RUNNING", t \notin partial'
    PROVE  \E a \in Actor : job[a] = t /\ Go(a, "start")
<1> USE DEF TypeInv, TypeOK, StoreTypeOK
<1>1. CASE UNCHANGED hashVars BY <1>1 DEF hashVars
<1>2. ~\E s : s # "RUNNING" /\ WriteStatus(t, s) BY DEF WriteStatus
<1>3. ASSUME NEW a \in Actor, job[a] = t, Run(a) PROVE Go(a, "start")
  BY <1>1, <1>2, <1>3
  DEF Run, Call, Claim, Start, SetupFails, Finish, ReportSuccess, ReportFailure, hashVars
<1>4. ASSUME NEW w \in Worker, job[w] = t, Sweep(w) PROVE FALSE
  BY <1>1, <1>2, <1>4
  DEF Sweep, BeginSweep, SweepClaim, SweepNext, Release, HandBack, Attempts, GiveUp, Record,
      ReapScan, RemoveOne, RemoveDone, hashVars
<1>5. ~Vanish(t) /\ ~EnqueueNow(t) /\ ~EnqueueLater(t) /\ ~ResetWrite(t)
  BY <1>2 DEF Vanish, EnqueueNow, EnqueueLater, ResetWrite
<1> QED BY <1>3, <1>4, <1>5, HashMoves

(* Who takes a pending message from its owner.                             *)
LEMMA OwnerMoves ==
    ASSUME TypeInv, Next, NEW m \in Msg, place[m] = "pending", place'[m] = "pending",
           owner'[m] # owner[m]
    PROVE  \E w \in Worker : /\ MayBeStale(m) /\ owner'[m] = w /\ cur'[w] = m
                             /\ pc'[w] \in {"release", "attempts"}
<1> USE DEF TypeInv, TypeOK, StreamTypeOK
<1>1. ~UNCHANGED streamVars /\ ~\E t : XAdd(t) BY DEF streamVars, XAdd
<1>2. ~\E M : DropPending(M) BY DEF DropPending
<1>3. ~\E n : XDel(n) BY DEF XDel
<1>4. PICK w \in Worker : Receive(w) \/ Sweep(w) \/ Exit(w)
  BY <1>1
  DEF Next, Client, EnqueueNow, EnqueueLater, ComesDue, Vanish, ResetRead,
      ResetWrite, Requeue, ResetDies, Run, Call, Claim, Start, SetupFails,
      Finish, ReportSuccess, ReportFailure, Crash, Fault
<1>5. ~Exit(w) BY <1>2 DEF Exit, DelConsumer
<1>6. ASSUME Receive(w) PROVE FALSE
  <2>1. ~\E M : Deliver(w, M) /\ (m \in M => owner[m] = w) BY DEF Deliver
  <2>2. ~ReadHistory(w)
    <3> DEFINE M == UNION {NextHeld(w, s) : s \in Serves[w]}
    <3>1. m \in M => owner[m] = w BY DEF NextHeld, Oldest
    <3>2. ReadHistory(w) => Deliver(w, M) BY DEF ReadHistory
    <3> HIDE DEF M
    <3> QED BY <2>1, <3>1, <3>2
  <2>3. ~ReadNew(w)
    <3> DEFINE M == IF at[w] \in Serves[w] THEN NextNew(at[w]) ELSE {}
    <3>1. m \notin M BY DEF NextNew, Oldest
    <3>2. ReadNew(w) => Deliver(w, M) BY DEF ReadNew
    <3> HIDE DEF M
    <3> QED BY <2>1, <3>1, <3>2
  <2>4. ~WaitRead(w)
    <3> DEFINE M == UNION {NextNew(s) : s \in Serves[w]}
    <3>1. m \notin M BY DEF NextNew, Oldest
    <3>2. WaitRead(w) => Deliver(w, M) BY DEF WaitRead
    <3> HIDE DEF M
    <3> QED BY <2>1, <3>1, <3>2
  <2> QED
    BY <1>1, <1>2, <1>3, <1>6, <2>2, <2>3, <2>4
    DEF Receive, BeginReceive, PromoteOne, PromoteDone, WaitOver, TakeDone, TakeEarly,
        TakeReady, TakeNext, Defer, Ack, XAck, Delete
<1>7. SweepClaim(w)
  BY <1>1, <1>2, <1>4, <1>5, <1>6
  DEF Sweep, BeginSweep, SweepNext, Release, Attempts, GiveUp, Record, ReapScan, RemoveOne,
      DelConsumer, RemoveDone
<1>8. PICK n \in Msg : /\ MayBeStale(n) /\ XClaim(w, n)
                       /\ cur' = [cur EXCEPT ![w] = n]
                       /\ pc' = [pc EXCEPT ![w] = IF CapReached(n) THEN "attempts" ELSE "release"]
  BY <1>7 DEF SweepClaim
<1>9. n = m BY <1>8 DEF XClaim
<1> QED BY <1>8, <1>9 DEF XClaim, LocalTypeOK, Actor

(* Who executes a task goes on, ends it, or dies and leaves its message.   *)
LEMMA ExecutingLeaves ==
    ASSUME NoStranding, TypeInv, CustodyInv, Next, NEW a \in Actor, NEW t \in Task,
           Executing(a), job[a] = t, status'[t] = "RUNNING", t \notin partial'
    PROVE  RunHeld(t)'
<1> USE DEF TypeInv, TypeOK, LocalTypeOK, StoreTypeOK
<1>0. pc[a] \in {"start", "run"} BY DEF Executing
<1>1. CASE pc'[a] = pc[a] /\ cur'[a] = cur[a] /\ job'[a] = job[a]
  BY <1>0, <1>1 DEF RunHeld, Executing
<1>2. CASE ~(pc'[a] = pc[a] /\ cur'[a] = cur[a] /\ job'[a] = job[a])
  <2>1. Own(a) BY <1>2, HandMoved
  <2>2. CASE Crash(a)
    <3>1. a \in Worker BY <2>2 DEF Crash, NoStranding, Actor
    <3>2. PICK m \in Msg : m = cur[a] /\ place[m] = "pending" /\ owner[m] = a /\ entry[m] = t
      BY <1>0, <3>1 DEF CustodyInv, CustodyOf, InHand, HandSteps, RunSteps
    <3>3. pc'[a] = "down" /\ UNCHANGED streamVars BY <2>2, <3>1 DEF Crash, Leave
    <3>4. m \in LiveMessages(t)' /\ Orphan(m)'
      BY <3>1, <3>2, <3>3 DEF LiveMessages, Live, Orphan, streamVars
    <3> QED BY <3>4 DEF RunHeld
  <2>3. ~Fault(a) BY <1>0 DEF Fault, NoStranding
  <2>4. CASE Run(a)
    <3>1. Start(a) \/ SetupFails(a) \/ Finish(a)
      BY <1>0, <2>4 DEF Run, Call, Claim, ReportSuccess, ReportFailure, Actor
    <3>2. ~\E s : s # "RUNNING" /\ WriteStatus(t, s) BY DEF WriteStatus
    <3>3. Start(a) /\ Go(a, "run")
      BY <1>0, <3>1, <3>2 DEF Start, SetupFails, Finish, hashVars, Exists
    <3> QED BY <3>3 DEF Go, RunHeld, Executing
  <2>5. ASSUME a \in Worker PROVE ~Receive(a) /\ ~Sweep(a) /\ ~Exit(a)
    BY <1>0
    DEF Exit, Receive, BeginReceive, PromoteOne, PromoteDone, ReadHistory, ReadNew, WaitRead,
        WaitOver, TakeDone, TakeEarly, TakeReady, TakeNext, Defer, Ack, Delete, Sweep,
        BeginSweep, SweepClaim, SweepNext, Release, Attempts, GiveUp, Record, ReapScan,
        RemoveOne, RemoveDone
  <2> QED BY <2>1, <2>2, <2>3, <2>4, <2>5 DEF Own
<1> QED BY <1>1, <1>2

(* What a dead worker left is claimed by a sweep, which hands it back.     *)
LEMMA OrphanLeaves ==
    ASSUME NoStranding, TypeInv, CustodyInv, Next, NEW t \in Task, NEW m \in LiveMessages(t),
           Orphan(m), status[t] = "RUNNING", t \notin partial,
           status'[t] = "RUNNING", t \notin partial'
    PROVE  m \in LiveMessages(t)' /\ Orphan(m)'
<1> USE DEF TypeInv, TypeOK, LocalTypeOK, StoreTypeOK
<1>1. /\ m \in Msg /\ entry[m] = t /\ place[m] = "pending" /\ Live(m)
      /\ Full(t)
  BY DEF LiveMessages, Orphan, Live, Full, Exists
<1>2. PICK v \in Worker :
         owner[m] = v /\ (pc[v] = "down" \/ (pc[v] \in RecoverySteps /\ cur[v] = m))
  BY DEF Orphan
<1>3. v \in Actor BY DEF Actor
<1>4. ~\E w \in Worker : pc[w] = "ack" /\ cur[w] = m
  BY <1>1, <1>2 DEF CustodyInv, CustodyOf, InHand, HandSteps, RecoverySteps
<1>5. place'[m] = "pending" BY <1>1, <1>4, OnlyAckDrops
<1>6. Live(m)' /\ entry'[m] = t BY <1>1, <1>4, LiveStays
<1>7. m \in LiveMessages(t)' BY <1>1, <1>6 DEF LiveMessages
<1>8. CASE owner'[m] # owner[m]
  <2>1. PICK w \in Worker : owner'[m] = w /\ cur'[w] = m /\ pc'[w] \in {"release", "attempts"}
    BY <1>1, <1>5, <1>8, OwnerMoves
  <2> QED BY <1>5, <1>7, <2>1 DEF Orphan, RecoverySteps
<1>9. CASE owner'[m] = owner[m]
  <2>1. CASE pc'[v] = pc[v] /\ cur'[v] = cur[v] /\ job'[v] = job[v]
    BY <1>2, <1>5, <1>7, <1>9, <2>1 DEF Orphan
  <2>2. CASE Own(v)
    <3>1. pc[v] \in RecoverySteps /\ cur[v] = m
      BY <1>2, <2>2
      DEF Own, Run, Call, Claim, Start, SetupFails, Finish, ReportSuccess, ReportFailure, Crash,
          Fault, Exit, Receive, BeginReceive, PromoteOne, PromoteDone, ReadHistory, ReadNew,
          WaitRead, WaitOver, TakeDone, TakeEarly, TakeReady, TakeNext, Defer, Ack, Delete,
          Sweep, BeginSweep, SweepClaim, SweepNext, Release, Attempts, GiveUp, Record, ReapScan,
          RemoveOne, RemoveDone
    <3>2. job[v] = t
      BY <1>1, <3>1 DEF CustodyInv, CustodyOf, InHand, HandSteps, RecoverySteps
    <3>3. CASE Crash(v)
      <4>1. pc'[v] = "down" BY <1>3, <3>3 DEF Crash, Leave
      <4> QED BY <1>2, <1>5, <1>7, <1>9, <4>1 DEF Orphan
    <3>4. ~Fault(v) BY <3>1 DEF Fault, NoStranding
    <3>5. CASE Attempts(v)
      <4>1. pc'[v] \in RecoverySteps /\ cur'[v] = m
        BY <1>3, <3>1, <3>5 DEF Attempts, Go, RecoverySteps
      <4> QED BY <1>2, <1>5, <1>7, <1>9, <4>1 DEF Orphan
    <3>6. ~Release(v)
      <4>1. MayMove(t, {"RUNNING"}) BY <1>1 DEF MayMove
      <4> QED BY <3>2, <4>1 DEF Release, HandBack
    <3>7. ~GiveUp(v)
      <4>1. MayGiveUp(t) BY <1>1 DEF MayMove, MayGiveUp
      <4> QED BY <3>2, <4>1 DEF GiveUp
    <3> QED
      BY <2>2, <3>1, <3>3, <3>4, <3>5, <3>6, <3>7
      DEF Own, Run, Call, Claim, Start, SetupFails, Finish, ReportSuccess, ReportFailure,
          Exit, Receive, BeginReceive, PromoteOne, PromoteDone, ReadHistory, ReadNew,
          WaitRead, WaitOver, TakeDone, TakeEarly, TakeReady, TakeNext, Defer, Ack, Delete,
          Sweep, BeginSweep, SweepClaim, SweepNext, Record, ReapScan, RemoveOne, RemoveDone,
          RecoverySteps, Actor
  <2> QED BY <1>3, <2>1, <2>2, HandMoved
<1> QED BY <1>8, <1>9

LEMMA RunKept ==
    ASSUME NoStranding, TypeInv, CustodyInv, HeldInv, Next, NEW t \in Task
    PROVE  RunHeld(t)'
<1> SUFFICES ASSUME status'[t] = "RUNNING", t \notin partial' PROVE RunHeld(t)'
  BY DEF RunHeld
<1>1. CASE status[t] = "RUNNING" /\ t \notin partial
  <2>1. CASE \E a \in Actor : job[a] = t /\ Executing(a) BY <2>1, ExecutingLeaves
  <2>2. CASE \E m \in LiveMessages(t) : Orphan(m)
    <3>1. \E m \in LiveMessages(t)' : Orphan(m)' BY <1>1, <2>2, OrphanLeaves
    <3> QED BY <3>1 DEF RunHeld
  <2> QED BY <1>1, <2>1, <2>2 DEF HeldInv, RunHeld
<1>2. CASE ~(status[t] = "RUNNING" /\ t \notin partial)
  <2>1. PICK a \in Actor : job[a] = t /\ Go(a, "start") BY <1>2, BecomesRunning
  <2>2. job'[a] = t /\ pc'[a] = "start"
    BY <2>1 DEF Go, TypeInv, TypeOK, LocalTypeOK
  <2> QED BY <2>2 DEF RunHeld, Executing
<1> QED BY <1>1, <1>2

LEMMA ResetKept ==
    ASSUME TypeInv, HeldInv, Next, NEW t \in Task, resetting'[t] = "write_only"
    PROVE  Bare(t)'
<1>1. CASE resetting[t] = "write_only" BY <1>1, BareStays DEF HeldInv
<1>2. CASE resetting[t] # "write_only"
  <2>1. \E u \in Task : ResetRead(u)
    BY <1>2
    DEF TypeInv, TypeOK, StoreTypeOK, Next, Client, EnqueueNow, EnqueueLater, ComesDue, Vanish,
        ResetWrite, Requeue,
        ResetDies, Exit, Crash, Fault, Run, Call, Claim, Start, SetupFails,
        Finish, ReportSuccess, ReportFailure, Receive, BeginReceive, PromoteOne, PromoteDone,
        ReadHistory, ReadNew, WaitRead, WaitOver, TakeDone, TakeEarly, TakeReady, TakeNext,
        Defer, Ack, Delete, Sweep, BeginSweep, SweepClaim, SweepNext, Release, Attempts,
        GiveUp, Record, ReapScan, RemoveOne, RemoveDone
  <2>2. t \in partial
    BY <1>2, <2>1 DEF ResetRead, TypeInv, TypeOK, StoreTypeOK
  <2> QED BY <2>1, <2>2 DEF Bare, ResetRead, hashVars
<1> QED BY <1>1, <1>2

LEMMA HeldInit == Init => HeldInv
BY DEF Init, HeldInv, ReadyHeld, RunHeld

LEMMA HeldStep ==
    ASSUME NoStranding, TypeInv, CustodyInv, HeldInv, [Next]_vars
    PROVE  HeldInv'
<1>1. CASE Next BY <1>1, ReadyKept, RunKept, ResetKept DEF HeldInv
<1>2. CASE UNCHANGED vars
  <2> USE <1>2 DEF vars, streamVars, hashVars, delayedVars, localVars
  <2>1. UNCHANGED <<status, partial, delayed, resetting, entry, place, owner, pc, cur, job>>
    OBVIOUS
  <2>2. \A m \in Msg : (Deliverable(m) => Deliverable(m)') /\ (Orphan(m) => Orphan(m)')
    BY <2>1 DEF Deliverable, Live, Spent, Orphan
  <2>3. \A t \in Task : LiveMessages(t)' = LiveMessages(t) BY <2>1 DEF LiveMessages, Live
  <2>4. \A t \in Task : ReadyHeld(t)' BY <2>1, <2>2, <2>3 DEF HeldInv, ReadyHeld, LiveMessages
  <2>5. \A t \in Task : RunHeld(t)'
    BY <2>1, <2>2, <2>3 DEF HeldInv, RunHeld, LiveMessages, Executing
  <2>6. \A t \in Task : (resetting[t] = "write_only" => Bare(t))'
    BY <2>1 DEF HeldInv, Bare
  <2> QED BY <2>4, <2>5, <2>6 DEF HeldInv
<1> QED BY <1>1, <1>2

(* No task is lost, whatever workers die and wherever, beside triggers,    *)
(* sweeps, resets, deletions and commands that fail, but for a reset cut   *)
(* off in the middle and the conditions of NoStranding.                    *)
THEOREM NoneIsStranded == ASSUME NoStranding PROVE Spec => []NothingStranded
<1>1. Init => TypeInv /\ CustodyInv /\ HeldInv BY TypeInit, CustodyInit, HeldInit
<1>2. Slow = {} BY DEF NoStranding
<1>3. TypeInv /\ CustodyInv /\ HeldInv /\ [Next]_vars => (TypeInv /\ CustodyInv /\ HeldInv)'
  BY <1>2, TypeStep, CustodyStep, HeldStep
<1>4. HeldInv => NothingStranded
  BY DEF HeldInv, ReadyHeld, RunHeld, NothingStranded, LiveMessages
<1> QED BY <1>1, <1>3, <1>4, PTL DEF Spec

============================================================================
