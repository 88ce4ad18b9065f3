----------------------------- MODULE StaleSweep -----------------------------
(***************************************************************************)
(* The walk of claim_stale_messages over the pending lists: stream by      *)
(* stream, page by page, entry by entry, up to a number of claims, while   *)
(* messages are delivered, acknowledged, grow stale and are claimed by     *)
(* other sweeps.  What becomes of a claimed message is in TaskQueue; here  *)
(* it is abandoned or counted.                                             *)
(***************************************************************************)
EXTENDS Integers, FiniteSets

CONSTANTS
    Sweeper,
    Streams,        \* how many streams stream_keys() lists
    PageSize,       \* PENDING_PAGE_SIZE
    Limit,          \* MAX_CLAIMS_PER_SWEEP
    MaxId,          \* bound: deliveries on each stream
    MaxDelivered,   \* bound: deliveries in all
    MaxSweeps       \* bound: sweeps of each worker

ASSUME SweepAssumption ==
    /\ Streams \in Nat \ {0} /\ PageSize \in Nat \ {0} /\ Limit \in Nat \ {0}
    /\ MaxId \in Nat /\ MaxDelivered \in Nat /\ MaxSweeps \in Nat

Stream == 1 .. Streams
Id == 1 .. MaxId

VARIABLES
    last,           \* the last id delivered on each stream
    pending,        \* the pending entries: <<stream, id>>
    stale,          \* those idle for the claim timeout
    at,             \* where each sweep stands
    stream,         \* the stream it is at
    start,          \* the first id of the next page
    page,           \* the entries of the page it has not looked at
    end,            \* the last id of the page, or 0 when it was not full
    claims,         \* messages it has claimed and not abandoned
    sweeps,         \* sweeps begun
    owed            \* what was stale when it began, untouched since

walk == <<at, stream, start, page, end, claims, sweeps>>
vars == <<last, pending, stale, walk, owed>>

Places == {"idle", "stream", "page", "entry", "claimed", "remove"}
Entry == Stream \X Id

TypeOK ==
    /\ last \in [Stream -> 0 .. MaxId]
    /\ pending \subseteq Entry /\ stale \subseteq pending
    /\ at \in [Sweeper -> Places]
    /\ stream \in [Sweeper -> Stream]
    /\ start \in [Sweeper -> 0 .. MaxId + 1]
    /\ page \in [Sweeper -> SUBSET [id : Id, stale : BOOLEAN]]
    /\ end \in [Sweeper -> 0 .. MaxId]
    /\ claims \in [Sweeper -> 0 .. Limit]
    /\ sweeps \in [Sweeper -> 0 .. MaxSweeps]
    /\ owed \in [Sweeper -> SUBSET Entry]

Init ==
    /\ last = [q \in Stream |-> 0]
    /\ pending = {} /\ stale = {}
    /\ at = [s \in Sweeper |-> "idle"]
    /\ stream = [s \in Sweeper |-> 1]
    /\ start = [s \in Sweeper |-> 0]
    /\ page = [s \in Sweeper |-> {}]
    /\ end = [s \in Sweeper |-> 0]
    /\ claims = [s \in Sweeper |-> 0]
    /\ sweeps = [s \in Sweeper |-> 0]
    /\ owed = [s \in Sweeper |-> {}]

(* Whatever touches an entry settles what the sweeps owed it.              *)
Settle(e) == owed' = [s \in Sweeper |-> owed[s] \ {e}]

-----------------------------------------------------------------------------
(* The consumers                                                           *)

Delivered == {e \in Entry : e[2] <= last[e[1]]}

Deliver(q) ==
    /\ last[q] < MaxId /\ Cardinality(Delivered) < MaxDelivered
    /\ last' = [last EXCEPT ![q] = @ + 1]
    /\ pending' = pending \cup {<<q, last[q] + 1>>}
    /\ UNCHANGED <<stale, walk, owed>>

Acknowledge(e) ==
    /\ pending' = pending \ {e} /\ stale' = stale \ {e}
    /\ Settle(e)
    /\ UNCHANGED <<last, walk>>

(* The claim timeout passes.                                               *)
GrowStale(e) ==
    /\ e \notin stale /\ stale' = stale \cup {e}
    /\ UNCHANGED <<last, pending, walk, owed>>

-----------------------------------------------------------------------------
(* A sweep                                                                 *)

Begin(s) ==
    /\ at[s] = "idle" /\ at' = [at EXCEPT ![s] = "stream"]
    /\ sweeps[s] < MaxSweeps /\ sweeps' = [sweeps EXCEPT ![s] = @ + 1]
    /\ stream' = [stream EXCEPT ![s] = 1]
    /\ claims' = [claims EXCEPT ![s] = 0]
    /\ owed' = [owed EXCEPT ![s] = stale]
    /\ UNCHANGED <<last, pending, stale, start, page, end>>

(* The walk of one stream is over: the next one, or the consumers.         *)
LeaveStream(s) ==
    IF stream[s] < Streams
    THEN /\ at' = [at EXCEPT ![s] = "stream"]
         /\ stream' = [stream EXCEPT ![s] = @ + 1]
    ELSE /\ at' = [at EXCEPT ![s] = "remove"]
         /\ UNCHANGED stream

(* XPENDING without a range: a stream that has nothing pending is skipped. *)
OpenStream(s) ==
    /\ at[s] = "stream"
    /\ IF \E e \in pending : e[1] = stream[s]
       THEN /\ at' = [at EXCEPT ![s] = "page"]
            /\ start' = [start EXCEPT ![s] = 0]
            /\ UNCHANGED stream
       ELSE LeaveStream(s) /\ UNCHANGED start
    /\ UNCHANGED <<last, pending, stale, page, end, claims, sweeps, owed>>

(* The ids XPENDING lists from an id on.                                   *)
From(q, id) == {i \in Id : i >= id /\ <<q, i>> \in pending}

(* The smallest ids, PageSize of them if there are as many.                *)
IsPage(ids, all) ==
    /\ ids \subseteq all
    /\ \A i \in ids, j \in all \ ids : i < j
    /\ Cardinality(ids) = PageSize \/ (Cardinality(ids) < PageSize /\ ids = all)

(* A page is full and names an id to go on from, or it is the last.        *)
EndOf(ids, id) ==
    IF Cardinality(ids) < PageSize THEN id = 0
    ELSE id \in ids /\ \A i \in ids : i <= id

ReadPage(s) ==
    /\ at[s] = "page"
    /\ \E ids \in SUBSET From(stream[s], start[s]), id \in 0 .. MaxId :
          /\ IsPage(ids, From(stream[s], start[s])) /\ EndOf(ids, id)
          /\ page' = [page EXCEPT ![s] =
                {[id |-> i, stale |-> <<stream[s], i>> \in stale] : i \in ids}]
          /\ end' = [end EXCEPT ![s] = id]
    /\ at' = [at EXCEPT ![s] = "entry"]
    /\ UNCHANGED <<last, pending, stale, stream, start, claims, sweeps, owed>>

(* The next entry of the page, in the order of their ids.                  *)
IsNext(s, x) == x \in page[s] /\ \A y \in page[s] : x.id <= y.id

Skip(s) ==
    /\ at[s] = "entry"
    /\ \E x \in page[s] :
          /\ IsNext(s, x) /\ ~x.stale
          /\ page' = [page EXCEPT ![s] = @ \ {x}]
    /\ UNCHANGED <<last, pending, stale, at, stream, start, end, claims, sweeps,
                   owed>>

(* XCLAIM with a minimum idle time: it answers nothing for an entry that   *)
(* was acknowledged or touched since the page was read.                    *)
Claim(s) ==
    /\ at[s] = "entry"
    /\ \E x \in page[s] :
          /\ IsNext(s, x) /\ x.stale
          /\ page' = [page EXCEPT ![s] = @ \ {x}]
          /\ LET e == <<stream[s], x.id>> IN
             IF e \in stale
             THEN /\ stale' = stale \ {e}
                  /\ Settle(e)
                  /\ at' = [at EXCEPT ![s] = "claimed"]
             ELSE UNCHANGED <<stale, owed, at>>
    /\ UNCHANGED <<last, pending, stream, start, end, claims, sweeps>>

(* _abandon acknowledged the claimed message: it does not count.           *)
Abandon(s) ==
    /\ at[s] = "claimed" /\ at' = [at EXCEPT ![s] = "entry"]
    /\ UNCHANGED <<last, pending, stale, stream, start, page, end, claims,
                   sweeps, owed>>

Full(s) == claims[s] + 1 >= Limit

(* The message is counted and its task handed back; at the limit the sweep *)
(* ends there, and removes no consumer.                                    *)
Count(s) ==
    /\ at[s] = "claimed"
    /\ claims' = [claims EXCEPT ![s] = @ + 1]
    /\ at' = [at EXCEPT ![s] = IF Full(s) THEN "idle" ELSE "entry"]
    /\ UNCHANGED <<last, pending, stale, stream, start, page, end, sweeps, owed>>

(* Mutant: the next page begins with the last entry of this one. *)
NextStartSame(id) == id
(* Mutant: it begins one entry late. *)
NextStartLate(id) == id + 2
NextStart(id) == id + 1

TurnPage(s) ==
    /\ at[s] = "entry" /\ page[s] = {}
    /\ IF end[s] > 0
       THEN /\ at' = [at EXCEPT ![s] = "page"]
            /\ start' = [start EXCEPT ![s] = NextStart(end[s])]
            /\ UNCHANGED stream
       ELSE LeaveStream(s) /\ UNCHANGED start
    /\ UNCHANGED <<last, pending, stale, page, end, claims, sweeps, owed>>

(* _remove_idle_consumers, in TaskQueue.                                   *)
RemoveConsumers(s) ==
    /\ at[s] = "remove" /\ at' = [at EXCEPT ![s] = "idle"]
    /\ UNCHANGED <<last, pending, stale, stream, start, page, end, claims,
                   sweeps, owed>>

(* A Redis command of the sweep fails, or its worker dies.                 *)
Fail(s) ==
    /\ at[s] # "idle" /\ at' = [at EXCEPT ![s] = "idle"]
    /\ UNCHANGED <<last, pending, stale, stream, start, page, end, claims,
                   sweeps, owed>>

Step(s) ==
    \/ OpenStream(s) \/ ReadPage(s) \/ Skip(s) \/ Claim(s) \/ Abandon(s)
    \/ Count(s) \/ TurnPage(s) \/ RemoveConsumers(s)

Next ==
    \/ \E q \in Stream : Deliver(q)
    \/ \E e \in pending : Acknowledge(e) \/ GrowStale(e)
    \/ \E s \in Sweeper : Begin(s) \/ Step(s) \/ Fail(s)

Spec == Init /\ [][Next]_vars
FairSpec == Spec /\ \A s \in Sweeper : WF_vars(Step(s))

-----------------------------------------------------------------------------
(* Properties                                                              *)

(* A sweep that gets as far as removing consumers has reclaimed every      *)
(* message that was stale when it began, unless another sweep or the       *)
(* owner touched it: a dead consumer that is removed holds none of them    *)
(* (claim_stale_messages returns before the removal otherwise).            *)
NothingLeftBehind == \A s \in Sweeper : at[s] = "remove" => owed[s] = {}

(* A sweep ends, whatever is acknowledged or claimed under it, once no     *)
(* more messages are delivered.                                            *)
SweepEnds == \A s \in Sweeper : (at[s] # "idle") ~> (at[s] = "idle")
=============================================================================
