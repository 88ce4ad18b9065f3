---------------------------- MODULE RedisStream ----------------------------
(***************************************************************************)
(* The Redis streams of one backend and their consumer group, as far as    *)
(* django_tasks_redis uses them: XADD, XREADGROUP (history and new), XACK, *)
(* XDEL, XCLAIM and XGROUP DELCONSUMER.  Every operator below is one Redis *)
(* command and so one atomic change.  Redis is external to the repository: *)
(* the commands are modelled from the calls in brokers/streams.py.         *)
(*                                                                         *)
(* A message keeps its id for good, so ids are the numbers 1..MaxMsg in    *)
(* the order of XADD.  The stream of a message is that of its task: queue  *)
(* and priority of a task never change.                                    *)
(***************************************************************************)
EXTENDS Naturals, FiniteSets

CONSTANTS
    Task,           \* task ids
    Worker,         \* consumer names: a worker's id, new for every start
    NoTask,         \* the entry of a message id not used yet
    NoWorker,       \* the owner of a message nobody holds
    NumStreams,     \* number of streams, numbered in the order they are served
    StreamOf,       \* the stream a task belongs to
    MaxMsg,         \* bound: messages ever added
    DeliveryCap     \* bound: the delivery counter saturates here

Stream == 1 .. NumStreams
Msg == 1 .. MaxMsg

ASSUME StreamAssumption ==
    /\ NumStreams \in Nat \ {0}
    /\ StreamOf \in [Task -> Stream]
    /\ MaxMsg \in Nat
    /\ DeliveryCap \in Nat
    /\ NoTask \notin Task
    /\ NoWorker \notin Worker

VARIABLES
    entry,          \* the task a message names, NoTask before XADD
    place,          \* where the message is, see Place
    owner,          \* the consumer a pending message belongs to
    deliveries      \* times_delivered of a pending message

streamVars == <<entry, place, owner, deliveries>>

(***************************************************************************)
(* "queued" is an entry the group has not delivered, "pending" one in a    *)
(* consumer's pending list, "behind" one that is acknowledged but still in *)
(* the stream, which the group never delivers again.                       *)
(***************************************************************************)
Place == {"free", "queued", "pending", "behind", "deleted"}

StreamTypeOK ==
    /\ entry \in [Msg -> Task \cup {NoTask}]
    /\ place \in [Msg -> Place]
    /\ owner \in [Msg -> Worker \cup {NoWorker}]
    /\ deliveries \in [Msg -> 0 .. DeliveryCap]

StreamInit ==
    /\ entry = [m \in Msg |-> NoTask]
    /\ place = [m \in Msg |-> "free"]
    /\ owner = [m \in Msg |-> NoWorker]
    /\ deliveries = [m \in Msg |-> 0]

----------------------------------------------------------------------------

(* A message the group still has to deliver, or has delivered and not seen *)
(* acknowledged.                                                           *)
Live(m) == place[m] \in {"queued", "pending"}

LiveMessages(t) == {m \in Msg : entry[m] = t /\ Live(m)}

In(m, s) == entry[m] \in Task /\ StreamOf[entry[m]] = s

Oldest(M) == {m \in M : \A n \in M : m <= n}

(* What XREADGROUP ... ">" COUNT 1 returns from a stream.                  *)
NextNew(s) == Oldest({m \in Msg : place[m] = "queued" /\ In(m, s)})

(* Mutant: nothing is served again.                                        *)
NoHistory(c, s) == {}

(* What XREADGROUP ... "0" COUNT 1 returns from a stream.                  *)
NextHeld(c, s) ==
    Oldest({m \in Msg : place[m] = "pending" /\ owner[m] = c /\ In(m, s)})

Holds(c, s) ==
    \E m \in Msg : place[m] = "pending" /\ owner[m] = c /\ In(m, s)

Bump(n) == IF n < DeliveryCap THEN n + 1 ELSE n

----------------------------------------------------------------------------

XAdd(t) ==
    \E m \in Msg :
        /\ place[m] = "free"
        /\ \A n \in Msg : place[n] = "free" => m <= n
        /\ entry' = [entry EXCEPT ![m] = t]
        /\ place' = [place EXCEPT ![m] = "queued"]
        /\ UNCHANGED <<owner, deliveries>>

(* A read counts a delivery of every message it returns, a history read    *)
(* too, and starts the idle clock of the message again.                    *)
Deliver(c, M) ==
    /\ place' = [m \in Msg |-> IF m \in M THEN "pending" ELSE place[m]]
    /\ owner' = [m \in Msg |-> IF m \in M THEN c ELSE owner[m]]
    /\ deliveries' =
         [m \in Msg |-> IF m \in M THEN Bump(deliveries[m]) ELSE deliveries[m]]
    /\ UNCHANGED entry

XClaim(c, m) ==
    /\ place[m] = "pending"
    /\ owner' = [owner EXCEPT ![m] = c]
    /\ deliveries' = [deliveries EXCEPT ![m] = Bump(@)]
    /\ UNCHANGED <<entry, place>>

(* The pending entries of a set of messages are dropped, whoever owns      *)
(* them; the entries themselves stay in the stream.                        *)
DropPending(M) ==
    LET dropped == {m \in M : place[m] = "pending"} IN
    /\ place' = [m \in Msg |-> IF m \in dropped THEN "behind" ELSE place[m]]
    /\ owner' = [m \in Msg |-> IF m \in dropped THEN NoWorker ELSE owner[m]]
    /\ deliveries' = [m \in Msg |-> IF m \in dropped THEN 0 ELSE deliveries[m]]
    /\ UNCHANGED entry

XAck(m) == DropPending({m})

(* Only ever called after an XACK of the same id.                          *)
XDel(m) ==
    /\ place' = [place EXCEPT ![m] = "deleted"]
    /\ UNCHANGED <<entry, owner, deliveries>>

(* Deleting a consumer deletes its pending entries with it.                *)
DelConsumer(c, S) ==
    DropPending({m \in Msg : owner[m] = c /\ \E s \in S : In(m, s)})

============================================================================
