-------------------------- MODULE StaleSweep_proofs --------------------------
(***************************************************************************)
(* For any number of sweeps, streams and messages, and any page size: a    *)
(* sweep that gets as far as removing consumers has left nothing behind.   *)
(***************************************************************************)
EXTENDS StaleSweep, TLAPS

Walking == {"stream", "page", "entry", "claimed"}

(* What a sweep is owed lies ahead of it: on a later stream, from the      *)
(* start of the next page on, among the entries of the page that were      *)
(* stale when it was read, or behind the end of a full page.               *)
Ahead(s) ==
    /\ at[s] \in Walking => \A e \in owed[s] : e[1] >= stream[s]
    /\ at[s] = "page" => \A e \in owed[s] : e[1] = stream[s] => e[2] >= start[s]
    /\ at[s] \in {"entry", "claimed"} =>
          \A e \in owed[s] : e[1] = stream[s] =>
              \/ [id |-> e[2], stale |-> TRUE] \in page[s]
              \/ end[s] > 0 /\ e[2] > end[s]
    /\ at[s] = "remove" => owed[s] = {}

WalkOK(s) ==
    /\ owed[s] \subseteq stale
    /\ at[s] # "idle" => claims[s] < Limit
    /\ Ahead(s)

Inv == TypeOK /\ \A s \in Sweeper : WalkOK(s)

USE SweepAssumption

LEMMA InitInv == Init => Inv
BY DEF Init, Inv, TypeOK, WalkOK, Ahead, Walking, Places, Stream, Entry, Id

LEMMA InvType == Inv => TypeOK
BY DEF Inv

(* Entries come and go: a sweep is owed no more than before, and what it   *)
(* is owed stays stale.                                                    *)
LEMMA ConsumerKeeps ==
    ASSUME Inv, UNCHANGED walk,
           \A s \in Sweeper : owed'[s] \subseteq owed[s] /\ owed'[s] \subseteq stale'
    PROVE  \A s \in Sweeper : WalkOK(s)'
<1>1. TAKE s \in Sweeper
<1>2. WalkOK(s) /\ owed'[s] \subseteq owed[s] /\ owed'[s] \subseteq stale' BY DEF Inv
<1>3. UNCHANGED <<at, stream, start, page, end, claims>> BY DEF walk
<1>4. Ahead(s)' BY <1>2, <1>3 DEF WalkOK, Ahead
<1> QED BY <1>2, <1>3, <1>4 DEF WalkOK

LEMMA DeliverInv == ASSUME Inv, NEW q \in Stream, Deliver(q) PROVE Inv'
<1>1. TypeOK'
  <2>1. last[q] \in 0 .. MaxId /\ last[q] + 1 \in 1 .. MaxId
    BY DEF Inv, TypeOK, Deliver
  <2>2. <<q, last[q] + 1>> \in Entry BY <2>1 DEF Entry, Id
  <2>3. last' \in [Stream -> 0 .. MaxId] BY <2>1 DEF Inv, TypeOK, Deliver
  <2> QED BY <2>2, <2>3 DEF Inv, TypeOK, Deliver, walk
<1>2. \A s \in Sweeper : WalkOK(s)'
  BY ConsumerKeeps DEF Deliver, Inv, WalkOK
<1> QED BY <1>1, <1>2 DEF Inv

LEMMA AcknowledgeInv == ASSUME Inv, NEW e \in pending, Acknowledge(e) PROVE Inv'
<1>1. TypeOK' BY DEF Inv, TypeOK, Acknowledge, Settle, walk
<1>2. \A s \in Sweeper : owed'[s] = owed[s] \ {e} BY DEF Acknowledge, Settle
<1>3. \A s \in Sweeper : WalkOK(s)'
  BY <1>2, ConsumerKeeps DEF Acknowledge, Inv, WalkOK
<1> QED BY <1>1, <1>3 DEF Inv

LEMMA GrowStaleInv == ASSUME Inv, NEW e \in pending, GrowStale(e) PROVE Inv'
<1>1. TypeOK' BY DEF Inv, TypeOK, GrowStale, walk
<1>2. \A s \in Sweeper : WalkOK(s)'
  BY ConsumerKeeps DEF GrowStale, Inv, WalkOK
<1> QED BY <1>1, <1>2 DEF Inv

-----------------------------------------------------------------------------

(* A step of one sweep that touches no entry leaves the others alone.      *)
LEMMA OthersKeep ==
    ASSUME Inv, NEW s \in Sweeper, UNCHANGED stale,
           \A r \in Sweeper \ {s} :
               /\ at'[r] = at[r] /\ stream'[r] = stream[r] /\ start'[r] = start[r]
               /\ page'[r] = page[r] /\ end'[r] = end[r] /\ claims'[r] = claims[r]
               /\ owed'[r] = owed[r]
    PROVE  \A r \in Sweeper \ {s} : WalkOK(r)'
BY DEF Inv, WalkOK, Ahead

(* From the end of one stream to the next, nothing owed lies behind.       *)
LEMMA LeaveStreamKeeps ==
    ASSUME TypeOK, NEW s \in Sweeper, LeaveStream(s), UNCHANGED owed,
           \A e \in owed[s] : e[1] > stream[s]
    PROVE  /\ at' = [at EXCEPT ![s] = at'[s]] /\ at'[s] \in Places \ {"idle"}
           /\ stream' = [stream EXCEPT ![s] = stream'[s]] /\ stream'[s] \in Stream
           /\ Ahead(s)'
<1>1. \A e \in owed[s] : e[1] \in Stream BY DEF TypeOK, Entry
<1>2. stream[s] \in Stream /\ stream \in [Sweeper -> Stream]
      /\ at \in [Sweeper -> Places] BY DEF TypeOK
<1>3. CASE stream[s] < Streams
  <2>1. at'[s] = "stream" /\ stream'[s] = stream[s] + 1
    BY <1>2, <1>3 DEF LeaveStream
  <2>2. Ahead(s)' BY <1>1, <1>2, <2>1 DEF Ahead, Walking, Stream
  <2> QED BY <1>2, <1>3, <2>1, <2>2 DEF LeaveStream, Stream, Places
<1>4. CASE ~(stream[s] < Streams)
  <2>1. at'[s] = "remove" /\ stream' = stream BY <1>2, <1>4 DEF LeaveStream
  <2>2. owed[s] = {} BY <1>1, <1>2, <1>4 DEF Stream
  <2>3. Ahead(s)' BY <2>1, <2>2 DEF Ahead, Walking
  <2> QED BY <1>2, <1>4, <2>1, <2>3 DEF LeaveStream, Places
<1> QED BY <1>3, <1>4

LEMMA BeginInv == ASSUME Inv, NEW s \in Sweeper, Begin(s) PROVE Inv'
<1>1. TypeOK' BY DEF Inv, TypeOK, Begin, Places, Stream
<1>2. WalkOK(s)'
  BY DEF Inv, TypeOK, Begin, WalkOK, Ahead, Walking, Stream, Entry
<1>3. \A r \in Sweeper \ {s} : WalkOK(r)'
  BY OthersKeep DEF Begin, Inv, TypeOK
<1> QED BY <1>1, <1>2, <1>3 DEF Inv

LEMMA OpenStreamInv == ASSUME Inv, NEW s \in Sweeper, OpenStream(s) PROVE Inv'
<1> USE DEF Inv
<1>1. CASE \E e \in pending : e[1] = stream[s]
  <2>1. TypeOK' BY <1>1 DEF TypeOK, OpenStream, Places
  <2>2. WalkOK(s)'
    BY <1>1 DEF TypeOK, OpenStream, WalkOK, Ahead, Walking, Entry, Id
  <2>3. \A r \in Sweeper \ {s} : WalkOK(r)'
    BY <1>1, OthersKeep DEF OpenStream, TypeOK
  <2> QED BY <2>1, <2>2, <2>3
<1>2. CASE ~\E e \in pending : e[1] = stream[s]
  <2>1. LeaveStream(s) /\ UNCHANGED <<last, pending, stale, start, page, end, claims, sweeps, owed>>
    BY <1>2 DEF OpenStream
  <2>2. \A e \in owed[s] : e[1] > stream[s]
    BY <1>2 DEF OpenStream, TypeOK, WalkOK, Ahead, Walking, Entry, Stream
  <2>3. /\ at' = [at EXCEPT ![s] = at'[s]] /\ at'[s] \in Places \ {"idle"}
        /\ stream' = [stream EXCEPT ![s] = stream'[s]] /\ stream'[s] \in Stream
        /\ Ahead(s)'
    BY <2>1, <2>2, LeaveStreamKeeps
  <2>4. TypeOK' BY <2>1, <2>3 DEF TypeOK
  <2>5. WalkOK(s)' BY <2>1, <2>3 DEF WalkOK, OpenStream
  <2>6. \A r \in Sweeper \ {s} : WalkOK(r)'
    BY <2>1, <2>3, OthersKeep DEF TypeOK
  <2> QED BY <2>4, <2>5, <2>6
<1> QED BY <1>1, <1>2

(* What is pending from the start of a page on is on it, or behind its end.*)
LEMMA PageCovers ==
    ASSUME NEW ids, NEW all \in SUBSET Id, NEW id \in 0 .. MaxId, NEW i \in all,
           IsPage(ids, all), EndOf(ids, id), i \notin ids
    PROVE  id > 0 /\ i > id
<1>1. Cardinality(ids) = PageSize BY DEF IsPage
<1>2. id \in ids BY <1>1 DEF EndOf
<1>3. ids \subseteq Id BY DEF IsPage
<1> QED BY <1>2, <1>3 DEF IsPage, Id

LEMMA ReadPageInv == ASSUME Inv, NEW s \in Sweeper, ReadPage(s) PROVE Inv'
<1> USE DEF Inv
<1> DEFINE all == From(stream[s], start[s])
<1>1. PICK ids \in SUBSET all, id \in 0 .. MaxId :
          /\ IsPage(ids, all) /\ EndOf(ids, id)
          /\ page' = [page EXCEPT ![s] =
                {[id |-> i, stale |-> <<stream[s], i>> \in stale] : i \in ids}]
          /\ end' = [end EXCEPT ![s] = id]
  BY DEF ReadPage
<1>2. all \subseteq Id BY DEF From
<1> DEFINE entries == {[id |-> i, stale |-> <<stream[s], i>> \in stale] : i \in ids}
<1>3. entries \subseteq [id : Id, stale : BOOLEAN]
  <2>1. ids \subseteq Id BY <1>1, <1>2
  <2> SUFFICES ASSUME NEW i \in ids
               PROVE  [id |-> i, stale |-> <<stream[s], i>> \in stale]
                          \in [id : Id, stale : BOOLEAN]
    BY Zenon
  <2> DEFINE b == <<stream[s], i>> \in stale
  <2>2. i \in Id BY <2>1
  <2>3. b \in BOOLEAN OBVIOUS
  <2> HIDE DEF b
  <2>4. [id |-> i, stale |-> b] \in [id : Id, stale : BOOLEAN] BY <2>2, <2>3
  <2> QED BY <2>4, Zenon DEF b
<1>4. TypeOK' BY <1>1, <1>3 DEF TypeOK, ReadPage, Places
<1>5. page'[s] = entries /\ end'[s] = id /\ at'[s] = "entry" BY <1>1 DEF TypeOK, ReadPage
<1>6. ASSUME NEW e \in owed[s], e[1] = stream[s]
      PROVE  [id |-> e[2], stale |-> TRUE] \in entries \/ (id > 0 /\ e[2] > id)
  <2>1. e \in stale /\ e \in pending /\ e = <<stream[s], e[2]>> /\ e[2] \in Id
    BY <1>6 DEF WalkOK, TypeOK, Entry
  <2>2. e[2] >= start[s] BY <1>6 DEF WalkOK, Ahead, ReadPage
  <2>3. e[2] \in all BY <2>1, <2>2 DEF From
  <2>4. CASE e[2] \in ids BY <2>1, <2>4
  <2>5. CASE e[2] \notin ids
    <3> HIDE DEF all
    <3> QED BY <1>1, <1>2, <2>3, <2>5, PageCovers
  <2> QED BY <2>4, <2>5
<1>7. WalkOK(s)'
  <2> HIDE DEF entries
  <2>1. Ahead(s)' BY <1>5, <1>6 DEF WalkOK, Ahead, Walking, ReadPage
  <2> QED BY <2>1 DEF WalkOK, ReadPage
<1>8. \A r \in Sweeper \ {s} : WalkOK(r)'
  BY <1>1, OthersKeep DEF ReadPage, TypeOK
<1> QED BY <1>4, <1>7, <1>8

LEMMA SkipInv == ASSUME Inv, NEW s \in Sweeper, Skip(s) PROVE Inv'
<1> USE DEF Inv
<1>1. PICK x \in page[s] : ~x.stale /\ page' = [page EXCEPT ![s] = @ \ {x}]
  BY DEF Skip
<1>2. TypeOK' BY <1>1 DEF TypeOK, Skip
<1>3. WalkOK(s)' BY <1>1 DEF WalkOK, Ahead, Walking, Skip, TypeOK
<1>4. \A r \in Sweeper \ {s} : WalkOK(r)' BY <1>1, OthersKeep DEF Skip, TypeOK
<1> QED BY <1>2, <1>3, <1>4

(* An XCLAIM settles the entry for every sweep, or finds it settled.       *)
LEMMA ClaimInv == ASSUME Inv, NEW s \in Sweeper, Claim(s) PROVE Inv'
<1> USE DEF Inv
<1>1. PICK x \in page[s] :
          /\ page' = [page EXCEPT ![s] = @ \ {x}]
          /\ LET e == <<stream[s], x.id>> IN
             IF e \in stale
             THEN /\ stale' = stale \ {e}
                  /\ Settle(e)
                  /\ at' = [at EXCEPT ![s] = "claimed"]
             ELSE UNCHANGED <<stale, owed, at>>
  BY DEF Claim
<1> DEFINE e == <<stream[s], x.id>>
<1>2. \A r \in Sweeper : owed'[r] = owed[r] \ {e}
  BY <1>1 DEF Settle, WalkOK
<1>3. stale' = stale \ {e} BY <1>1
<1>4. /\ \A r \in Sweeper \ {s} : at'[r] = at[r] /\ page'[r] = page[r]
      /\ at[s] = "entry" /\ at'[s] \in {"entry", "claimed"}
      /\ page'[s] = page[s] \ {x}
  BY <1>1 DEF Claim, TypeOK
<1>5. UNCHANGED <<last, pending, stream, start, end, claims, sweeps>> BY DEF Claim
<1>6. TypeOK'
  <2>1. at' \in [Sweeper -> Places] BY <1>1 DEF TypeOK, Places
  <2>2. page' \in [Sweeper -> SUBSET [id : Id, stale : BOOLEAN]] BY <1>1 DEF TypeOK
  <2>3. owed' \in [Sweeper -> SUBSET Entry] BY <1>1 DEF TypeOK, Settle
  <2> QED BY <1>3, <1>5, <2>1, <2>2, <2>3 DEF TypeOK
<1>7. ASSUME NEW f \in owed'[s], f[1] = stream[s]
      PROVE  [id |-> f[2], stale |-> TRUE] \in page'[s] \/ (end[s] > 0 /\ f[2] > end[s])
  <2>1. f \in owed[s] /\ f # e /\ f \in Entry BY <1>2 DEF TypeOK
  <2>2. f[2] # x.id BY <1>7, <2>1 DEF Entry
  <2> QED BY <1>4, <1>7, <2>1, <2>2 DEF WalkOK, Ahead
<1>8. WalkOK(s)'
  <2>1. Ahead(s)' BY <1>2, <1>4, <1>5, <1>7 DEF WalkOK, Ahead, Walking
  <2> QED BY <1>2, <1>3, <1>4, <1>5, <2>1 DEF WalkOK
<1>9. \A r \in Sweeper \ {s} : WalkOK(r)'
  BY <1>2, <1>3, <1>4, <1>5 DEF WalkOK, Ahead
<1> QED BY <1>6, <1>8, <1>9

LEMMA AbandonInv == ASSUME Inv, NEW s \in Sweeper, Abandon(s) PROVE Inv'
<1>1. TypeOK' BY DEF Inv, TypeOK, Abandon, Places
<1>2. \A r \in Sweeper : WalkOK(r)'
  BY DEF Inv, TypeOK, Abandon, WalkOK, Ahead, Walking
<1> QED BY <1>1, <1>2 DEF Inv

LEMMA CountInv == ASSUME Inv, NEW s \in Sweeper, Count(s) PROVE Inv'
<1>1. claims[s] < Limit /\ claims[s] \in 0 .. Limit BY DEF Inv, WalkOK, Count, TypeOK
<1>2. TypeOK' BY <1>1 DEF Inv, TypeOK, Count, Places
<1>3. WalkOK(s)'
  BY <1>1 DEF Inv, TypeOK, Count, Full, WalkOK, Ahead, Walking
<1>4. \A r \in Sweeper \ {s} : WalkOK(r)' BY OthersKeep DEF Inv, Count, TypeOK
<1> QED BY <1>2, <1>3, <1>4 DEF Inv

LEMMA TurnPageInv == ASSUME Inv, NEW s \in Sweeper, TurnPage(s) PROVE Inv'
<1> USE DEF Inv
<1>0. end[s] \in 0 .. MaxId BY DEF TypeOK
<1>1. CASE end[s] > 0
  <2>1. TypeOK' BY <1>0, <1>1 DEF TypeOK, TurnPage, NextStart, Places
  <2>2. at[s] = "entry" /\ page[s] = {} /\ at'[s] = "page"
        /\ start'[s] = end[s] + 1 /\ UNCHANGED <<stale, stream, claims, owed>>
    BY <1>1 DEF TypeOK, TurnPage, NextStart
  <2>3. ASSUME NEW e \in owed[s], e[1] = stream[s] PROVE e[2] >= end[s] + 1
    <3>1. e[2] \in Nat BY DEF TypeOK, Entry, Id
    <3>2. e[2] > end[s] BY <2>2, <2>3 DEF WalkOK, Ahead
    <3> QED BY <1>0, <3>1, <3>2
  <2>4. Ahead(s)' BY <2>2, <2>3 DEF WalkOK, Ahead, Walking
  <2>5. WalkOK(s)' BY <2>2, <2>4 DEF WalkOK
  <2>6. \A r \in Sweeper \ {s} : WalkOK(r)'
    BY <1>1, OthersKeep DEF TurnPage, TypeOK
  <2> QED BY <2>1, <2>5, <2>6
<1>2. CASE ~(end[s] > 0)
  <2>1. LeaveStream(s) /\ UNCHANGED <<last, pending, stale, start, page, end, claims, sweeps, owed>>
    BY <1>2 DEF TurnPage
  <2>2. ASSUME NEW e \in owed[s] PROVE e[1] > stream[s]
    <3>1. at[s] = "entry" /\ page[s] = {} BY DEF TurnPage
    <3>2. e[1] >= stream[s] /\ e[1] # stream[s]
      BY <1>2, <3>1 DEF WalkOK, Ahead, Walking
    <3>3. e[1] \in Nat /\ stream[s] \in Nat BY DEF TypeOK, Entry, Stream
    <3> QED BY <3>2, <3>3
  <2>3. /\ at' = [at EXCEPT ![s] = at'[s]] /\ at'[s] \in Places \ {"idle"}
        /\ stream' = [stream EXCEPT ![s] = stream'[s]] /\ stream'[s] \in Stream
        /\ Ahead(s)'
    BY <2>1, <2>2, LeaveStreamKeeps
  <2>4. TypeOK' BY <2>1, <2>3 DEF TypeOK
  <2>5. WalkOK(s)' BY <2>1, <2>3 DEF WalkOK, TurnPage
  <2>6. \A r \in Sweeper \ {s} : WalkOK(r)'
    BY <2>1, <2>3, OthersKeep DEF TypeOK
  <2> QED BY <2>4, <2>5, <2>6
<1> QED BY <1>1, <1>2

(* A sweep that stops is owed nothing that matters.                        *)
LEMMA StopInv ==
    ASSUME Inv, NEW s \in Sweeper, RemoveConsumers(s) \/ Fail(s) PROVE Inv'
<1>1. TypeOK' BY DEF Inv, TypeOK, RemoveConsumers, Fail, Places
<1>2. \A r \in Sweeper : WalkOK(r)'
  BY DEF Inv, TypeOK, RemoveConsumers, Fail, WalkOK, Ahead, Walking
<1> QED BY <1>1, <1>2 DEF Inv

LEMMA NextInv == Inv /\ [Next]_vars => Inv'
<1> SUFFICES ASSUME Inv, [Next]_vars PROVE Inv'
  OBVIOUS
<1>1. CASE UNCHANGED vars
  BY <1>1 DEF vars, walk, Inv, TypeOK, WalkOK, Ahead
<1>2. CASE \E q \in Stream : Deliver(q) BY <1>2, DeliverInv
<1>3. CASE \E e \in pending : Acknowledge(e) \/ GrowStale(e)
  BY <1>3, AcknowledgeInv, GrowStaleInv
<1>4. ASSUME NEW s \in Sweeper, Begin(s) \/ Step(s) \/ Fail(s) PROVE Inv'
  BY <1>4, BeginInv, OpenStreamInv, ReadPageInv, SkipInv, ClaimInv, AbandonInv,
     CountInv, TurnPageInv, StopInv DEF Step
<1> QED BY <1>1, <1>2, <1>3, <1>4 DEF Next

LEMMA SpecInv == Spec => []Inv
BY InitInv, NextInv, PTL DEF Spec

(* Every variable keeps its type; in particular a sweep never counts more  *)
(* than MAX_CLAIMS_PER_SWEEP messages over all streams.                    *)
THEOREM SweepTypes == Spec => []TypeOK
BY SpecInv, InvType, PTL

LEMMA InvNothingLeft == Inv => NothingLeftBehind
BY DEF Inv, WalkOK, Ahead, NothingLeftBehind

(* A sweep that gets as far as removing consumers has dealt with every     *)
(* message that was stale when it began, however the pages were cut and    *)
(* whoever else was at the list (_claim_stale_in_stream).                  *)
THEOREM SweepReachesAll == Spec => []NothingLeftBehind
BY SpecInv, InvNothingLeft, PTL
=============================================================================
