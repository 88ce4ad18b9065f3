-------------------------- MODULE WorkerRun_proofs --------------------------
(***************************************************************************)
(* What a run reports: its counters, --max-tasks and its exit code; and    *)
(* what it takes next: held messages first, then the streams in order.     *)
(* For every mode, any tasks and any environment.                          *)
(***************************************************************************)
EXTENDS WorkerRun, WellFoundedInduction, TLAPS

(* A task ran to a result that is not counted yet.                         *)
Uncounted == IF pc = "ack" /\ result # "none" THEN 1 ELSE 0

CounterTypes ==
    /\ setup \in Setups
    /\ pc \in Steps
    /\ result \in {"none", "SUCCESSFUL", "FAILED"}
    /\ processed \in Nat /\ failed \in Nat
    /\ tally \in [Outcome -> Nat]

(* Nothing is counted that did not run, and what failed or could not be    *)
(* run is in the failures, or on its way there.                            *)
Accounted ==
    /\ processed + Uncounted <= tally["SUCCESSFUL"] + tally["FAILED"]
    /\ tally["FAILED"] > 0 =>
          failed > 0 \/ pc = "error" \/ (pc = "ack" /\ result = "FAILED")
    /\ tally["raised"] > 0 => failed > 0 \/ pc = "error"
    /\ tally["SUCCESSFUL"] > 0 =>
          processed > 0 \/ failed > 0 \/ pc = "error" \/ Uncounted = 1
    /\ pc = "done" => code = ExitCode(processed, failed)

ReportInv == CounterTypes /\ (Mode # "call" => Accounted)

(* As long as nothing is deleted and every acknowledgement succeeds, what  *)
(* is in the failures, or on its way there, did fail or could not be run.  *)
Faithful == "ack" \notin FaultAt /\ "delete" \notin Others

Backed ==
    /\ DOMAIN status = Task /\ Gone = {}
    /\ (failed > 0 \/ pc = "error" \/ (pc = "ack" /\ result = "FAILED"))
          => Failures > 0

BackedInv == CounterTypes /\ (Faithful => Backed)

(* Without a failing acknowledgement the count is exact and the limit is   *)
(* looked at after every task.                                             *)
Counted ==
    /\ processed + Uncounted = tally["SUCCESSFUL"] + tally["FAILED"]
    /\ MaxTasks > 0 => /\ processed <= MaxTasks
                       /\ pc # "done" => processed < MaxTasks

CountInv == CounterTypes /\ ("ack" \notin FaultAt => Counted)

----------------------------------------------------------------------------

(* A step that neither runs a task nor counts one.                         *)
Quiet ==
    /\ UNCHANGED <<processed, failed, tally>>
    /\ \/ UNCHANGED <<pc, code, result>>
       \/ /\ pc \notin {"ack", "error", "done"} /\ pc' \in Steps
          /\ result' \in {"none", "SUCCESSFUL", "FAILED"}
          /\ pc' = "ack" => result' = "none"
          /\ pc' = "done" /\ Mode # "call" => code' = ExitCode(processed, failed)

RunFailure == Fault /\ RunFails
AckFailure == Fault /\ AckFails

(* How a run was started stays.                                            *)
LEMMA SetupKept ==
    [Next]_vars => /\ setup' = setup
                   /\ Mode' = Mode /\ MaxTasks' = MaxTasks /\ FaultAt' = FaultAt
<1> SUFFICES ASSUME [Next]_vars PROVE setup' = setup
  BY DEF Mode, MaxTasks, FaultAt
<1>1. CASE Receive
  BY <1>1 DEF Receive, Pass, ReadHistory, ReadNew, WaitRead, Read, WaitOver, Drop,
              Take, TakeOver, Empty
<1>2. CASE RunMessage
  BY <1>2 DEF RunMessage, Claim, Finish, CannotRun, Acknowledge, Error
<1>3. CASE Sweep \/ Around \/ Stop \/ Fault \/ UNCHANGED vars
  BY <1>3 DEF Sweep, Around, Stop, Fault, vars
<1> QED BY <1>1, <1>2, <1>3 DEF Next, Step

LEMMA SetupTyped == setup \in Setups => MaxTasks \in Nat
BY WorkerRunAssumption DEF Setup, MaxTasks

LEMMA ReceiveQuiet == CounterTypes /\ Receive => Quiet
<1> SUFFICES ASSUME CounterTypes, Receive PROVE Quiet
  OBVIOUS
<1> USE DEF CounterTypes, Quiet, Leave, Continue, receiveVars, taskVars, Steps,
            ReceiveSteps
<1>1. CASE Pass BY <1>1 DEF Pass, BeginReceive
<1>2. CASE ReadHistory BY <1>2 DEF ReadHistory, Read
<1>3. CASE ReadNew BY <1>3 DEF ReadNew, Read
<1>4. CASE WaitRead BY <1>4 DEF WaitRead, Read
<1>5. CASE WaitOver BY <1>5 DEF WaitOver
<1>6. CASE Drop BY <1>6 DEF Drop, counters
<1>7. CASE Take BY <1>7 DEF Take
<1>8. CASE TakeOver BY <1>8 DEF TakeOver, NextRead
<1>9. CASE Empty BY <1>9 DEF Empty
<1> QED BY <1>1, <1>2, <1>3, <1>4, <1>5, <1>6, <1>7, <1>8, <1>9 DEF Receive

LEMMA ClaimQuiet == CounterTypes /\ Claim => Quiet
BY DEF CounterTypes, Claim, Quiet, Continue, Steps, ReceiveSteps

LEMMA ReceiveFailsQuiet == CounterTypes /\ Fault /\ ReceiveFails => Quiet
BY DEF CounterTypes, Fault, ReceiveFails, Quiet, Leave, Raise, Continue, Steps,
       ReceiveSteps, receiveVars

(* Every step is quiet, or one of six.                                     *)
LEMMA StepKinds ==
    CounterTypes /\ [Next]_vars =>
        \/ Quiet \/ Finish \/ CannotRun \/ Acknowledge \/ Error
        \/ RunFailure \/ AckFailure
<1> SUFFICES ASSUME CounterTypes, [Next]_vars
             PROVE  \/ Quiet \/ Finish \/ CannotRun \/ Acknowledge \/ Error
                    \/ RunFailure \/ AckFailure
  OBVIOUS
<1>1. CASE Sweep \/ Around \/ Stop \/ UNCHANGED vars
  BY <1>1 DEF Sweep, Around, Stop, vars, Quiet, counters, receiveVars
<1>2. CASE Receive BY <1>2, ReceiveQuiet
<1>3. CASE RunMessage BY <1>3, ClaimQuiet DEF RunMessage
<1>4. CASE Fault BY <1>4, ReceiveFailsQuiet DEF Fault, RunFailure, AckFailure
<1> QED BY <1>1, <1>2, <1>3, <1>4 DEF Next, Step

LEMMA TypesKept == CounterTypes /\ [Next]_vars => CounterTypes'
<1> SUFFICES ASSUME CounterTypes, [Next]_vars PROVE CounterTypes'
  OBVIOUS
<1> USE SetupKept DEF CounterTypes, Steps, ReceiveSteps, Outcome, Continue, Tally
<1>1. CASE Quiet BY <1>1 DEF Quiet
<1>2. CASE Finish BY <1>2 DEF Finish
<1>3. CASE CannotRun BY <1>3 DEF CannotRun, receiveVars
<1>4. CASE Acknowledge
  BY <1>4 DEF Acknowledge, Failure, Leave, BeginReceive, receiveVars
<1>5. CASE Error BY <1>5 DEF Error, Raise, Leave, receiveVars
<1>6. CASE RunFailure BY <1>6 DEF RunFailure, Fault, RunFails, receiveVars
<1>7. CASE AckFailure BY <1>7 DEF AckFailure, Fault, AckFails, receiveVars
<1> QED BY <1>1, <1>2, <1>3, <1>4, <1>5, <1>6, <1>7, StepKinds

----------------------------------------------------------------------------
(* The exit code                                                           *)

LEMMA InitZero ==
    Init => /\ CounterTypes /\ pc = "loop" /\ processed = 0 /\ failed = 0
            /\ \A o \in Outcome : tally[o] = 0
<1> SUFFICES ASSUME Init PROVE /\ CounterTypes /\ pc = "loop"
                              /\ processed = 0 /\ failed = 0
                              /\ \A o \in Outcome : tally[o] = 0
  OBVIOUS
<1>1. setup \in Setups /\ pc = "loop" /\ result = "none"
      /\ processed = 0 /\ failed = 0
  BY DEF Init
<1>2. tally = [o \in Outcome |-> 0] BY DEF Init
<1>3. tally \in [Outcome -> Nat] /\ \A o \in Outcome : tally[o] = 0 BY <1>2
<1> QED BY <1>1, <1>3 DEF CounterTypes, Steps

LEMMA InitReport == Init => ReportInv
BY InitZero DEF ReportInv, CounterTypes, Accounted, Uncounted, Outcome

LEMMA ReportKept == ReportInv /\ [Next]_vars => ReportInv'
<1> SUFFICES ASSUME ReportInv, [Next]_vars, Mode # "call" PROVE Accounted'
  BY TypesKept, SetupKept DEF ReportInv
<1>0. CounterTypes /\ CounterTypes' /\ Accounted BY TypesKept DEF ReportInv
<1> USE DEF CounterTypes, Accounted, Uncounted, Continue, Tally, Outcome
<1>1. CASE Quiet BY <1>0, <1>1 DEF Quiet, ExitCode
<1>2. CASE Finish BY <1>0, <1>2 DEF Finish
<1>3. CASE CannotRun BY <1>0, <1>3 DEF CannotRun
<1>4. CASE Acknowledge
  <2>1. CASE Counts
    <3>1. processed' = processed + 1 /\ failed' = failed + Failure
      BY <1>4, <2>1 DEF Acknowledge
    <3>2. tally' = tally /\ pc' \in {"loop", "done"}
          /\ (pc' = "done" => code' = ExitCode(processed', failed'))
      BY <1>4, <2>1 DEF Acknowledge, Leave
    <3>3. pc = "ack" BY <1>4 DEF Acknowledge
    <3> QED BY <1>0, <2>1, <3>1, <3>2, <3>3 DEF Counts, Failure
  <2>2. CASE ~Counts
    <3>1. pc = "ack" /\ pc' = "loop" /\ UNCHANGED <<processed, failed, tally>>
      BY <1>4, <2>2 DEF Acknowledge
    <3> QED BY <1>0, <2>2, <3>1 DEF Counts
  <2> QED BY <2>1, <2>2
<1>5. CASE Error
  <2>1. pc = "error" /\ failed' = failed + 1 /\ UNCHANGED <<processed, tally>>
    BY <1>5 DEF Error
  <2>2. pc' \in {"loop", "done"}
        /\ (pc' = "done" => code' = ExitCode(processed', failed'))
    BY <1>5, <2>1 DEF Error, Leave
  <2> QED BY <1>0, <2>1, <2>2
<1>6. CASE RunFailure BY <1>0, <1>6 DEF RunFailure, Fault, RunFails
<1>7. CASE AckFailure BY <1>0, <1>7 DEF AckFailure, Fault, AckFails
<1> QED BY <1>0, <1>1, <1>2, <1>3, <1>4, <1>5, <1>6, <1>7, StepKinds

----------------------------------------------------------------------------
(* Failures are real                                                       *)

LEMMA InitBacked == Init => BackedInv
<1> SUFFICES ASSUME Init PROVE Backed
  BY InitZero DEF BackedInv
<1>1. DOMAIN status = Task /\ Gone = {} BY DEF Init, Gone
<1>2. pc = "loop" /\ failed = 0 BY InitZero
<1> QED BY <1>1, <1>2 DEF Backed

(* No hash goes but by a deletion.                                         *)
LEMMA NoneGoes ==
    ASSUME DOMAIN status = Task, Gone = {}, "delete" \notin Others, [Next]_vars
    PROVE  DOMAIN status' = Task /\ Gone' = {}
<1>1. CASE UNCHANGED status BY <1>1 DEF Gone
<1>2. ASSUME NEW t, NEW s, s # "GONE", status' = [status EXCEPT ![t] = s]
      PROVE  DOMAIN status' = Task /\ Gone' = {}
  BY <1>2 DEF Gone
<1>3. CASE Receive
  BY <1>1, <1>3 DEF Receive, Pass, ReadHistory, ReadNew, WaitRead, WaitOver, Drop,
     Take, TakeOver, Empty, Read, taskVars
<1>4. CASE RunMessage
  <2>1. CASE Claim BY <1>1, <1>2, <2>1 DEF Claim
  <2>2. CASE Finish BY <1>2, <2>2 DEF Finish
  <2>3. CASE CannotRun BY <1>2, <2>3 DEF CannotRun
  <2>4. CASE Acknowledge \/ Error BY <1>1, <2>4 DEF Acknowledge, Error, taskVars
  <2> QED BY <1>4, <2>1, <2>2, <2>3, <2>4 DEF RunMessage
<1>5. CASE Around
  <2>1. CASE \E t \in Task : Enqueue(t) BY <1>2, <2>1 DEF Enqueue
  <2>2. CASE \E t \in Task : TriggerRuns(t) BY <1>2, <2>2 DEF TriggerRuns
  <2>3. CASE \E s \in Stream : PeerReads(s) BY <1>1, <2>3 DEF PeerReads
  <2>4. CASE \E m \in Msg : PeerRuns(m) BY <1>2, <2>4 DEF PeerRuns
  <2> QED BY <1>5, <2>1, <2>2, <2>3, <2>4 DEF Around, OperatorDeletes
<1>6. CASE Sweep \/ Stop \/ Fault \/ UNCHANGED vars
  BY <1>1, <1>6 DEF Sweep, Stop, Fault, vars, taskVars
<1> QED BY <1>3, <1>4, <1>5, <1>6 DEF Next, Step

(* No step but a failing one turns to the except clause.                   *)
LEMMA EnterError ==
    ASSUME Gone = {}, [Next]_vars, pc' = "error"
    PROVE  pc = "error" \/ CannotRun \/ RunFailure \/ AckFailure
<1> USE DEF Continue, Leave, Raise
<1>1. CASE Receive
  BY <1>1 DEF Receive, Pass, ReadHistory, ReadNew, WaitRead, WaitOver, Drop,
     Take, TakeOver, Empty, Read, BeginReceive, NextRead
<1>2. CASE RunMessage
  BY <1>2 DEF RunMessage, Claim, Finish, Acknowledge, Error, BeginReceive
<1>3. CASE Fault
  BY <1>3 DEF Fault, ReceiveFails, RunFailure, AckFailure
<1>4. CASE Sweep \/ Around \/ Stop \/ UNCHANGED vars
  BY <1>4 DEF Sweep, Around, Stop, vars
<1> QED BY <1>1, <1>2, <1>3, <1>4 DEF Next, Step

LEMMA BackedKept == BackedInv /\ [Next]_vars => BackedInv'
<1> SUFFICES ASSUME BackedInv, [Next]_vars, Faithful PROVE Backed'
  BY TypesKept, SetupKept DEF BackedInv, Faithful, Others
<1>0. CounterTypes /\ CounterTypes' /\ Backed BY TypesKept DEF BackedInv
<1>a. DOMAIN status' = Task /\ Gone' = {}
  BY <1>0, NoneGoes DEF Backed, Faithful
<1> USE DEF CounterTypes, Backed, Failures, Continue, Tally, Outcome
<1>2. CASE Finish BY <1>0, <1>a, <1>2 DEF Finish
<1>3. CASE CannotRun BY <1>0, <1>a, <1>3 DEF CannotRun
<1>4. CASE Acknowledge
  <2>1. CASE Counts
    <3>1. failed' = failed + Failure /\ tally' = tally /\ pc' \in {"loop", "done"}
      BY <1>4, <2>1 DEF Acknowledge, Leave
    <3> QED BY <1>0, <1>a, <1>4, <3>1 DEF Acknowledge, Failure
  <2>2. CASE ~Counts
    <3>1. pc' \in {"loop", "history"} /\ UNCHANGED <<failed, tally>>
      BY <1>4, <2>2 DEF Acknowledge, BeginReceive
    <3> QED BY <1>0, <1>a, <3>1
  <2> QED BY <2>1, <2>2
<1>5. CASE Error
  <2>1. pc = "error" /\ tally' = tally BY <1>5 DEF Error
  <2> QED BY <1>0, <1>a, <2>1
<1>6. CASE RunFailure BY <1>0, <1>a, <1>6 DEF RunFailure, Fault, RunFails
<1>7. CASE AckFailure BY <1>7 DEF AckFailure, AckFails, Faithful
<1>1. CASE Quiet
  <2>1. CASE pc' = "error" /\ pc # "error"
    BY <1>0, <1>3, <1>6, <1>7, <2>1, EnterError
  <2>2. CASE pc' # "error" \/ pc = "error"
    BY <1>0, <1>a, <1>1, <2>2 DEF Quiet
  <2> QED BY <2>1, <2>2
<1> QED BY <1>0, <1>1, <1>2, <1>3, <1>4, <1>5, <1>6, <1>7, StepKinds

LEMMA ReportTells == ReportInv /\ BackedInv => CodeTellsTheRun
BY DEF ReportInv, CounterTypes, Accounted, Uncounted, BackedInv, Backed, Faithful,
       CodeTellsTheRun, Failures, ExitCode, Outcome

(* The exit code of a run tells what it ran (Command._exit_code, and the   *)
(* table of exit codes in README.md), with any commands failing.           *)
THEOREM CodeIsHonest == Spec => []CodeTellsTheRun
<1>1. Init => ReportInv BY InitReport
<1>2. ReportInv /\ [Next]_vars => ReportInv' BY ReportKept
<1>3. Init => BackedInv BY InitBacked
<1>4. BackedInv /\ [Next]_vars => BackedInv' BY BackedKept
<1>5. ReportInv /\ BackedInv => CodeTellsTheRun BY ReportTells
<1> QED BY <1>1, <1>2, <1>3, <1>4, <1>5, PTL DEF Spec

----------------------------------------------------------------------------
(* The count and the limit                                                 *)

LEMMA InitCount == Init => CountInv
BY InitZero, SetupTyped DEF CountInv, Counted, CounterTypes, Uncounted, Outcome

LEMMA CountKept == CountInv /\ [Next]_vars => CountInv'
<1> SUFFICES ASSUME CountInv, [Next]_vars, "ack" \notin FaultAt PROVE Counted'
  BY TypesKept, SetupKept DEF CountInv
<1>0. CounterTypes /\ CounterTypes' /\ Counted BY TypesKept DEF CountInv
<1>a. MaxTasks \in Nat /\ MaxTasks' = MaxTasks
  BY <1>0, SetupTyped, SetupKept DEF CounterTypes
<1> USE DEF Counted, CounterTypes, Uncounted, Continue, Tally, Outcome
<1>1. CASE Quiet BY <1>0, <1>a, <1>1 DEF Quiet
<1>2. CASE Finish BY <1>0, <1>a, <1>2 DEF Finish
<1>3. CASE CannotRun BY <1>0, <1>a, <1>3 DEF CannotRun
<1>4. CASE Acknowledge
  <2>1. CASE Counts
    <3>1. pc = "ack" /\ processed' = processed + 1 /\ tally' = tally
      BY <1>4, <2>1 DEF Acknowledge
    <3>2. pc' \in {"loop", "done"} /\ (Limit => pc' = "done")
          /\ (~Limit => pc' = "loop")
      BY <1>4, <2>1 DEF Acknowledge, Leave
    <3> QED BY <1>0, <1>a, <2>1, <3>1, <3>2 DEF Counts, Limit
  <2>2. CASE ~Counts
    <3>1. pc = "ack" /\ pc' \in {"loop", "history"}
          /\ UNCHANGED <<processed, tally>>
      BY <1>4, <2>2 DEF Acknowledge, BeginReceive
    <3> QED BY <1>0, <1>a, <2>2, <3>1 DEF Counts
  <2> QED BY <2>1, <2>2
<1>5. CASE Error BY <1>0, <1>a, <1>5 DEF Error, Raise, Leave
<1>6. CASE RunFailure BY <1>0, <1>a, <1>6 DEF RunFailure, Fault, RunFails
<1>7. CASE AckFailure BY <1>7 DEF AckFailure, AckFails
<1> QED BY <1>0, <1>1, <1>2, <1>3, <1>4, <1>5, <1>6, <1>7, StepKinds

LEMMA CountMeans == CountInv => CountIsExact
BY SetupTyped DEF CountInv, Counted, CounterTypes, Uncounted, CountIsExact, Results, Outcome

(* As long as no acknowledgement fails, the count of a run is the number   *)
(* of tasks it ran to a result, and those are no more than --max-tasks or  *)
(* max_tasks (_process_tasks, process_tasks).                              *)
THEOREM CountMatches == Spec => []CountIsExact
<1>1. Init => CountInv BY InitCount
<1>2. CountInv /\ [Next]_vars => CountInv' BY CountKept
<1>3. CountInv => CountIsExact BY CountMeans
<1> QED BY <1>1, <1>2, <1>3, PTL DEF Spec

----------------------------------------------------------------------------
(* The messages and their tasks                                            *)

Statuses == {"NEW", "GONE", "READY", "RUNNING", "SUCCESSFUL", "FAILED"}

(* The messages that were added.                                           *)
Used == {m \in Msg : place[m] # "free"}

(* A message names a task that was enqueued.                               *)
Stored ==
    /\ StreamTypeOK
    /\ status \in [Task -> Statuses]
    /\ \A m \in Used : entry[m] \in Task /\ status[entry[m]] # "NEW"

(* A message this worker could be served.                                  *)
Reach(m) == place[m] = "queued" \/ Mine(m)

(* No step forgets a message, puts one back on its stream or, but for a    *)
(* sweep, into this worker's reach.                                        *)
StreamMoves ==
    /\ StreamTypeOK'
    /\ \A m \in Used : /\ m \in Used' /\ entry'[m] = entry[m]
                       /\ place'[m] = "queued" => place[m] = "queued"
                       /\ pc # "loop" /\ Reach(m)' => Reach(m)

(* No step makes a task READY again.                                       *)
StatusMoves ==
    /\ status' \in [Task -> Statuses]
    /\ \A t \in Task : /\ status[t] # "NEW" => status'[t] # "NEW"
                       /\ status'[t] = "READY" => status[t] \in {"NEW", "READY"}

Grows ==
    /\ Stored'
    /\ \A m \in Used : /\ m \in Used' /\ entry'[m] = entry[m]
                       /\ place'[m] = "queued" => place[m] = "queued"
                       /\ pc # "loop" /\ Runnable(m)' => Runnable(m)

(* Where the run holds messages it will look at.                           *)
InHand ==
    /\ pc \in {"claim", "run", "ack"} => cur \in Used
    /\ pc = "take" => batch \subseteq Used

LEMMA MovesGrow ==
    ASSUME Stored, StreamMoves, StatusMoves, Used' \subseteq Used PROVE Grows
BY DEF Stored, StreamMoves, StatusMoves, Grows, Runnable, Reach

LEMMA StatusStays == Stored /\ UNCHANGED status => StatusMoves
BY DEF Stored, StatusMoves

LEMMA StreamStays == Stored /\ UNCHANGED streamVars => StreamMoves /\ Used' = Used
BY DEF Stored, StreamMoves, streamVars, StreamTypeOK, Used, Reach, Mine

LEMMA StatusSet ==
    ASSUME Stored, NEW t, NEW s \in Statuses \ {"NEW", "READY"},
           status' = [status EXCEPT ![t] = s]
    PROVE  StatusMoves
BY DEF Stored, StatusMoves

LEMMA RemoveMoves ==
    ASSUME Stored, NEW m \in Used, Remove(m) PROVE StreamMoves /\ Used' = Used
<1>1. m \in Msg BY DEF Used
<1>2. StreamTypeOK'
  BY <1>1, StreamAssumption DEF Remove, Stored, StreamTypeOK, Place
<1>3. \A n \in Msg : n # m => place'[n] = place[n] /\ owner'[n] = owner[n]
  BY <1>1 DEF Remove, Stored, StreamTypeOK
<1>4. place'[m] = "deleted" /\ entry' = entry BY <1>1 DEF Remove, Stored, StreamTypeOK
<1> QED BY <1>1, <1>2, <1>3, <1>4 DEF StreamMoves, Used, Reach, Mine

(* A read of messages that are queued, or this reader's own.               *)
LEMMA DeliverMoves ==
    ASSUME Stored, NEW c \in Worker, NEW M \in SUBSET Msg, Deliver(c, M),
           \A m \in M : place[m] = "queued" \/ (place[m] = "pending" /\ owner[m] = c)
    PROVE  StreamMoves /\ Used' = Used
<1> USE DEF Deliver, Stored, StreamTypeOK
<1>1. \A m \in Msg : /\ place'[m] = IF m \in M THEN "pending" ELSE place[m]
                     /\ owner'[m] = IF m \in M THEN c ELSE owner[m]
                     /\ deliveries'[m] = IF m \in M THEN Bump(deliveries[m])
                                                    ELSE deliveries[m]
  OBVIOUS
<1>2. \A n \in 0 .. DeliveryCap : Bump(n) \in 0 .. DeliveryCap
  BY StreamAssumption DEF Bump
<1>3. place' \in [Msg -> Place] BY <1>1 DEF Place
<1>4. owner' \in [Msg -> Worker \cup {NoWorker}] BY <1>1
<1>5. deliveries' \in [Msg -> 0 .. DeliveryCap] BY <1>1, <1>2
<1>6. StreamTypeOK' BY <1>3, <1>4, <1>5
<1>7. Used' = Used BY <1>1 DEF Used
<1>8. \A m \in Msg : Reach(m)' => Reach(m) BY <1>1 DEF Reach, Mine
<1> QED BY <1>1, <1>6, <1>7, <1>8 DEF StreamMoves, Used

LEMMA OldestIn == \A M : Oldest(M) \subseteq M
BY DEF Oldest

LEMMA NewQueued ==
    \A s : NextNew(s) \subseteq Msg /\ \A m \in NextNew(s) : place[m] = "queued" /\ In(m, s)
BY OldestIn DEF NextNew

LEMMA HeldMine ==
    /\ Held \subseteq Msg
    /\ \A m \in Held : Mine(m)
BY OldestIn DEF Held, NextHeld, Mine

LEMMA EnqueueGrows == ASSUME Stored, NEW t \in Task, Enqueue(t) PROVE Grows
<1> USE DEF Stored, StreamTypeOK
<1>1. status[t] = "NEW" /\ status' = [status EXCEPT ![t] = "READY"] BY DEF Enqueue
<1>2. PICK m \in Msg : /\ place[m] = "free"
                       /\ entry' = [entry EXCEPT ![m] = t]
                       /\ place' = [place EXCEPT ![m] = "queued"]
                       /\ UNCHANGED <<owner, deliveries>>
  BY DEF Enqueue, XAdd
<1>3. StreamTypeOK' BY <1>2 DEF Place
<1>4. \A n \in Msg : n # m => place'[n] = place[n] /\ entry'[n] = entry[n]
  BY <1>2
<1>5. place'[m] = "queued" /\ entry'[m] = t BY <1>2
<1>6. status' \in [Task -> Statuses] /\ status'[t] = "READY"
      /\ \A u \in Task : u # t => status'[u] = status[u]
  BY <1>1 DEF Statuses
<1>7. \A n \in Used : n # m /\ n \in Msg /\ entry[n] # t
  BY <1>1, <1>2 DEF Used
<1>8. \A n \in Used' : n = m \/ n \in Used BY <1>4 DEF Used
<1>9. Stored' BY <1>3, <1>4, <1>5, <1>6, <1>7, <1>8
<1> QED BY <1>2, <1>4, <1>6, <1>7, <1>9 DEF Grows, Runnable, Used, Mine

LEMMA AroundGrows == Stored /\ Around => Grows /\ \A m \in Msg : Mine(m)' <=> Mine(m)
<1> SUFFICES ASSUME Stored, Around
             PROVE  Grows /\ \A m \in Msg : Mine(m)' <=> Mine(m)
  OBVIOUS
<1>1. ASSUME NEW t \in Task, Enqueue(t)
      PROVE  Grows /\ \A m \in Msg : Mine(m)' <=> Mine(m)
  <2>1. \A m \in Msg : place[m] # "free" => place'[m] = place[m]
    BY <1>1 DEF Enqueue, XAdd, Stored, StreamTypeOK
  <2>2. \A m \in Msg : place[m] = "free" => place'[m] \in {"free", "queued"}
    BY <1>1 DEF Enqueue, XAdd, Stored, StreamTypeOK
  <2>3. UNCHANGED owner BY <1>1 DEF Enqueue, XAdd
  <2> QED BY <1>1, <2>1, <2>2, <2>3, EnqueueGrows DEF Mine
<1>2. ASSUME NEW t \in Task, TriggerRuns(t) \/ OperatorDeletes(t)
      PROVE  Grows /\ \A m \in Msg : Mine(m)' <=> Mine(m)
  <2>1. UNCHANGED streamVars BY <1>2 DEF TriggerRuns, OperatorDeletes
  <2>2. StatusMoves BY <1>2, StatusSet DEF TriggerRuns, OperatorDeletes, Statuses
  <2> QED BY <2>1, <2>2, StreamStays, MovesGrow DEF Mine, streamVars
<1>3. ASSUME NEW s \in Stream, PeerReads(s)
      PROVE  Grows /\ \A m \in Msg : Mine(m)' <=> Mine(m)
  <2>1. Deliver(Peer, NextNew(s)) /\ UNCHANGED status BY <1>3 DEF PeerReads
  <2>2. Peer \in Worker /\ Peer # Me BY WorkerRunAssumption
  <2>3. StreamMoves /\ Used' = Used BY <2>1, <2>2, NewQueued, DeliverMoves
  <2>4. \A m \in Msg : Mine(m)' <=> Mine(m)
    BY <2>1, <2>2, NewQueued DEF Deliver, Mine, Stored, StreamTypeOK
  <2> QED BY <2>1, <2>3, <2>4, StatusStays, MovesGrow
<1>4. ASSUME NEW m \in Msg, PeerRuns(m)
      PROVE  Grows /\ \A n \in Msg : Mine(n)' <=> Mine(n)
  <2>1. m \in Used /\ Remove(m) BY <1>4 DEF PeerRuns, Used
  <2>2. StatusMoves BY <1>4, StatusSet DEF PeerRuns, Statuses
  <2>3. Peer # Me BY WorkerRunAssumption
  <2>4. \A n \in Msg : Mine(n)' <=> Mine(n)
    BY <1>4, <2>1, <2>3 DEF PeerRuns, Remove, Mine, Stored, StreamTypeOK
  <2> QED BY <2>1, <2>2, <2>4, RemoveMoves, MovesGrow
<1> QED BY <1>1, <1>2, <1>3, <1>4 DEF Around

LEMMA SweepGrows == Stored /\ Sweep => Grows
<1> SUFFICES ASSUME Stored, Sweep PROVE Grows
  OBVIOUS
<1>1. PICK m \in Msg : owner[m] = Peer /\ XClaim(Me, m) BY DEF Sweep
<1>2. pc = "loop" /\ UNCHANGED status BY DEF Sweep
<1>3. Me \in Worker BY WorkerRunAssumption
<1>4. \A n \in 0 .. DeliveryCap : Bump(n) \in 0 .. DeliveryCap
  BY StreamAssumption DEF Bump
<1>5. StreamTypeOK' BY <1>1, <1>3, <1>4 DEF XClaim, Stored, StreamTypeOK
<1>6. UNCHANGED <<entry, place>> BY <1>1 DEF XClaim
<1>7. StreamMoves /\ Used' = Used BY <1>2, <1>5, <1>6 DEF StreamMoves, Used
<1> QED BY <1>2, <1>7, StatusStays, MovesGrow

LEMMA ReadGrows ==
    ASSUME Stored, NEW M \in SUBSET Msg, Read(M), \A m \in M : Reach(m) PROVE Grows
<1>1. Me \in Worker BY WorkerRunAssumption
<1>2. Deliver(Me, M) /\ UNCHANGED status BY DEF Read
<1> QED BY <1>1, <1>2, DeliverMoves, StatusStays, MovesGrow DEF Reach, Mine

LEMMA StepGrows == Stored /\ CounterTypes /\ InHand /\ [Next]_vars => Grows
<1> SUFFICES ASSUME Stored, CounterTypes, InHand, [Next]_vars PROVE Grows
  OBVIOUS
<1>1. CASE UNCHANGED taskVars
  BY <1>1, StreamStays, StatusStays, MovesGrow DEF taskVars
<1>2. CASE Around BY <1>2, AroundGrows
<1>3. CASE Sweep BY <1>3, SweepGrows
<1>4. CASE ReadHistory BY <1>4, HeldMine, ReadGrows DEF ReadHistory, Reach
<1>5. CASE ReadNew BY <1>5, NewQueued, ReadGrows DEF ReadNew, Reach
<1>6. CASE WaitRead
  <2> DEFINE M == UNION {NextNew(s) : s \in Stream}
  <2>1. M \subseteq Msg /\ \A m \in M : place[m] = "queued" BY NewQueued
  <2>2. Read(M) BY <1>6 DEF WaitRead
  <2> HIDE DEF M
  <2> QED BY <2>1, <2>2, ReadGrows DEF Reach
<1>7. CASE Drop
  <2>1. PICK m \in FirstOf(batch) : Remove(m) BY <1>7 DEF Drop
  <2>2. m \in Used BY <1>7, <2>1 DEF FirstOf, Drop, InHand
  <2>3. UNCHANGED status BY <1>7 DEF Drop
  <2> QED BY <2>1, <2>2, <2>3, RemoveMoves, StatusStays, MovesGrow
<1>8. CASE Claim
  <2>1. UNCHANGED streamVars BY <1>8 DEF Claim
  <2>2. StatusMoves BY <1>8, StatusSet, StatusStays DEF Claim, Statuses
  <2> QED BY <2>1, <2>2, StreamStays, MovesGrow
<1>9. CASE Finish \/ CannotRun
  <2>1. UNCHANGED streamVars BY <1>9 DEF Finish, CannotRun
  <2>2. StatusMoves BY <1>9, StatusSet DEF Finish, CannotRun, Statuses
  <2> QED BY <2>1, <2>2, StreamStays, MovesGrow
<1>10. CASE Acknowledge
  <2>1. cur \in Used /\ Remove(cur) /\ UNCHANGED status
    BY <1>10 DEF Acknowledge, InHand
  <2> QED BY <2>1, RemoveMoves, StatusStays, MovesGrow
<1>11. CASE Stop \/ Fault \/ Pass \/ WaitOver \/ Take \/ TakeOver \/ Empty \/ Error
            \/ UNCHANGED vars
  BY <1>1, <1>11 DEF Stop, Fault, Pass, WaitOver, Take, TakeOver, Empty, Error, vars
<1> QED BY <1>2, <1>3, <1>4, <1>5, <1>6, <1>7, <1>8, <1>9, <1>10, <1>11
        DEF Next, Step, Receive, RunMessage

----------------------------------------------------------------------------
(* What a receive has looked at, and what is still to come                 *)

RunTypes ==
    /\ stop \in BOOLEAN
    /\ batch \subseteq Msg
    /\ at \in 1 .. NumStreams + 1 /\ (pc = "new" => at <= NumStreams)
    /\ cur \in Msg \cup {0}
    /\ code \in {"running", "ok", "empty", "failed", "raised"}
    /\ faults \in 0 .. MaxFaults

(* The history variables are about messages the receive knew of.           *)
Seen ==
    /\ offered \cup owned \cup dropped \subseteq Used
    /\ \A m \in owned : place[m] # "queued"

Serving == pc \in ReceiveSteps \cup {"empty"}

(* A message is still to be served by this receive: in the history read    *)
(* that follows, on a stream that is still to be read, or at or behind one *)
(* that was read.                                                          *)
Coming(n) ==
    \/ pc = "history" /\ n \in owned
    \/ n \notin owned /\ place[n] = "queued" /\ StreamOf[entry[n]] >= at
    \/ \E k \in batch : /\ k <= n /\ (k \in owned <=> n \in owned)
                        /\ StreamOf[entry[k]] = StreamOf[entry[n]]

(* A read returns held messages or new ones, never both.                   *)
ScanOK ==
    /\ pc = "history" => at = 1 /\ \A m \in Msg : Mine(m) => m \in owned
    /\ pc = "take" => \/ batch \subseteq owned
                      \/ /\ batch \cap owned = {}
                         /\ \A k \in batch : StreamOf[entry[k]] < at
    /\ pc \in {"history", "new", "wait", "empty"} => batch = {}
    /\ pc \in {"wait", "empty"} => at = NumStreams + 1

NoneMissed == Serving => \A n \in offered : Runnable(n) => Hidden(n) \/ Coming(n)

OrderInv ==
    /\ CounterTypes /\ Stored /\ InHand /\ RunTypes
    /\ Seen /\ ScanOK /\ NoneMissed /\ PriorityKept

LEMMA InitOrder == Init => OrderInv
<1> SUFFICES ASSUME Init PROVE OrderInv
  OBVIOUS
<1>1. CounterTypes /\ pc = "loop" BY InitZero
<1>2. Stored /\ Used = {}
  BY StreamAssumption DEF Init, StreamInit, Stored, StreamTypeOK, Statuses, Used, Place
<1>3. RunTypes
  <2>1. 1 \in 1 .. NumStreams + 1 /\ 0 \in 0 .. MaxFaults
    BY StreamAssumption, WorkerRunAssumption
  <2> QED BY <1>1, <2>1 DEF Init, RunTypes
<1>4. Seen BY DEF Init, Seen
<1> QED BY <1>1, <1>2, <1>3, <1>4
        DEF OrderInv, InHand, ScanOK, NoneMissed, Serving, ReceiveSteps, PriorityKept

(* What is hidden stays hidden, and what was seen stays in the stream.     *)
LEMMA HiddenStays ==
    ASSUME OrderInv, Grows, dropped \subseteq dropped', NEW n \in Used, Hidden(n)
    PROVE  Hidden(n)'
<1>1. PICK k \in dropped : k < n /\ StreamOf[entry[k]] = StreamOf[entry[n]]
  BY DEF Hidden
<1>2. k \in Used BY DEF OrderInv, Seen
<1>3. entry'[k] = entry[k] /\ entry'[n] = entry[n] BY <1>2 DEF Grows
<1> QED BY <1>1, <1>3 DEF Hidden

LEMMA SeenStays ==
    ASSUME OrderInv, Grows, offered' \subseteq offered, owned' \subseteq owned,
           dropped' \subseteq Used
    PROVE  Seen'
BY DEF OrderInv, Seen, Grows

(* A step out of the receive, or one that is in none.                      *)
LEMMA Outside ==
    ASSUME OrderInv, Grows, UNCHANGED history,
           pc' \notin ReceiveSteps \cup {"empty", "claim"}
    PROVE  Seen' /\ ScanOK' /\ NoneMissed' /\ PriorityKept'
<1>1. Seen' BY SeenStays DEF history, OrderInv, Seen
<1> QED BY <1>1 DEF ScanOK, NoneMissed, Serving, ReceiveSteps, PriorityKept

(* A step that is not the receive's own.                                   *)
LEMMA Beside ==
    ASSUME OrderInv, Grows, UNCHANGED <<pc, receiveVars>>, pc # "loop",
           \A m \in Msg : Mine(m)' <=> Mine(m)
    PROVE  Seen' /\ ScanOK' /\ NoneMissed' /\ PriorityKept'
<1> USE DEF OrderInv
<1>1. UNCHANGED <<batch, at, cur, offered, owned, dropped>> BY DEF receiveVars, history
<1>2. Seen' BY <1>1, SeenStays DEF Seen
<1>3. pc = "take" => \A k \in batch : k \in Used /\ entry'[k] = entry[k]
  BY DEF InHand, Grows
<1>4. ScanOK' BY <1>1, <1>3 DEF ScanOK
<1>5. ASSUME NEW n \in offered, Runnable(n)'
      PROVE  n \in Used /\ Runnable(n) /\ entry'[n] = entry[n]
             /\ (place[n] = "queued" => place'[n] = "queued")
  <2>1. n \in Used /\ n \in Msg BY DEF Seen, Used
  <2>2. Runnable(n) /\ entry'[n] = entry[n] BY <1>5, <2>1 DEF Grows
  <2>3. place'[n] = "queued" \/ Mine(n) BY <1>5, <2>1 DEF Runnable
  <2> QED BY <2>1, <2>2, <2>3 DEF Mine
<1>6. NoneMissed'
  <2> SUFFICES ASSUME Serving', NEW n \in offered, Runnable(n)'
               PROVE  Hidden(n)' \/ Coming(n)'
    BY <1>1 DEF NoneMissed
  <2>1. Hidden(n) \/ Coming(n) BY <1>5 DEF NoneMissed, Serving
  <2>2. CASE Hidden(n) BY <1>1, <1>5, <2>2, HiddenStays
  <2>3. CASE Coming(n)
    <3>1. \A k \in batch : entry'[k] = entry[k]
      BY <1>1, <1>3 DEF ScanOK, Serving, ReceiveSteps
    <3> QED BY <1>1, <1>5, <2>3, <3>1 DEF Coming
  <2> QED BY <2>1, <2>2, <2>3
<1>7. PriorityKept'
  <2> SUFFICES ASSUME pc = "claim", NEW n \in offered, Runnable(n)', Before(n, cur)'
               PROVE  Hidden(n)'
    BY <1>1 DEF PriorityKept
  <2>1. cur \in Used /\ entry'[cur] = entry[cur] BY DEF InHand, Grows
  <2>2. Before(n, cur) BY <1>1, <1>5, <2>1 DEF Before
  <2>3. Hidden(n) BY <1>5, <2>2 DEF PriorityKept
  <2> QED BY <1>1, <1>5, <2>3, HiddenStays
<1> QED BY <1>2, <1>4, <1>6, <1>7

----------------------------------------------------------------------------
(* The steps of a receive                                                  *)

LEMMA LeastOf ==
    ASSUME NEW M \in SUBSET Msg, NEW n \in M PROVE \E k \in Oldest(M) : k <= n
<1>1. M \subseteq Nat BY StreamAssumption DEF Msg
<1>2. IsWellFoundedOn(OpToRel(<, Nat), Nat) BY NatLessThanWellFounded
<1>3. PICK k \in M : \A x \in M : ~(<<x, k>> \in OpToRel(<, Nat))
  BY <1>1, <1>2, WFMin
<1>4. \A x \in M : ~(x < k) BY <1>1, <1>3 DEF OpToRel
<1> QED BY <1>1, <1>4 DEF Oldest

(* The history read leaves no stream out that this consumer holds from.    *)
LEMMA HeldReaches ==
    ASSUME NEW n \in Msg, Mine(n), entry[n] \in Task
    PROVE  \E k \in Held : k <= n /\ StreamOf[entry[k]] = StreamOf[entry[n]]
<1> DEFINE s == StreamOf[entry[n]]
           M == {m \in Msg : place[m] = "pending" /\ owner[m] = Me /\ In(m, s)}
<1>1. s \in Stream BY StreamAssumption
<1>2. n \in M BY DEF Mine, In
<1>3. PICK k \in Oldest(M) : k <= n BY <1>2, LeastOf
<1>4. k \in M BY <1>3, OldestIn
<1>5. k \in Held BY <1>1, <1>3 DEF Held, NextHeld
<1> QED BY <1>3, <1>4, <1>5 DEF In

LEMMA NewReaches ==
    ASSUME NEW n \in Msg, place[n] = "queued", entry[n] \in Task
    PROVE  \E k \in NextNew(StreamOf[entry[n]]) : k <= n
<1> DEFINE M == {m \in Msg : place[m] = "queued" /\ In(m, StreamOf[entry[n]])}
<1>1. n \in M BY DEF In
<1> QED BY <1>1, LeastOf DEF NextNew

LEMMA BeginOrder ==
    ASSUME OrderInv, Grows, BeginReceive,
           \A m \in Msg : Mine(m)' => Mine(m),
           \A m \in Msg : Runnable(m) => m \in Used
    PROVE  Seen' /\ ScanOK' /\ NoneMissed' /\ PriorityKept'
<1>1. pc' = "history" /\ batch' = {} /\ at' = 1 /\ dropped' = {}
      /\ offered' = {m \in Msg : Runnable(m)} /\ owned' = {m \in Msg : Mine(m)}
  BY DEF BeginReceive, Continue
<1>2. \A m \in owned' : m \in Used /\ place[m] = "pending" BY <1>1 DEF Mine, Used
<1>3. Seen'
  <2>1. \A m \in Used : m \in Used' /\ (place'[m] = "queued" => place[m] = "queued")
    BY DEF Grows
  <2> QED BY <1>1, <1>2, <2>1 DEF Seen
<1>4. ScanOK' BY <1>1 DEF ScanOK
<1>5. NoneMissed'
  <2> SUFFICES ASSUME NEW n \in offered', Runnable(n)' PROVE Coming(n)'
    BY DEF NoneMissed
  <2>1. n \in Msg /\ n \in Used /\ n \in Used' BY <1>1 DEF Grows
  <2>2. CASE n \in owned' BY <1>1, <2>2 DEF Coming
  <2>3. CASE n \notin owned'
    <3>1. place'[n] = "queued" BY <1>1, <2>1, <2>3 DEF Runnable
    <3>2. entry'[n] \in Task BY <2>1 DEF Grows, Stored
    <3>3. StreamOf[entry'[n]] \in Stream BY <3>2, StreamAssumption
    <3>4. StreamOf[entry'[n]] >= at' BY <1>1, <3>3, StreamAssumption DEF Stream
    <3> QED BY <2>3, <3>1, <3>4 DEF Coming
  <2> QED BY <2>2, <2>3
<1>6. PriorityKept' BY <1>1 DEF PriorityKept
<1> QED BY <1>3, <1>4, <1>5, <1>6

(* What a read leaves where it was, and where it puts what it returns.     *)
LEMMA ReadFacts ==
    ASSUME Stored, NEW M \in SUBSET Msg, Read(M)
    PROVE  /\ pc' = "take" /\ batch' = M /\ UNCHANGED <<entry, status, history>>
           /\ \A m \in Msg : place'[m] = IF m \in M THEN "pending" ELSE place[m]
BY DEF Read, Deliver, Continue, Stored, StreamTypeOK, history

LEMMA HistoryOrder ==
    ASSUME OrderInv, Grows, ReadHistory
    PROVE  Seen' /\ ScanOK' /\ NoneMissed' /\ PriorityKept'
<1> USE DEF OrderInv
<1>1. pc = "history" /\ at = 1 /\ at' = at /\ Read(Held) BY DEF ReadHistory, ScanOK
<1>2. pc' = "take" /\ batch' = Held /\ UNCHANGED <<entry, status, offered, owned, dropped>>
      /\ \A m \in Msg : place'[m] = IF m \in Held THEN "pending" ELSE place[m]
  BY <1>1, HeldMine, ReadFacts DEF history
<1>3. Held \subseteq owned BY <1>1, HeldMine DEF ScanOK
<1>4. Seen' BY <1>2, SeenStays DEF Seen
<1>5. ScanOK' BY <1>2, <1>3 DEF ScanOK
<1>6. NoneMissed'
  <2> SUFFICES ASSUME NEW n \in offered, Runnable(n)' PROVE Hidden(n)' \/ Coming(n)'
    BY <1>2 DEF NoneMissed
  <2>1. n \in Used /\ n \in Msg /\ entry[n] \in Task BY DEF Seen, Used, Stored
  <2>2. Runnable(n) BY <1>1, <2>1 DEF Grows
  <2>3. CASE n \in owned
    <3>1. Mine(n) BY <2>2, <2>3 DEF Seen, Runnable
    <3>2. PICK k \in Held : k <= n /\ StreamOf[entry[k]] = StreamOf[entry[n]]
      BY <2>1, <3>1, HeldReaches
    <3> QED BY <1>2, <1>3, <2>3, <3>2 DEF Coming
  <2>4. CASE n \notin owned
    <3>1. place[n] = "queued" BY <1>1, <2>1, <2>2, <2>4 DEF Runnable, ScanOK
    <3>2. n \notin Held BY <1>3, <2>4
    <3>3. StreamOf[entry[n]] \in Stream BY <2>1, StreamAssumption
    <3>4. StreamOf[entry[n]] >= at BY <1>1, <3>3, StreamAssumption DEF Stream
    <3> QED BY <1>1, <1>2, <2>1, <2>4, <3>1, <3>2, <3>4 DEF Coming
  <2> QED BY <2>3, <2>4
<1>7. PriorityKept' BY <1>2 DEF PriorityKept
<1> QED BY <1>4, <1>5, <1>6, <1>7

LEMMA NewOrder ==
    ASSUME OrderInv, Grows, ReadNew
    PROVE  Seen' /\ ScanOK' /\ NoneMissed' /\ PriorityKept'
<1> USE DEF OrderInv
<1> DEFINE M == NextNew(at)
<1>1. pc = "new" /\ batch = {} /\ at' = at + 1 /\ Read(M) /\ at \in Nat
  BY StreamAssumption DEF ReadNew, ScanOK, RunTypes
<1>2. M \subseteq Msg /\ \A m \in M : /\ place[m] = "queued"
                                     /\ entry[m] \in Task /\ StreamOf[entry[m]] = at
  BY NewQueued DEF In
<1> HIDE DEF M
<1>3. pc' = "take" /\ batch' = M /\ UNCHANGED <<entry, status, offered, owned, dropped>>
      /\ \A m \in Msg : place'[m] = IF m \in M THEN "pending" ELSE place[m]
  BY <1>1, <1>2, ReadFacts DEF history
<1>4. M \cap owned = {} BY <1>2 DEF Seen
<1>5. Seen' BY <1>3, SeenStays DEF Seen
<1>6. ScanOK' BY <1>1, <1>2, <1>3, <1>4 DEF ScanOK
<1>7. NoneMissed'
  <2> SUFFICES ASSUME NEW n \in offered, Runnable(n)' PROVE Hidden(n)' \/ Coming(n)'
    BY <1>3 DEF NoneMissed
  <2>1. n \in Used /\ n \in Msg /\ entry[n] \in Task BY DEF Seen, Used, Stored
  <2>2. Runnable(n) BY <1>1, <2>1 DEF Grows
  <2>3. Hidden(n) \/ Coming(n)
    BY <1>1, <2>2 DEF NoneMissed, Serving, ReceiveSteps
  <2>4. CASE Hidden(n) BY <1>3, <2>4 DEF Hidden
  <2>5. CASE Coming(n)
    <3>1. n \notin owned /\ place[n] = "queued" /\ StreamOf[entry[n]] >= at
      BY <1>1, <2>5 DEF Coming
    <3>2. StreamOf[entry[n]] \in Nat BY <2>1, StreamAssumption DEF Stream
    <3>3. CASE StreamOf[entry[n]] = at
      <4>1. PICK k \in M : k <= n BY <2>1, <3>1, <3>3, NewReaches DEF M
      <4> QED BY <1>2, <1>3, <1>4, <3>1, <3>3, <4>1 DEF Coming
    <3>4. CASE StreamOf[entry[n]] # at
      <4>1. StreamOf[entry[n]] >= at' /\ n \notin M BY <1>1, <1>2, <3>1, <3>2, <3>4
      <4> QED BY <1>3, <2>1, <3>1, <4>1 DEF Coming
    <3> QED BY <3>3, <3>4
  <2> QED BY <2>3, <2>4, <2>5
<1>8. PriorityKept' BY <1>3 DEF PriorityKept
<1> QED BY <1>5, <1>6, <1>7, <1>8

(* The blocking read comes when every stream was read: what it returns is  *)
(* new.                                                                    *)
LEMMA WaitOrder ==
    ASSUME OrderInv, Grows, WaitRead
    PROVE  Seen' /\ ScanOK' /\ NoneMissed' /\ PriorityKept'
<1> USE DEF OrderInv
<1> DEFINE M == UNION {NextNew(s) : s \in Stream}
<1>1. pc = "wait" /\ batch = {} /\ at = NumStreams + 1 /\ at' = at /\ Read(M)
  BY DEF WaitRead, ScanOK
<1>2. M \subseteq Msg
      /\ \A m \in M : /\ place[m] = "queued"
                      /\ entry[m] \in Task /\ StreamOf[entry[m]] \in Stream
  BY NewQueued DEF In
<1> HIDE DEF M
<1>3. pc' = "take" /\ batch' = M /\ UNCHANGED <<entry, status, offered, owned, dropped>>
      /\ \A m \in Msg : place'[m] = IF m \in M THEN "pending" ELSE place[m]
  BY <1>1, <1>2, ReadFacts DEF history
<1>4. M \cap owned = {} BY <1>2 DEF Seen
<1>5. Seen' BY <1>3, SeenStays DEF Seen
<1>6. ScanOK' BY <1>1, <1>2, <1>3, <1>4, StreamAssumption DEF ScanOK, Stream
<1>7. NoneMissed'
  <2> SUFFICES ASSUME NEW n \in offered, Runnable(n)' PROVE Hidden(n)'
    BY <1>3 DEF NoneMissed
  <2>1. n \in Used /\ entry[n] \in Task BY DEF Seen, Stored
  <2>2. Runnable(n) BY <1>1, <2>1 DEF Grows
  <2>3. Hidden(n) \/ Coming(n)
    BY <1>1, <2>2 DEF NoneMissed, Serving, ReceiveSteps
  <2>4. StreamOf[entry[n]] \in 1 .. NumStreams BY <2>1, StreamAssumption DEF Stream
  <2>5. ~Coming(n) BY <1>1, <2>4, StreamAssumption DEF Coming
  <2> QED BY <1>3, <2>3, <2>5 DEF Hidden
<1>8. PriorityKept' BY <1>3 DEF PriorityKept
<1> QED BY <1>5, <1>6, <1>7, <1>8

(* A step that moves on and leaves the streams and the batch as they are.  *)
LEMMA MoveOnOrder ==
    ASSUME OrderInv, Grows, UNCHANGED <<taskVars, receiveVars>>,
           pc \in {"take", "wait"}, batch = {}, pc' \in {"new", "wait", "empty"},
           pc' # "new" => at = NumStreams + 1
    PROVE  Seen' /\ ScanOK' /\ NoneMissed' /\ PriorityKept'
<1> USE DEF OrderInv
<1>1. UNCHANGED <<entry, place, owner, status, batch, at, offered, owned, dropped>>
  BY DEF taskVars, streamVars, receiveVars, history
<1>2. Seen' BY <1>1, SeenStays DEF Seen
<1>3. ScanOK' BY <1>1 DEF ScanOK
<1>4. NoneMissed'
  BY <1>1 DEF NoneMissed, Serving, ReceiveSteps, Runnable, Mine, Hidden, Coming
<1>5. PriorityKept' BY DEF PriorityKept
<1> QED BY <1>2, <1>3, <1>4, <1>5

(* A dropped message is not runnable, and what it stood for is behind it.  *)
LEMMA DropOrder ==
    ASSUME OrderInv, Grows, Drop
    PROVE  Seen' /\ ScanOK' /\ NoneMissed' /\ PriorityKept'
<1> USE DEF OrderInv
<1>1. PICK m \in FirstOf(batch) : /\ status[entry[m]] # "READY"
                                  /\ Remove(m)
                                  /\ batch' = batch \ {m}
                                  /\ dropped' = dropped \cup {m}
  BY DEF Drop
<1>2. pc = "take" /\ UNCHANGED <<status, pc, at, offered, owned>> BY DEF Drop
<1>3. m \in batch /\ m \in Used /\ m \in Msg BY <1>1, <1>2 DEF FirstOf, InHand, Used
<1>4. UNCHANGED entry /\ \A n \in Msg : n # m => place'[n] = place[n]
  BY <1>1, <1>3 DEF Remove, Stored, StreamTypeOK
<1>5. Seen' BY <1>1, <1>2, <1>3, SeenStays DEF Seen
<1>6. ScanOK' BY <1>1, <1>2, <1>4 DEF ScanOK
<1>7. NoneMissed'
  <2> SUFFICES ASSUME NEW n \in offered, Runnable(n)' PROVE Hidden(n)' \/ Coming(n)'
    BY <1>2 DEF NoneMissed
  <2>1. n \in Used /\ n \in Msg BY DEF Seen, Used
  <2>2. Runnable(n) BY <1>2, <2>1 DEF Grows
  <2>3. n # m BY <1>1, <2>2 DEF Runnable
  <2>4. Hidden(n) \/ Coming(n)
    BY <1>2, <2>2 DEF NoneMissed, Serving, ReceiveSteps
  <2>5. CASE Hidden(n) BY <1>1, <1>4, <2>5 DEF Hidden
  <2>6. CASE n \notin owned /\ place[n] = "queued" /\ StreamOf[entry[n]] >= at
    BY <1>2, <1>4, <2>1, <2>3, <2>6 DEF Coming
  <2>7. ASSUME NEW k \in batch, k <= n, k \in owned <=> n \in owned,
               StreamOf[entry[k]] = StreamOf[entry[n]]
        PROVE  Hidden(n)' \/ Coming(n)'
    <3>1. CASE k = m
      <4>1. m < n BY <1>3, <2>1, <2>3, <2>7, <3>1, StreamAssumption DEF Msg
      <4> QED BY <1>1, <1>4, <2>7, <3>1, <4>1 DEF Hidden
    <3>2. CASE k # m BY <1>1, <1>2, <1>4, <2>7, <3>2 DEF Coming
    <3> QED BY <3>1, <3>2
  <2> QED BY <1>2, <2>4, <2>5, <2>6, <2>7 DEF Coming
<1>8. PriorityKept' BY <1>2 DEF PriorityKept
<1> QED BY <1>5, <1>6, <1>7, <1>8

(* What is taken is the first of its read, and nothing that goes before it *)
(* is still to come.                                                       *)
LEMMA TakeOrder ==
    ASSUME OrderInv, Grows, Take
    PROVE  Seen' /\ ScanOK' /\ NoneMissed' /\ PriorityKept'
<1> USE DEF OrderInv
<1>1. PICK m \in FirstOf(batch) : cur' = m BY DEF Take
<1>2. pc = "take" /\ pc' = "claim" /\ UNCHANGED <<taskVars, at, offered, owned, dropped>>
  BY DEF Take, Continue, history
<1>3. UNCHANGED <<entry, place, owner, status>> BY <1>2 DEF taskVars, streamVars
<1>4. Seen' BY <1>2, SeenStays DEF Seen
<1>5. ScanOK' BY <1>2 DEF ScanOK
<1>6. NoneMissed' BY <1>2 DEF NoneMissed, Serving, ReceiveSteps
<1>7. PriorityKept'
  <2> SUFFICES ASSUME NEW n \in offered, Runnable(n), Before(n, m), ~Hidden(n)
               PROVE  FALSE
    BY <1>1, <1>2, <1>3 DEF PriorityKept, Runnable, Mine, Before, Hidden
  <2>1. n \in Used /\ entry[n] \in Task BY DEF Seen, Stored
  <2>2. m \in batch /\ entry[m] \in Task
        /\ \A k \in batch : StreamOf[entry[m]] <= StreamOf[entry[k]]
    BY <1>1, <1>2 DEF FirstOf, InHand, Stored
  <2>3. StreamOf[entry[n]] \in Nat /\ StreamOf[entry[m]] \in Nat /\ at \in Nat
    BY <2>1, <2>2, StreamAssumption DEF Stream, RunTypes
  <2>4. Coming(n) BY <1>2 DEF NoneMissed, Serving, ReceiveSteps
  <2>5. CASE n \notin owned /\ place[n] = "queued" /\ StreamOf[entry[n]] >= at
    <3>1. m \notin owned /\ StreamOf[entry[n]] < StreamOf[entry[m]]
      BY <2>5 DEF Before
    <3>2. StreamOf[entry[m]] < at BY <1>2, <2>2, <3>1 DEF ScanOK
    <3> QED BY <2>3, <2>5, <3>1, <3>2
  <2>6. ASSUME NEW k \in batch, k \in owned <=> n \in owned,
               StreamOf[entry[k]] = StreamOf[entry[n]]
        PROVE  FALSE
    <3>1. m \in owned <=> n \in owned BY <1>2, <2>2, <2>6 DEF ScanOK
    <3>2. StreamOf[entry[n]] < StreamOf[entry[m]] BY <3>1 DEF Before
    <3> QED BY <2>2, <2>3, <2>6, <3>2
  <2> QED BY <1>2, <2>4, <2>5, <2>6 DEF Coming
<1> QED BY <1>4, <1>5, <1>6, <1>7

LEMMA NextOrder ==
    OrderInv /\ [Next]_vars => Seen' /\ ScanOK' /\ NoneMissed' /\ PriorityKept'
<1> SUFFICES ASSUME OrderInv, [Next]_vars
             PROVE  Seen' /\ ScanOK' /\ NoneMissed' /\ PriorityKept'
  OBVIOUS
<1>1. Grows BY StepGrows DEF OrderInv
<1> USE DEF OrderInv
<1>2. \A m \in Msg : Runnable(m) => m \in Used BY DEF Runnable, Mine, Used
<1>3. CASE UNCHANGED <<pc, receiveVars>> /\ \A m \in Msg : Mine(m)' <=> Mine(m)
  <2>1. CASE pc = "loop" BY <1>1, <1>3, <2>1, Outside DEF receiveVars, ReceiveSteps
  <2>2. CASE pc # "loop" BY <1>1, <1>3, <2>2, Beside
  <2> QED BY <2>1, <2>2
<1>4. CASE Around BY <1>3, <1>4, AroundGrows DEF Around
<1>5. CASE Stop \/ UNCHANGED vars
  BY <1>3, <1>5 DEF Stop, vars, taskVars, streamVars, Mine
<1>6. CASE Sweep BY <1>1, <1>6, Outside DEF Sweep, receiveVars, ReceiveSteps
<1>7. CASE Pass
  <2>1. UNCHANGED <<place, owner>> BY <1>7 DEF Pass, taskVars, streamVars
  <2>2. CASE BeginReceive BY <1>1, <1>2, <2>1, <2>2, BeginOrder DEF Mine
  <2>3. CASE Leave(processed, failed) /\ UNCHANGED receiveVars
    BY <1>1, <2>3, Outside DEF Leave, receiveVars, ReceiveSteps
  <2> QED BY <1>7, <2>2, <2>3 DEF Pass
<1>8. CASE ReadHistory BY <1>1, <1>8, HistoryOrder
<1>9. CASE ReadNew BY <1>1, <1>9, NewOrder
<1>10. CASE WaitRead BY <1>1, <1>10, WaitOrder
<1>11. CASE Drop BY <1>1, <1>11, DropOrder
<1>12. CASE Take BY <1>1, <1>12, TakeOrder
<1>13. CASE WaitOver
  BY <1>1, <1>13, MoveOnOrder DEF WaitOver, Continue, ScanOK
<1>14. CASE TakeOver
  <2>1. ~(at <= NumStreams) => at = NumStreams + 1 BY StreamAssumption DEF RunTypes
  <2> QED BY <1>1, <1>14, <2>1, MoveOnOrder DEF TakeOver, Continue, NextRead
<1>15. CASE Empty \/ Claim \/ Finish \/ CannotRun \/ Error \/ Fault
  <2>1. UNCHANGED history /\ pc' \notin ReceiveSteps \cup {"empty", "claim"}
    BY <1>15 DEF Empty, Claim, Finish, CannotRun, Error, Fault, ReceiveFails, RunFails,
       AckFails, Leave, Raise, Continue, receiveVars, ReceiveSteps
  <2> QED BY <1>1, <2>1, Outside
<1>16. CASE Acknowledge
  <2>1. Remove(cur) /\ cur \in Msg BY <1>16 DEF Acknowledge, InHand, Used
  <2>2. CASE BeginReceive
    <3>1. \A m \in Msg : Mine(m)' => Mine(m)
      BY <2>1 DEF Remove, Mine, Stored, StreamTypeOK
    <3> QED BY <1>1, <1>2, <2>2, <3>1, BeginOrder
  <2>3. CASE ~BeginReceive
    <3>1. UNCHANGED history /\ pc' \notin ReceiveSteps \cup {"empty", "claim"}
      BY <1>16, <2>3 DEF Acknowledge, Leave, Continue, receiveVars, ReceiveSteps
    <3> QED BY <1>1, <3>1, Outside
  <2> QED BY <2>2, <2>3
<1> QED BY <1>4, <1>5, <1>6, <1>7, <1>8, <1>9, <1>10, <1>11, <1>12, <1>13, <1>14,
           <1>15, <1>16 DEF Next, Step, Receive, RunMessage

LEMMA NextHand == OrderInv /\ [Next]_vars => InHand'
<1> SUFFICES ASSUME OrderInv, [Next]_vars PROVE InHand'
  OBVIOUS
<1>1. Grows BY StepGrows DEF OrderInv
<1>2. Used \subseteq Used' BY <1>1 DEF Grows
<1> USE DEF OrderInv
<1>3. CASE UNCHANGED <<pc, batch, cur>> BY <1>2, <1>3 DEF InHand
<1>4. CASE Around \/ Sweep \/ Stop \/ UNCHANGED vars
  BY <1>3, <1>4 DEF Around, Sweep, Stop, vars, receiveVars
<1>5. CASE ReadHistory \/ ReadNew \/ WaitRead
  <2>1. PICK M \in SUBSET Msg : Read(M)
    <3>1. UNION {NextNew(s) : s \in Stream} \subseteq Msg BY NewQueued
    <3> QED BY <1>5, <3>1, HeldMine, NewQueued DEF ReadHistory, ReadNew, WaitRead
  <2>2. pc' = "take" /\ batch' = M /\ \A m \in M : m \in Used'
    BY <2>1, ReadFacts DEF Used
  <2> QED BY <2>2 DEF InHand
<1>6. CASE Drop BY <1>2, <1>6 DEF Drop, InHand
<1>7. CASE Take BY <1>2, <1>7 DEF Take, Continue, FirstOf, InHand
<1>8. CASE Claim BY <1>2, <1>8 DEF Claim, Continue, InHand
<1>9. CASE Finish BY <1>2, <1>9 DEF Finish, Continue, InHand
<1>10. CASE TakeOver BY <1>10 DEF TakeOver, NextRead, Continue, InHand
<1>11. CASE Pass \/ WaitOver \/ Empty \/ CannotRun \/ Error \/ Fault \/ Acknowledge
  <2>1. pc' \in {"history", "empty", "loop", "done", "error"}
    BY <1>11 DEF Pass, WaitOver, Empty, CannotRun, Error, Fault, Acknowledge,
       BeginReceive, ReceiveFails, RunFails, AckFails, Leave, Raise, Continue
  <2> QED BY <2>1 DEF InHand
<1> QED BY <1>4, <1>5, <1>6, <1>7, <1>8, <1>9, <1>10, <1>11
        DEF Next, Step, Receive, RunMessage

LEMMA NextRun == OrderInv /\ [Next]_vars => RunTypes'
<1> SUFFICES ASSUME OrderInv, [Next]_vars PROVE RunTypes'
  OBVIOUS
<1> USE StreamAssumption, WorkerRunAssumption DEF OrderInv, RunTypes
<1>1. 1 \in 1 .. NumStreams + 1 OBVIOUS
<1>2. CASE Around \/ Sweep \/ Stop \/ UNCHANGED vars
  BY <1>2 DEF Around, Sweep, Stop, vars, receiveVars, counters
<1>3. CASE ReadHistory \/ WaitRead
  <2>1. PICK M \in SUBSET Msg : Read(M)
    <3>1. UNION {NextNew(s) : s \in Stream} \subseteq Msg BY NewQueued
    <3> QED BY <1>3, <3>1, HeldMine DEF ReadHistory, WaitRead
  <2> QED BY <1>3, <2>1 DEF ReadHistory, WaitRead, Read, Continue
<1>4. CASE ReadNew
  <2>1. at + 1 \in 1 .. NumStreams + 1 BY <1>4 DEF ReadNew
  <2>2. NextNew(at) \subseteq Msg BY NewQueued
  <2> QED BY <1>4, <2>1, <2>2 DEF ReadNew, Read, Continue
<1>5. CASE Drop BY <1>5 DEF Drop, counters
<1>6. CASE Take BY <1>6 DEF Take, Continue, FirstOf
<1>7. CASE TakeOver
  BY <1>7 DEF TakeOver, NextRead, Continue, receiveVars
<1>8. CASE Claim \/ Finish \/ CannotRun
  BY <1>8 DEF Claim, Finish, CannotRun, Continue, receiveVars
<1>9. CASE Pass BY <1>1, <1>9 DEF Pass, BeginReceive, Leave, ExitCode, Continue, receiveVars
<1>10. CASE WaitOver \/ Empty
  BY <1>10 DEF WaitOver, Empty, Leave, ExitCode, Continue, receiveVars
<1>11. CASE Error BY <1>11 DEF Error, Raise, Leave, ExitCode, Continue, receiveVars
<1>12. CASE Acknowledge
  <2>1. UNCHANGED <<stop, faults>> BY <1>12 DEF Acknowledge
  <2>2. UNCHANGED receiveVars \/ BeginReceive BY <1>12 DEF Acknowledge
  <2>3. pc' # "new" /\ code' \in {"running", "ok", "empty", "failed", "raised"}
    BY <1>12 DEF Acknowledge, BeginReceive, Leave, ExitCode, Continue
  <2> QED BY <1>1, <2>1, <2>2, <2>3 DEF BeginReceive, receiveVars
<1>13. CASE Fault
  BY <1>13 DEF Fault, ReceiveFails, RunFails, AckFails, Leave, ExitCode, Raise,
     Continue, receiveVars
<1> QED BY <1>2, <1>3, <1>4, <1>5, <1>6, <1>7, <1>8, <1>9, <1>10, <1>11, <1>12, <1>13
        DEF Next, Step, Receive, RunMessage

LEMMA OrderKept == OrderInv /\ [Next]_vars => OrderInv'
<1> SUFFICES ASSUME OrderInv, [Next]_vars PROVE OrderInv'
  OBVIOUS
<1>1. CounterTypes' BY TypesKept DEF OrderInv
<1>2. Stored' BY StepGrows DEF OrderInv, Grows
<1> QED BY <1>1, <1>2, NextHand, NextRun, NextOrder DEF OrderInv

LEMMA SpecOrder == Spec => []OrderInv
BY InitOrder, OrderKept, PTL DEF Spec

(* A worker takes what it holds before anything new, and of each the       *)
(* stream of the highest priority: nothing that goes before the message it *)
(* runs was there when the receive began and can still run, but for what a *)
(* message with nothing to run hides (receive).                            *)
THEOREM OrderIsKept == Spec => []PriorityKept
<1>1. OrderInv => PriorityKept BY DEF OrderInv
<1> QED BY <1>1, SpecOrder, PTL

(* A receive that returns nothing has left nothing that waited when it     *)
(* began, but for what a message with nothing to run hides (receive).      *)
THEOREM EmptyIsEmpty == Spec => []EmptyMeansEmpty
<1>1. OrderInv => EmptyMeansEmpty
  <2> SUFFICES ASSUME OrderInv, pc = "empty", NEW n \in offered, Runnable(n)
               PROVE  Hidden(n)
    BY DEF EmptyMeansEmpty
  <2> USE DEF OrderInv
  <2>1. n \in Used /\ entry[n] \in Task BY DEF Seen, Stored
  <2>2. StreamOf[entry[n]] \in 1 .. NumStreams BY <2>1, StreamAssumption DEF Stream
  <2>3. ~Coming(n) BY <2>2, StreamAssumption DEF Coming, ScanOK
  <2> QED BY <2>3 DEF NoneMissed, Serving
<1> QED BY <1>1, SpecOrder, PTL

(* The types and the bounds: the stream read next is one there is.         *)
THEOREM TypesHold == Spec => []TypeOK
<1>1. OrderInv => TypeOK
  BY DEF OrderInv, CounterTypes, Stored, RunTypes, Seen, Used, Statuses, Outcome, TypeOK
<1> QED BY <1>1, SpecOrder, PTL

=============================================================================
