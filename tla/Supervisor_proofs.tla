-------------------------- MODULE Supervisor_proofs --------------------------
(***************************************************************************)
(* For any number of workers, however often they die, are added, removed   *)
(* or restarted: the supervisor leaves no process behind, loses no slot,   *)
(* interrupts no task unless it was told to, and its exit code tells what  *)
(* its workers ran.                                                        *)
(***************************************************************************)
EXTENDS Supervisor, FiniteSetTheorems, WellFoundedInduction, TLAPS

Early == {"top", "add", "retire", "reap", "start", "wait", "stop"}
Late == {"stopping", "nap", "kill", "bury"}
Passes == {"reap", "start", "stopping", "bury"}

Combined == CombineExitCodes(exitCodes)

(* Where run() is, and what it has been told.                              *)
LoopInv ==
    /\ phase \notin Passes => todo = {}
    /\ phase \in Late \cup {"stop"} => ShutdownSet
    /\ raised => ShutdownSet /\ phase \in Late \cup {"stop", "finish", "raised"}
    /\ ~raised => requests <= MaxRequests
    /\ phase = "bury" => forced
    /\ forced => ShutdownSet /\ phase \in Final \cup {"bury"}
    /\ phase = "kill" => requests > 1 \/ deadline = 0
    /\ Graceful /\ ShutdownTimeout = 0 => deadline = Never
    /\ phase = "done" => result = IF forced THEN ForcedExit ELSE Combined

(* A process that lives is that of one slot of the list.                   *)
SlotInv ==
    /\ listed \subseteq 1 .. nextIndex - 1
    /\ \A i \in Index : i >= nextIndex => slot[i] = NewSlot
    /\ \A i \in Index : Running(i) => i \in listed /\ slot[i].started
                                      /\ slot[i].pid < nextPid
                                      /\ child[slot[i].pid].st # "unborn"
    /\ \A i, j \in Index : (Running(i) /\ slot[i].pid = slot[j].pid) => i = j
    /\ \A p \in Pid : p >= nextPid => child[p].st = "unborn"
    /\ \A p \in Pid : Alive(p) => \E i \in listed : slot[i].pid = p
    /\ \A i \in listed : slot[i].retiring => Running(i) \/ phase \in Final \cup {"bury"}
    /\ phase \in Final \cup {"bury"} => \A p \in Pid : ~Alive(p)
    /\ phase \in Final => ~AnyRunning
    /\ phase = "bury" => \A i \in listed : Running(i) <=> i \in todo

(* Who was asked to stop.                                                  *)
AskedInv ==
    /\ (Graceful /\ Forwarded)
          => \A p \in Pid : Alive(p) => child[p].hits > 0 \/ child[p].st = "leaving"
    /\ phase \in Early
          => \A i \in Index : (Running(i) /\ ~slot[i].retiring) => child[slot[i].pid].hits = 0
    /\ -1 \notin ScaleSteps => pending >= 0 /\ \A i \in Index : ~slot[i].retiring

(* The exits that a restart answers, and those that it will.               *)
Out == {"leaving", "dead"}
Owed == {i \in Index : /\ slot[i].started /\ ~slot[i].retiring
                       /\ IF Running(i) THEN child[slot[i].pid].st \in Out
                                        ELSE i \in listed /\ slot[i].wait # Never}
Begun == {i \in Index : slot[i].started}
Odd == {k \in DOMAIN exitCodes : exitCodes[k] \notin {0, EmptyCode}}
Broken == {i \in Index : ~Running(i) /\ slot[i].abnormal}

(* Each bound of the model, from what it is paid with.                     *)
CountInv ==
    /\ nextIndex >= Workers + 1
    /\ nextIndex - (Workers + 1) + pending <= scaled
    /\ nextIndex - (Workers + 1) - pending <= scaled
    /\ \A i \in Index : slot[i].failures <= deaths
    /\ phase \in Early
          => \A i \in Index :
                (Running(i) /\ ~slot[i].retiring /\ child[slot[i].pid].st \in Out)
                    => slot[i].failures < deaths
    /\ restarts[1] <= deaths /\ restarts[2] <= restarts[1]
    /\ phase \in Early => restarts[1] + Cardinality(Owed) <= deaths
    /\ restarts[1] + Cardinality(Begun) = nextPid - 1

AbnormalInv ==
    /\ restarts[2] <= Cardinality(Odd)
    /\ phase \in Early => restarts[2] + Cardinality(Broken) <= Cardinality(Odd)

CapacityInv ==
    /\ Active # {}
    /\ (Restart /\ phase \in Early /\ ~ShutdownSet)
          => \A i \in Active : Running(i) \/ slot[i].wait # Never

(* The codes that tell of a run with this outcome.                         *)
Tells(o) == {WorkerExitCode(o)} \cup (IF -1 \in ScaleSteps THEN {0, -Sigterm} ELSE {})

(* A process in one of the states S has one of these codes, or had.        *)
Seen(codes, S) ==
    \/ \E i \in Index : /\ Running(i) /\ child[slot[i].pid].st \in S
                        /\ child[slot[i].pid].code \in codes
    \/ \E k \in DOMAIN exitCodes : exitCodes[k] \in codes

HistoryInv ==
    /\ Graceful => "stopped" \notin history
    /\ "killed" \in history => forced
    /\ (Graceful /\ history \cap {"crash", "forced"} # {})
          => Seen(CrashCodes \cup {ForcedExit}, {"dead"})
    /\ requests = 0 => \A o \in history \cap Outcomes : Seen(Tells(o), Out)

SupervisorInv ==
    /\ TypeOK /\ LoopInv /\ SlotInv /\ AskedInv /\ CountInv /\ AbnormalInv
    /\ CapacityInv /\ HistoryInv /\ InterruptsNothing

-----------------------------------------------------------------------------
(* Numbers, sets and the settings                                          *)

(* A set of natural numbers has a least one, a bounded one a greatest.     *)
LEMMA LeastExists ==
    ASSUME NEW S \in SUBSET Nat, S # {}
    PROVE  \E x \in S : \A y \in S : x <= y
<1>1. IsWellFoundedOn(OpToRel(<, Nat), Nat)
  BY NatLessThanWellFounded
<1>2. PICK x \in S : \A y \in S : ~(<<y, x>> \in OpToRel(<, Nat))
  BY <1>1, WFMin
<1>3. \A y \in S : ~(y < x)
  BY <1>2 DEF OpToRel
<1> QED BY <1>3

LEMMA MinIsIn == ASSUME NEW S \in SUBSET Nat, S # {} PROVE Min(S) \in S
BY LeastExists DEF Min

LEMMA MaxIsIn ==
    ASSUME NEW n \in Nat, NEW S \in SUBSET (1 .. n), S # {}
    PROVE  Max(S) \in S
<1> DEFINE T == {t \in Nat : n - t \in S}
<1>1. \A x \in S : x \in 1 .. n /\ n - (n - x) = x /\ n - x \in Nat OBVIOUS
<1>2. \A x \in S : n - x \in T BY <1>1
<1>3. T \in SUBSET Nat OBVIOUS
<1>4. T # {} BY <1>2
<1> HIDE DEF T
<1>5. PICK t \in T : \A u \in T : t <= u BY <1>3, <1>4, LeastExists
<1>6. t \in Nat /\ n - t \in S BY DEF T
<1>7. \A y \in S : n - t >= y
  <2> TAKE y \in S
  <2>1. t <= n - y BY <1>2, <1>5
  <2> QED BY <1>1, <1>6, <2>1
<1> QED BY <1>6, <1>7 DEF Max

(* The delay doubles from one number to the next (_restart_delay).         *)
DoublesTo(n, f) ==
    /\ f \in [0 .. n -> Nat] /\ f[0] = BackoffStart
    /\ \A k \in 1 .. n : f[k] = 2 * f[k - 1]

LEMMA DoublingExists == \A n \in Nat : \E f : DoublesTo(n, f)
<1> DEFINE Bad == {m \in Nat : ~\E f : DoublesTo(m, f)}
<1>1. SUFFICES ASSUME Bad # {} PROVE FALSE OBVIOUS
<1> HIDE DEF Bad
<1>2. PICK m \in Bad : \A l \in Bad : m <= l
  <2>1. Bad \in SUBSET Nat BY DEF Bad
  <2> QED BY <1>1, <2>1, LeastExists
<1>3. m \in Nat /\ ~\E f : DoublesTo(m, f) BY DEF Bad
<1>4. CASE m = 0
  <2>1. DoublesTo(0, [k \in 0 .. 0 |-> BackoffStart]) BY SupervisorAssumption DEF DoublesTo
  <2> QED BY <2>1, <1>3, <1>4
<1>5. CASE m # 0
  <2>1. m - 1 \in Nat /\ ~(m <= m - 1) BY <1>3, <1>5
  <2>2. m - 1 \notin Bad BY <2>1, <1>2
  <2>3. PICK f : DoublesTo(m - 1, f) BY <2>1, <2>2 DEF Bad
  <2>4. f[m - 1] \in Nat BY <2>1, <2>3 DEF DoublesTo
  <2> DEFINE g == [k \in 0 .. m |-> IF k = m THEN 2 * f[m - 1] ELSE f[k]]
  <2>5. \A k \in 0 .. m : k # m => k \in 0 .. m - 1 BY <1>3
  <2>6. g \in [0 .. m -> Nat] BY <2>3, <2>4, <2>5 DEF DoublesTo
  <2>7. g[0] = BackoffStart BY <2>3, <1>3, <1>5 DEF DoublesTo
  <2>8. ASSUME NEW k \in 1 .. m PROVE g[k] = 2 * g[k - 1]
    <3>1. k - 1 \in 0 .. m /\ k - 1 # m /\ k \in 0 .. m BY <1>3
    <3>2. g[k - 1] = f[k - 1] BY <3>1
    <3>3. CASE k = m BY <3>1, <3>2, <3>3
    <3>4. CASE k # m
      <4>1. k \in 1 .. m - 1 BY <1>3, <3>4
      <4> QED BY <4>1, <3>1, <3>2, <3>4, <2>3 DEF DoublesTo
    <3> QED BY <3>3, <3>4
  <2> HIDE DEF g
  <2>9. DoublesTo(m, g) BY <2>6, <2>7, <2>8 DEF DoublesTo
  <2> QED BY <2>9, <1>3
<1> QED BY <1>4, <1>5

LEMMA DoublingUnique ==
    ASSUME NEW m \in Nat, NEW n \in Nat, m <= n, NEW f, NEW g,
           DoublesTo(m, f), DoublesTo(n, g)
    PROVE  f[m] = g[m]
<1> DEFINE Bad == {k \in 0 .. m : f[k] # g[k]}
<1>1. SUFFICES ASSUME Bad # {} PROVE FALSE OBVIOUS
<1> HIDE DEF Bad
<1>2. PICK k \in Bad : \A l \in Bad : k <= l
  <2>1. Bad \in SUBSET Nat BY DEF Bad
  <2> QED BY <1>1, <2>1, LeastExists
<1>3. k \in 0 .. m /\ f[k] # g[k] BY DEF Bad
<1>4. CASE k = 0 BY <1>3, <1>4 DEF DoublesTo
<1>5. CASE k # 0
  <2>1. k - 1 \in 0 .. m /\ ~(k <= k - 1) /\ k \in 1 .. m /\ k \in 1 .. n BY <1>3, <1>5
  <2>2. f[k - 1] = g[k - 1] BY <2>1, <1>2 DEF Bad
  <2> QED BY <2>1, <2>2, <1>3 DEF DoublesTo
<1> QED BY <1>4, <1>5

LEMMA DoubledFunction ==
    Doubled = [n \in Nat |-> IF n = 0 THEN BackoffStart ELSE 2 * Doubled[n - 1]]
<1> DEFINE F == [n \in Nat |-> (CHOOSE f : DoublesTo(n, f))[n]]
<1>1. \A n \in Nat : DoublesTo(n, CHOOSE f : DoublesTo(n, f)) BY DoublingExists
<1>2. ASSUME NEW n \in Nat PROVE F[n] = IF n = 0 THEN BackoffStart ELSE 2 * F[n - 1]
  <2> DEFINE f == CHOOSE f : DoublesTo(n, f)
             h == CHOOSE h : DoublesTo(n - 1, h)
  <2>1. DoublesTo(n, f) BY <1>1
  <2>2. CASE n = 0 BY <2>1, <2>2 DEF DoublesTo
  <2>3. CASE n # 0
    <3>1. n - 1 \in Nat /\ n - 1 <= n /\ n \in 1 .. n BY <2>3
    <3>2. DoublesTo(n - 1, h) BY <3>1, <1>1
    <3> HIDE DEF f, h
    <3>3. h[n - 1] = f[n - 1] BY <3>1, <3>2, <2>1, DoublingUnique
    <3>4. f[n] = 2 * f[n - 1] BY <3>1, <2>1 DEF DoublesTo
    <3>5. F[n] = f[n] /\ F[n - 1] = h[n - 1] BY <3>1 DEF f, h
    <3> QED BY <3>3, <3>4, <3>5, <2>3
  <2> QED BY <2>2, <2>3
<1>3. F = [n \in Nat |-> F[n]] OBVIOUS
<1> HIDE DEF F
<1>4. F = [n \in Nat |-> IF n = 0 THEN BackoffStart ELSE 2 * F[n - 1]] BY <1>2, <1>3
<1> QED BY <1>4 DEF Doubled

LEMMA DoubledType == \A n \in Nat : Doubled[n] \in Nat
<1> DEFINE Bad == {n \in Nat : Doubled[n] \notin Nat}
<1>1. SUFFICES ASSUME Bad # {} PROVE FALSE OBVIOUS
<1> HIDE DEF Bad
<1>2. PICK m \in Bad : \A l \in Bad : m <= l
  <2>1. Bad \in SUBSET Nat BY DEF Bad
  <2> QED BY <1>1, <2>1, LeastExists
<1>3. m \in Nat /\ Doubled[m] \notin Nat BY DEF Bad
<1>4. Doubled[m] = IF m = 0 THEN BackoffStart ELSE 2 * Doubled[m - 1]
  BY <1>3, DoubledFunction
<1>5. CASE m = 0 BY <1>3, <1>4, <1>5, SupervisorAssumption
<1>6. CASE m # 0
  <2>1. m - 1 \in Nat /\ ~(m <= m - 1) BY <1>3, <1>6
  <2>2. Doubled[m - 1] \in Nat BY <2>1, <1>2 DEF Bad
  <2> QED BY <2>2, <1>3, <1>4, <1>6
<1> QED BY <1>5, <1>6

(* The delay of a restart is between zero and its ceiling.                 *)
LEMMA DelayType == \A n \in Nat : RestartDelay(n) \in 0 .. BackoffMax
<1> TAKE n \in Nat
<1>1. CASE n = 0 BY <1>1, SupervisorAssumption DEF RestartDelay
<1>2. CASE n # 0
  <2>1. n - 1 \in Nat BY <1>2
  <2>2. Doubled[n - 1] \in Nat BY <2>1, DoubledType
  <2> QED BY <2>2, <1>2, SupervisorAssumption DEF RestartDelay, Lesser
<1> QED BY <1>1, <1>2

LEMMA SetupTypes ==
    ASSUME setup \in Setups
    PROVE  /\ Workers \in Nat \ {0} /\ ShutdownTimeout \in Nat
           /\ MaxDeaths \in Nat /\ MaxScale \in Nat /\ MaxRequests \in Nat
           /\ Workers + MaxScale <= MaxSlots
           /\ Workers + MaxScale + MaxDeaths <= MaxPids
           /\ Restart \in BOOLEAN /\ Graceful \in BOOLEAN
           /\ EmptyCode \in 0 .. 255 /\ FailedCode \in 0 .. 255
           /\ Outcomes \subseteq {"idle", "ok", "failed", "unable"}
           /\ ScaleSteps \subseteq {1, -1}
<1>1. setup \in Setup BY SupervisorAssumption
<1>2. /\ setup.workers + setup.maxScale <= MaxSlots
      /\ setup.workers + setup.maxScale + setup.maxDeaths <= MaxPids
  BY SupervisorAssumption
<1> QED BY <1>1, <1>2 DEF Setup, Workers, ShutdownTimeout, MaxDeaths, MaxScale, MaxRequests,
     Restart, Graceful, EmptyCode, FailedCode, Outcomes, ScaleSteps

(* How the command was called stays the same, and what follows from it.    *)
SetupKept ==
    /\ Workers' = Workers /\ Restart' = Restart /\ Graceful' = Graceful
    /\ ShutdownTimeout' = ShutdownTimeout /\ EmptyCode' = EmptyCode
    /\ FailedCode' = FailedCode /\ Outcomes' = Outcomes /\ ScaleSteps' = ScaleSteps
    /\ SpawnMayFail' = SpawnMayFail /\ MaxDeaths' = MaxDeaths
    /\ MaxScale' = MaxScale /\ MaxRequests' = MaxRequests
    /\ Codes' = Codes /\ Child' = Child /\ Slot' = Slot
    /\ \A o : WorkerExitCode(o)' = WorkerExitCode(o) /\ Tells(o)' = Tells(o)

LEMMA SetupSame == setup' = setup => SetupKept
BY DEF SetupKept, Workers, Restart, Graceful, ShutdownTimeout, EmptyCode, FailedCode,
   Outcomes, ScaleSteps, SpawnMayFail, MaxDeaths, MaxScale, MaxRequests, Codes, Child,
   Slot, WorkerExitCode, Tells

LEMMA CombinedSame == setup' = setup /\ exitCodes' = exitCodes => Combined' = Combined
BY DEF Combined, CombineExitCodes, EmptyCode, FailedCode

LEMMA IndexFinite == IsFiniteSet(Index) /\ \A S \in SUBSET Index : IsFiniteSet(S)
<1>1. MaxSlots \in Nat BY SupervisorAssumption
<1>2. IsFiniteSet(1 .. MaxSlots) BY <1>1, FS_Interval
<1> QED BY <1>2, FS_Subset DEF Index

(* One more element at most counts one more.                               *)
LEMMA OneMoreCounts ==
    ASSUME NEW S, NEW T, NEW x, IsFiniteSet(S), T \subseteq S \cup {x}
    PROVE  /\ Cardinality(T) \in Nat /\ Cardinality(S) \in Nat
           /\ Cardinality(T) <= Cardinality(S) + 1
<1>0. Cardinality(S) \in Nat BY FS_CardinalityType
<1>1. IsFiniteSet(S \cup {x}) /\ Cardinality(S \cup {x}) <= Cardinality(S) + 1
  BY <1>0, FS_AddElement
<1>2. IsFiniteSet(T) /\ Cardinality(T) <= Cardinality(S \cup {x}) BY <1>1, FS_Subset
<1> QED BY <1>0, <1>1, <1>2, FS_CardinalityType

LEMMA FewerCount ==
    ASSUME NEW S, NEW T, IsFiniteSet(S), T \subseteq S
    PROVE  /\ Cardinality(T) \in Nat /\ Cardinality(S) \in Nat
           /\ Cardinality(T) <= Cardinality(S)
BY FS_Subset, FS_CardinalityType

-----------------------------------------------------------------------------
(* The children                                                            *)

(* What every step of a child that lives has in common.                    *)
ChildChange(p, c) ==
    /\ Alive(p) /\ c \in Child /\ c.st # "unborn" /\ c.hits = child[p].hits
    /\ child[p].st \in Out => c.st \in Out
    /\ child' = [child EXCEPT ![p] = c]
    /\ deaths' \in deaths .. MaxDeaths
    /\ (c.st \in Out /\ child[p].st \notin Out /\ c.hits = 0) => deaths' = deaths + 1
    /\ UNCHANGED <<setup, loopVars, slotVars, askVars, pending, exitCodes, countVars>>

LEMMA ChildKeeps ==
    ASSUME SupervisorInv, NEW p \in Pid, NEW c, ChildChange(p, c),
           history' \subseteq Endings \cup Outcomes
    PROVE  /\ TypeOK' /\ LoopInv' /\ SlotInv' /\ AskedInv' /\ CountInv' /\ AbnormalInv'
           /\ CapacityInv'
<1> USE DEF ChildChange, loopVars, slotVars, askVars, countVars, SetupKept
<1>0. TypeOK /\ SlotInv /\ CountInv /\ AskedInv BY DEF SupervisorInv
<1>1. SetupKept BY SetupSame
<1>2. c \in Child /\ \A q \in Pid : child'[q] = IF q = p THEN c ELSE child[q]
  BY <1>0 DEF TypeOK
<1>3. /\ \A i : slot'[i] = slot[i] /\ (Running(i)' <=> Running(i))
      /\ \A i \in Index : slot[i].pid \in Pid \cup {0} /\ slot[i].failures \in Nat
      /\ \A i \in Index : Running(i) => slot[i].pid \in Pid
  BY <1>0 DEF TypeOK, Running, Slot
<1>4. \A q \in Pid : Alive(q)' => Alive(q)
  BY <1>2 DEF Alive, Child
<1>5. deaths \in Nat /\ deaths' \in Nat /\ deaths <= deaths'
  BY <1>0 DEF TypeOK
<1>6. TypeOK'
  <2>1. child' \in [Pid -> Child] BY <1>0, <1>2 DEF TypeOK
  <2>2. deaths' \in 0 .. MaxDeaths BY <1>0, <1>5 DEF TypeOK
  <2> QED BY <1>0, <1>1, <2>1, <2>2 DEF TypeOK
<1>7. LoopInv'
  BY <1>1, CombinedSame DEF SupervisorInv, LoopInv, ShutdownSet
<1>8. SlotInv'
  <2>1. \A q \in Pid : q >= nextPid => child'[q].st = "unborn"
    BY <1>0, <1>2 DEF SlotInv, Alive
  <2>2. \A i \in Index : Running(i) => child'[slot[i].pid].st # "unborn"
    BY <1>0, <1>2, <1>3 DEF SlotInv
  <2> QED BY <1>0, <1>3, <1>4, <2>1, <2>2 DEF SlotInv, AnyRunning
<1>9. AskedInv'
  <2>1. \A q \in Pid : child'[q].hits = child[q].hits BY <1>2
  <2>2. \A q \in Pid : Alive(q)' /\ child[q].st = "leaving" => child'[q].st = "leaving"
    BY <1>2 DEF Alive, Out
  <2> QED BY <1>0, <1>1, <1>3, <1>4, <2>1, <2>2 DEF AskedInv, Forwarded
<1>10. PICK j \in Index : slot[j].pid = p
  BY <1>0 DEF SlotInv, TypeOK
<1>11. Running(j) /\ \A i \in Index : (Running(i) /\ slot[i].pid = p) => i = j
  BY <1>0, <1>10 DEF SlotInv, Running, Pid
<1>12. CountInv'
  <2>1. phase \in Early => /\ restarts[1] + Cardinality(Owed)' <= deaths'
                           /\ \A i \in Index :
                                 (Running(i) /\ ~slot[i].retiring /\ child'[slot[i].pid].st \in Out)
                                     => slot[i].failures < deaths'
    <3> SUFFICES ASSUME phase \in Early
                 PROVE  /\ restarts[1] + Cardinality(Owed)' <= deaths'
                        /\ \A i \in Index :
                              (Running(i) /\ ~slot[i].retiring /\ child'[slot[i].pid].st \in Out)
                                  => slot[i].failures < deaths'
      OBVIOUS
    <3>1. restarts[1] \in Nat /\ IsFiniteSet(Owed) /\ Cardinality(Owed) \in Nat
      BY <1>0, IndexFinite, FS_CardinalityType DEF TypeOK, Owed
    <3>2. \A i \in Index \ {j} : Running(i) => child'[slot[i].pid] = child[slot[i].pid]
      BY <1>2, <1>3, <1>11
    <3>3. Owed' \subseteq Owed \cup {j}
      BY <1>3, <3>2 DEF Owed
    <3>4. CASE deaths' = deaths + 1
      <4>1. Cardinality(Owed') <= Cardinality(Owed) + 1 /\ Cardinality(Owed') \in Nat
        BY <3>1, <3>3, OneMoreCounts
      <4>2. Cardinality(Owed)' = Cardinality(Owed') OBVIOUS
      <4>3. restarts[1] + Cardinality(Owed') <= deaths'
        BY <1>0, <3>1, <3>4, <4>1, <1>5 DEF CountInv
      <4>4. \A i \in Index : slot[i].failures <= deaths /\ slot[i].failures < deaths'
        BY <1>0, <1>3, <1>5, <3>4 DEF CountInv
      <4> QED BY <4>2, <4>3, <4>4
    <3>5. CASE deaths' # deaths + 1
      <4>1. ~slot[j].retiring => child[p].hits = 0 BY <1>0, <1>10, <1>11 DEF AskedInv
      <4>2. ~slot[j].retiring /\ c.st \in Out => child[p].st \in Out BY <4>1, <3>5
      <4>3. Owed' \subseteq Owed BY <1>2, <1>3, <1>10, <1>11, <3>2, <4>2 DEF Owed
      <4>4. Cardinality(Owed') <= Cardinality(Owed) /\ Cardinality(Owed') \in Nat
        BY <3>1, <4>3, FewerCount
      <4>5. restarts[1] + Cardinality(Owed') <= deaths'
        BY <1>0, <3>1, <4>4, <1>5 DEF CountInv
      <4>6. \A i \in Index : (Running(i) /\ ~slot[i].retiring /\ child'[slot[i].pid].st \in Out)
                                  => child[slot[i].pid].st \in Out
        BY <1>2, <1>10, <1>11, <3>2, <4>2
      <4>7. \A i \in Index : (Running(i) /\ ~slot[i].retiring /\ child'[slot[i].pid].st \in Out)
                                  => slot[i].failures < deaths'
        BY <1>0, <1>3, <1>5, <4>6 DEF CountInv
      <4> QED BY <4>5, <4>7
    <3> QED BY <3>4, <3>5
  <2>2. Begun' = Begun BY DEF Begun
  <2> QED BY <1>0, <1>1, <1>3, <1>5, <2>1, <2>2 DEF CountInv, TypeOK
<1>13. AbnormalInv'
  BY <1>1, <1>3 DEF SupervisorInv, AbnormalInv, Odd, Broken
<1>14. CapacityInv'
  BY <1>1, <1>3 DEF SupervisorInv, CapacityInv, Active, ShutdownSet
<1> QED BY <1>6, <1>7, <1>8, <1>9, <1>12, <1>13, <1>14

(* What is recorded of a child that ends shows in the code it leaves.      *)
Recorded(p, c, how) ==
    /\ child[p].st = "leaving" => c.code = child[p].code
    /\ \/ history' = history
       \/ /\ history' = history \cup {how}
          /\ \/ how \in {"crash", "forced"} /\ c.st = "dead"
                /\ c.code \in CrashCodes \cup {ForcedExit}
             \/ how \in Outcomes /\ c.st \in Out /\ c.code \in Tells(how)

LEMMA ChildHistory ==
    ASSUME SupervisorInv, NEW p \in Pid, NEW c, ChildChange(p, c), NEW how, Recorded(p, c, how)
    PROVE  HistoryInv'
<1> USE DEF ChildChange, loopVars, slotVars, askVars, countVars, SetupKept
<1>0. TypeOK /\ SlotInv /\ HistoryInv BY DEF SupervisorInv
<1>1. SetupKept BY SetupSame
<1>2. \A q \in Pid : child'[q] = IF q = p THEN c ELSE child[q] BY <1>0 DEF TypeOK
<1>3. /\ \A i \in Index : slot'[i] = slot[i] /\ (Running(i)' <=> Running(i))
      /\ \A i \in Index : Running(i) => slot[i].pid \in Pid
  BY <1>0 DEF TypeOK, Running, Slot
<1>4. PICK j \in Index : slot[j].pid = p /\ Running(j)
  BY <1>0 DEF SlotInv, TypeOK, Running, Pid
<1>5. \A codes : Seen(codes, {"dead"}) => Seen(codes, {"dead"})'
  BY <1>2, <1>3 DEF Seen, Alive
<1>6. \A codes : Seen(codes, Out) => Seen(codes, Out)'
  BY <1>2, <1>3 DEF Seen, Alive, Out, Recorded
<1>7. \A codes : (c.st = "dead" /\ c.code \in codes) => Seen(codes, {"dead"})'
  BY <1>2, <1>3, <1>4 DEF Seen
<1>8. \A codes : (c.st \in Out /\ c.code \in codes) => Seen(codes, Out)'
  BY <1>2, <1>3, <1>4 DEF Seen
<1>9. Outcomes \subseteq {"idle", "ok", "failed", "unable"}
  BY <1>0, SetupTypes DEF TypeOK
<1>10. CASE history' = history
  BY <1>0, <1>1, <1>5, <1>6, <1>10 DEF HistoryInv
<1>11. ASSUME history' = history \cup {how}, how \in {"crash", "forced"}, c.st = "dead",
              c.code \in CrashCodes \cup {ForcedExit}
       PROVE  HistoryInv'
  <2>1. Seen(CrashCodes \cup {ForcedExit}, {"dead"})' BY <1>7, <1>11
  <2>2. history' \cap Outcomes = history \cap Outcomes BY <1>9, <1>11
  <2> QED BY <1>0, <1>1, <1>6, <1>11, <2>1, <2>2 DEF HistoryInv
<1>12. ASSUME history' = history \cup {how}, how \in Outcomes, c.st \in Out,
              c.code \in Tells(how)
       PROVE  HistoryInv'
  <2>1. Seen(Tells(how), Out)' BY <1>1, <1>2, <1>3, <1>4, <1>12 DEF Seen
  <2>2. how \notin Endings BY <1>9, <1>12 DEF Endings
  <2> QED BY <1>0, <1>1, <1>5, <1>6, <1>12, <2>1, <2>2 DEF HistoryInv, Endings
<1> QED BY <1>10, <1>11, <1>12 DEF Recorded

LEMMA ChildActs == ASSUME SupervisorInv, ChildStep PROVE SupervisorInv'
<1> USE DEF loopVars, slotVars, askVars, countVars
<1>0. /\ TypeOK /\ SetupKept
      /\ UNCHANGED <<setup, loopVars, slotVars, askVars, pending, exitCodes, countVars>>
  BY SetupSame DEF ChildStep, SupervisorInv
<1>1. /\ Graceful /\ ShutdownTimeout = 0 => ~\E p \in Pid : ChildTimesOut(p)
      /\ InterruptsNothing
  BY <1>0, SetupTypes DEF TypeOK, ChildTimesOut, SupervisorInv
<1>2. \A p \in Pid : child[p] \in Child BY <1>0 DEF TypeOK
<1>3. deaths \in 0 .. MaxDeaths /\ MaxDeaths \in Nat BY <1>0, SetupTypes DEF TypeOK
<1>4. history \subseteq Endings \cup Outcomes BY <1>0 DEF TypeOK
<1> DEFINE Does(p, c, how) ==
               /\ ChildChange(p, c) /\ Recorded(p, c, how)
               /\ Graceful /\ ShutdownTimeout = 0 => how # "forced"
<1>5. SUFFICES \E p \in Pid : \E c, how : Does(p, c, how)
  <2>1. PICK p \in Pid : \E c, how : Does(p, c, how) OBVIOUS
  <2>2. PICK c, how : Does(p, c, how) BY <2>1
  <2>3. history' \subseteq Endings \cup Outcomes BY <2>2, <1>0, <1>4 DEF Recorded, Endings, SetupKept
  <2>4. HistoryInv' BY <2>2, ChildHistory
  <2>5. InterruptsNothing'
    <3>1. Outcomes \subseteq {"idle", "ok", "failed", "unable"} BY <1>0, SetupTypes DEF TypeOK
    <3> QED BY <1>0, <1>1, <2>2, <3>1 DEF InterruptsNothing, SetupKept, Recorded
  <2> QED BY <2>2, <2>3, <2>4, <2>5, ChildKeeps DEF SupervisorInv
<1>6. PICK p \in Pid :
          \/ ChildReady(p) \/ ChildTakes(p) \/ ChildFinishes(p)
          \/ ChildLeaves(p) \/ ChildExits(p) \/ ChildCrashes(p) \/ ChildTimesOut(p)
  BY DEF ChildStep
<1>7. ASSUME NEW from, NEW to, ChildMoves(p, from, to),
             from \in {"starting", "idle", "busy", "leaving"},
             \/ to \in {"idle", "busy"} /\ from # "leaving"
             \/ to = "dead" /\ from = "leaving"
      PROVE  /\ ChildChange(p, [child[p] EXCEPT !.st = to]) /\ history' = history
             /\ [child[p] EXCEPT !.st = to].code = child[p].code
  BY <1>0, <1>2, <1>3, <1>7 DEF ChildMoves, ChildChange, Alive, Out, Child
<1>8. CASE ChildReady(p) \/ ChildTakes(p) \/ ChildFinishes(p) \/ ChildExits(p)
  <2>1. \E from, to :
            /\ ChildMoves(p, from, to) /\ from \in {"starting", "idle", "busy", "leaving"}
            /\ \/ to \in {"idle", "busy"} /\ from # "leaving"
               \/ to = "dead" /\ from = "leaving"
    BY <1>8 DEF ChildReady, ChildTakes, ChildFinishes, ChildExits
  <2>2. PICK c : ChildChange(p, c) /\ history' = history /\ c.code = child[p].code
    BY <2>1, <1>7
  <2>3. Recorded(p, c, "none") BY <2>2 DEF Recorded
  <2> QED BY <2>2, <2>3
<1>9. CASE ChildLeaves(p)
  <2>1. PICK o \in Outcomes :
            /\ child' = [child EXCEPT ![p].st = "leaving", ![p].code = WorkerExitCode(o)]
            /\ history' = history \cup {o}
    BY <1>9 DEF ChildLeaves
  <2> DEFINE c == [child[p] EXCEPT !.st = "leaving", !.code = WorkerExitCode(o)]
  <2>2. WorkerExitCode(o) \in Codes BY DEF WorkerExitCode, Codes
  <2>3. c \in Child /\ c.st = "leaving" /\ c.hits = child[p].hits /\ c.code = WorkerExitCode(o)
    BY <1>2, <2>2 DEF Child
  <2>4. child' = [child EXCEPT ![p] = c] BY <2>1
  <2> HIDE DEF c
  <2>5. ChildChange(p, c)
    <3>1. /\ deaths' \in deaths .. MaxDeaths /\ child[p].st = "idle"
          /\ child[p].hits = 0 => deaths' = deaths + 1
      BY <1>3, <1>9 DEF ChildLeaves
    <3> QED BY <1>0, <2>3, <2>4, <3>1 DEF ChildChange, Alive, Out
  <2>6. o # "forced" BY <1>0, SetupTypes DEF TypeOK
  <2>7. c.code \in Tells(o) /\ c.st \in Out BY <2>3 DEF Tells, Out
  <2>8. child[p].st # "leaving" BY <1>9 DEF ChildLeaves
  <2> QED BY <2>1, <2>5, <2>6, <2>7, <2>8 DEF Recorded
<1>10. CASE ChildCrashes(p)
  <2>1. PICK code \in CrashCodes : Ends(p, code, "crash") BY <1>10 DEF ChildCrashes
  <2>2. code \in Codes BY DEF Codes
  <2>3. /\ Died(child[p], code) \in Child /\ Died(child[p], code).st = "dead"
        /\ Died(child[p], code).hits = child[p].hits /\ Died(child[p], code).code = code
    BY <1>2, <2>2 DEF Child, Died
  <2>4. ChildChange(p, Died(child[p], code))
    <3>1. /\ deaths' \in deaths .. MaxDeaths /\ deaths' = deaths + 1
          /\ child[p].st \in {"starting", "idle", "busy"}
      BY <1>3, <1>10 DEF ChildCrashes
    <3> QED BY <1>0, <2>1, <2>3, <3>1 DEF ChildChange, Alive, Out, Ends
  <2>5. child[p].st # "leaving" BY <1>10 DEF ChildCrashes
  <2> QED BY <2>1, <2>3, <2>4, <2>5 DEF Ends, Recorded
<1>11. CASE ChildTimesOut(p)
  <2>1. /\ Died(child[p], ForcedExit) \in Child /\ Died(child[p], ForcedExit).st = "dead"
        /\ Died(child[p], ForcedExit).hits = child[p].hits
        /\ Died(child[p], ForcedExit).code = ForcedExit
    BY <1>2 DEF Child, Died, Codes
  <2>2. child[p].hits # 0 BY <1>11 DEF ChildTimesOut
  <2>3. ChildChange(p, Died(child[p], ForcedExit))
    BY <1>0, <1>3, <1>11, <2>1, <2>2 DEF ChildChange, ChildTimesOut, Alive, Out, Ends
  <2>4. child[p].st # "leaving"
    BY <1>11 DEF ChildTimesOut
  <2>5. ShutdownTimeout > 0
    BY <1>11 DEF ChildTimesOut
  <2>6. ShutdownTimeout # 0
    BY <2>5
  <2> QED BY <1>11, <2>1, <2>3, <2>4, <2>6 DEF ChildTimesOut, Ends, Recorded
<1> QED BY <1>6, <1>8, <1>9, <1>10, <1>11

-----------------------------------------------------------------------------
(* Steps that end, start, ask and remove nothing                           *)

SameSlots ==
    \A i \in Index :
        /\ slot'[i].pid = slot[i].pid /\ slot'[i].retiring = slot[i].retiring
        /\ slot'[i].started = slot[i].started /\ slot'[i].failures = slot[i].failures
        /\ slot'[i].abnormal = slot[i].abnormal
        /\ slot'[i].wait = Never <=> slot[i].wait = Never
        /\ slot[i] = NewSlot => slot'[i] = NewSlot

SameChildren ==
    \A p \in Pid :
        /\ child'[p].st = child[p].st /\ child'[p].hits = child[p].hits
        /\ child'[p].code = child[p].code

Quiet ==
    /\ UNCHANGED <<setup, listed, nextIndex, history, deaths, exitCodes, countVars, forced>>
    /\ SameSlots /\ SameChildren
    /\ requests' \in Nat /\ requests <= requests'
    /\ phase' \in Early => phase \in Early
    /\ phase' \in {"stopping", "nap", "kill"} => Forwarded
    /\ phase' = "bury" => phase = "bury" /\ todo' = todo
    /\ phase' \in Final => phase \in Final \/ ~AnyRunning
    /\ phase \in Final \cup {"bury"} => phase' \in Final \cup {"bury"}

LEMMA QuietKeeps ==
    ASSUME SupervisorInv, Quiet
    PROVE  /\ SlotInv' /\ AbnormalInv' /\ CapacityInv' /\ HistoryInv' /\ InterruptsNothing'
           /\ UNCHANGED <<pending, scaled>> => AskedInv' /\ CountInv'
<1> USE DEF Quiet, SameSlots, SameChildren, countVars, SetupKept
<1>0. TypeOK /\ SlotInv BY DEF SupervisorInv
<1>1. SetupKept BY SetupSame
<1>2. requests \in Nat /\ listed \subseteq Index BY <1>0, SetupTypes DEF TypeOK
<1>3. /\ \A i \in Index : Running(i)' <=> Running(i)
      /\ \A i \in Index : Running(i) => slot[i].pid \in Pid
  BY <1>0 DEF Running, TypeOK, Slot
<1>4. \A p \in Pid : Alive(p)' <=> Alive(p) BY DEF Alive
<1>5. ~AnyRunning => \A p \in Pid : ~Alive(p)
  BY <1>0 DEF SlotInv, AnyRunning, Running, Pid, TypeOK
<1>6. SlotInv'
  BY <1>0, <1>2, <1>3, <1>4, <1>5 DEF SlotInv, AnyRunning
<1>7. AbnormalInv'
  <2>1. Odd' = Odd /\ Broken' = Broken BY <1>1, <1>3 DEF Odd, Broken
  <2> QED BY <1>1, <2>1 DEF SupervisorInv, AbnormalInv
<1>8. CapacityInv'
  BY <1>1, <1>2, <1>3 DEF SupervisorInv, CapacityInv, Active, ShutdownSet
<1>9. HistoryInv'
  <2>1. \A codes, S : Seen(codes, S) => Seen(codes, S)'
    BY <1>3 DEF Seen
  <2>2. \A o : Seen(Tells(o), Out) => Seen(Tells(o), Out)'
    BY <1>1, <1>3 DEF Seen
  <2> QED BY <1>1, <1>2, <2>1, <2>2 DEF SupervisorInv, HistoryInv
<1>10. InterruptsNothing'
  BY <1>1, <1>2 DEF SupervisorInv, InterruptsNothing
<1>11. ASSUME UNCHANGED <<pending, scaled>> PROVE AskedInv'
  BY <1>1, <1>3, <1>4, <1>11 DEF SupervisorInv, AskedInv, Forwarded
<1>12. ASSUME UNCHANGED <<pending, scaled>> PROVE CountInv'
  <2>1. Owed' = Owed /\ Begun' = Begun BY <1>2, <1>3 DEF Owed, Begun
  <2> QED BY <1>1, <1>3, <1>12, <2>1 DEF SupervisorInv, CountInv
<1> QED BY <1>6, <1>7, <1>8, <1>9, <1>10, <1>11, <1>12

LEMMA CodesType == ASSUME setup \in Setups PROVE Codes \subseteq -64 .. 255
<1>1. EmptyCode \in -64 .. 255 /\ FailedCode \in -64 .. 255 BY SetupTypes
<1>2. CrashCodes \subseteq -64 .. 255 BY SupervisorAssumption
<1> QED BY <1>1, <1>2 DEF Codes, ForcedExit, Killed, Sigterm

(* What the exit codes of the workers make: 0 only if none is out of the   *)
(* ordinary and none says failed, the empty code only if all of them do    *)
(* (combine_exit_codes).                                                   *)
LEMMA CombinedCode ==
    ASSUME TypeOK
    PROVE  /\ Combined \in 0 .. 255
           /\ Combined = 0
                 => \A k \in DOMAIN exitCodes :
                       /\ exitCodes[k] \in {0, EmptyCode, FailedCode}
                       /\ FailedCode # 0 => exitCodes[k] # FailedCode
           /\ (Combined = EmptyCode /\ EmptyIsTold /\ EmptyCode \notin {0, FailedCode})
                 => \A k \in DOMAIN exitCodes : exitCodes[k] = EmptyCode
<1> DEFINE reported == {exitCodes[k] : k \in DOMAIN exitCodes}
           odd == {k \in DOMAIN exitCodes : exitCodes[k] \notin {0, EmptyCode, FailedCode}}
           code == exitCodes[Min(odd)]
<1>1. Combined =
          IF odd # {} THEN (IF code > 0 THEN code ELSE 128 - code)
          ELSE IF FailedCode # 0 /\ FailedCode \in reported THEN FailedCode
          ELSE IF reported = {EmptyCode} THEN EmptyCode
          ELSE 0
  BY DEF Combined, CombineExitCodes
<1>2. EmptyCode \in 0 .. 255 /\ FailedCode \in 0 .. 255 BY SetupTypes DEF TypeOK
<1>3. DOMAIN exitCodes \subseteq Nat /\ \A k \in DOMAIN exitCodes : exitCodes[k] \in Codes
  BY DEF TypeOK
<1>4. CASE odd # {}
  <2>1. Min(odd) \in odd BY <1>3, <1>4, MinIsIn
  <2>2. code \in Codes /\ code \in -64 .. 255 /\ code \notin {0, EmptyCode, FailedCode}
    BY <2>1, <1>3, CodesType DEF TypeOK
  <2>3. EmptyIsTold => (code \in CrashCodes \cup {Killed, -Sigterm} => EmptyCode # 128 - code)
    BY DEF EmptyIsTold
  <2>4. code > 0 \/ code \in CrashCodes \cup {Killed, -Sigterm}
    BY <2>2, <1>2 DEF Codes, ForcedExit
  <2> HIDE DEF odd, code
  <2> QED BY <1>1, <1>2, <1>4, <2>2, <2>3, <2>4
<1>5. CASE odd = {}
  <2>1. \A k \in DOMAIN exitCodes : exitCodes[k] \in {0, EmptyCode, FailedCode} BY <1>5
  <2>2. \A k \in DOMAIN exitCodes : exitCodes[k] \in reported OBVIOUS
  <2> HIDE DEF odd, code, reported
  <2> QED BY <1>1, <1>2, <1>5, <2>1, <2>2
<1> QED BY <1>4, <1>5

(* A step that is quiet keeps the invariant, given what it does to the     *)
(* loop's own variables.                                                   *)
LEMMA QuietActs ==
    ASSUME SupervisorInv, Quiet, UNCHANGED <<pending, scaled>>, TypeOK', LoopInv'
    PROVE  SupervisorInv'
BY QuietKeeps DEF SupervisorInv

LEMMA TopActs == ASSUME SupervisorInv, Top, setup' = setup PROVE SupervisorInv'
<1> USE DEF Top, Goto, askVars, slotVars, childVars, countVars, SupervisorInv
<1>1. SetupKept BY SetupSame
<1>2. requests \in Nat BY SetupTypes DEF TypeOK
<1>3. Quiet BY <1>2 DEF Quiet, SameSlots, SameChildren, Early, Late, Final, Forwarded
<1>4. TypeOK' BY <1>1 DEF TypeOK, Phases, SetupKept
<1>5. LoopInv'
  BY <1>1, CombinedSame DEF LoopInv, Passes, Late, Final, ShutdownSet, SetupKept
<1> QED BY <1>3, <1>4, <1>5, QuietActs

LEMMA StartDoneActs == ASSUME SupervisorInv, StartDone, setup' = setup PROVE SupervisorInv'
<1> USE DEF StartDone, askVars, slotVars, childVars, countVars, SupervisorInv
<1>1. SetupKept BY SetupSame
<1>2. requests \in Nat BY SetupTypes DEF TypeOK
<1>3. ~WorkLeft => ~AnyRunning BY DEF WorkLeft, AnyRunning
<1>4. Quiet BY <1>2, <1>3 DEF Quiet, SameSlots, SameChildren, Early, Late, Final, Forwarded
<1>5. TypeOK' BY <1>1 DEF TypeOK, Phases, SetupKept
<1>6. LoopInv'
  BY <1>1, CombinedSame DEF LoopInv, Passes, Late, Final, ShutdownSet, SetupKept
<1> QED BY <1>4, <1>5, <1>6, QuietActs

LEMMA LookActs == ASSUME SupervisorInv, Look, setup' = setup PROVE SupervisorInv'
<1> USE DEF Look, askVars, slotVars, childVars, countVars, SupervisorInv
<1>1. SetupKept BY SetupSame
<1>2. requests \in Nat BY SetupTypes DEF TypeOK
<1>3. Quiet BY <1>2 DEF Quiet, SameSlots, SameChildren, Early, Late, Final, Forwarded
<1>4. TypeOK' BY <1>1 DEF TypeOK, Phases, SetupKept
<1>5. LoopInv'
  BY <1>1, CombinedSame
  DEF LoopInv, Passes, Late, Final, ShutdownSet, SetupKept, TimeToKill
<1> QED BY <1>3, <1>4, <1>5, QuietActs

LEMMA FinishActs == ASSUME SupervisorInv, Finish, setup' = setup PROVE SupervisorInv'
<1> USE DEF Finish, askVars, slotVars, childVars, countVars, SupervisorInv
<1>1. SetupKept BY SetupSame
<1>2. requests \in Nat BY SetupTypes DEF TypeOK
<1>3. ~AnyRunning BY DEF SlotInv, Final
<1>4. Quiet BY <1>2, <1>3 DEF Quiet, SameSlots, SameChildren, Early, Late, Final, Forwarded
<1>5. result' \in 0 .. 255 \cup {Never}
  <2>1. result' \in {result, ForcedExit, Combined} BY DEF Combined
  <2>2. Combined \in 0 .. 255 BY CombinedCode
  <2> QED BY <2>1, <2>2 DEF TypeOK, ForcedExit
<1>6. TypeOK' BY <1>1, <1>5 DEF TypeOK, Phases, SetupKept
<1>7. LoopInv'
  BY <1>1, CombinedSame DEF LoopInv, Passes, Late, Final, ShutdownSet, SetupKept, Combined
<1> QED BY <1>4, <1>6, <1>7, QuietActs

LEMMA RequestActs == ASSUME SupervisorInv, RequestShutdown PROVE SupervisorInv'
<1> USE DEF RequestShutdown, loopVars, slotVars, childVars, countVars, SupervisorInv
<1>1. SetupKept BY SetupSame
<1>2. requests \in Nat /\ MaxRequests \in Nat BY SetupTypes DEF TypeOK
<1>3. Quiet BY <1>2 DEF Quiet, SameSlots, SameChildren, Early, Late, Final, Forwarded
<1>4. TypeOK' BY <1>1, <1>2 DEF TypeOK, Phases, SetupKept
<1>5. LoopInv'
  BY <1>1, <1>2, CombinedSame DEF LoopInv, Passes, Late, Final, ShutdownSet, SetupKept
<1> QED BY <1>3, <1>4, <1>5, QuietActs

LEMMA ScaleActs == ASSUME SupervisorInv, Scale PROVE SupervisorInv'
<1> USE DEF Scale, loopVars, slotVars, childVars, countVars, SupervisorInv
<1>1. SetupKept BY SetupSame
<1>2. /\ requests \in Nat /\ MaxScale \in Nat /\ Workers \in Nat /\ ScaleSteps \subseteq {1, -1}
      /\ pending \in Int /\ scaled \in Nat /\ nextIndex \in Nat
  BY SetupTypes DEF TypeOK
<1>3. Quiet BY <1>2 DEF Quiet, SameSlots, SameChildren, Early, Late, Final, Forwarded
<1>4. /\ pending' = pending + 1 \/ (pending' = pending - 1 /\ -1 \in ScaleSteps)
      /\ scaled' = scaled + 1 /\ scaled' <= MaxScale
  BY <1>2
<1>5. CountInv'
  <2>1. /\ nextIndex' - (Workers' + 1) + pending' <= scaled'
        /\ nextIndex' - (Workers' + 1) - pending' <= scaled'
    BY <1>1, <1>2, <1>4 DEF CountInv, SetupKept
  <2>2. Owed' = Owed /\ Begun' = Begun BY DEF Owed, Begun, Running
  <2> QED BY <1>1, <2>1, <2>2 DEF CountInv, SetupKept, Running
<1>6. pending' \in -MaxScale .. MaxScale
  BY <1>1, <1>2, <1>4, <1>5 DEF CountInv, SetupKept
<1>7. TypeOK' BY <1>1, <1>2, <1>4, <1>6 DEF TypeOK, Phases, SetupKept
<1>8. LoopInv'
  BY <1>1, <1>2, CombinedSame DEF LoopInv, Passes, Late, Final, ShutdownSet, SetupKept
<1>9. AskedInv'
  BY <1>1, <1>2, <1>4 DEF AskedInv, Forwarded, Running, Alive, SetupKept
<1> QED BY <1>3, <1>5, <1>7, <1>8, <1>9, QuietKeeps

LEMMA StutterActs == ASSUME SupervisorInv, UNCHANGED vars PROVE SupervisorInv'
<1> USE DEF vars, loopVars, slotVars, childVars, askVars, countVars, SupervisorInv
<1>1. SetupKept BY SetupSame
<1>2. requests \in Nat BY SetupTypes DEF TypeOK
<1>3. Quiet BY <1>2 DEF Quiet, SameSlots, SameChildren, Forwarded, Final
<1>4. TypeOK' BY <1>1 DEF TypeOK, SetupKept
<1>5. LoopInv' BY <1>1, CombinedSame DEF LoopInv, ShutdownSet, SetupKept
<1> QED BY <1>3, <1>4, <1>5, QuietActs

LEMMA SlotEqual ==
    ASSUME NEW s \in Slot, NEW t \in Slot, s.pid = t.pid, s.age = t.age, s.wait = t.wait,
           s.failures = t.failures, s.retiring = t.retiring, s.started = t.started,
           s.abnormal = t.abnormal, s.cleanSince = t.cleanSince
    PROVE  s = t
BY DEF Slot

LEMMA OlderSlot ==
    ASSUME NEW s \in Slot
    PROVE  /\ Older(s) \in Slot /\ Older(s).pid = s.pid /\ Older(s).retiring = s.retiring
           /\ Older(s).started = s.started /\ Older(s).failures = s.failures
           /\ Older(s).abnormal = s.abnormal /\ (Older(s).wait = Never <=> s.wait = Never)
           /\ s = NewSlot => Older(s) = NewSlot
<1> DEFINE a == IF s.pid # 0 THEN Lesser(s.age + 1, StableAfter) ELSE s.age
           w == IF s.wait > 0 THEN s.wait - 1 ELSE s.wait
<1>1. Older(s) = [s EXCEPT !.age = a, !.wait = w] BY DEF Older
<1>2. s.age \in 0 .. StableAfter /\ s.wait \in (0 .. BackoffMax) \cup {Never} BY DEF Slot
<1>3. a \in 0 .. StableAfter BY <1>2, SupervisorAssumption DEF Lesser
<1>4. w \in (0 .. BackoffMax) \cup {Never} /\ (w = Never <=> s.wait = Never)
  BY <1>2, SupervisorAssumption DEF Never
<1>5. s = NewSlot => a = 0 /\ w = 0 BY DEF NewSlot
<1> HIDE DEF a, w
<1>6. /\ Older(s) \in Slot /\ Older(s).pid = s.pid /\ Older(s).retiring = s.retiring
      /\ Older(s).started = s.started /\ Older(s).failures = s.failures
      /\ Older(s).abnormal = s.abnormal /\ (Older(s).wait = Never <=> s.wait = Never)
  BY <1>1, <1>3, <1>4 DEF Slot
<1>7. s = NewSlot => Older(s) = NewSlot
  <2>1. s = NewSlot => s.age = 0 /\ s.wait = 0 BY DEF NewSlot
  <2>2. /\ Older(s).age = a /\ Older(s).wait = w /\ Older(s).cleanSince = s.cleanSince
    BY <1>1 DEF Slot
  <2>3. s = NewSlot => Older(s) = s BY <1>5, <1>6, <2>1, <2>2, SlotEqual
  <2> QED BY <2>3
<1> QED BY <1>6, <1>7

(* Time passes for ages, back-offs and the deadline only.                  *)
LEMMA ElapseTypes ==
    ASSUME TypeOK, Elapse, setup' = setup
    PROVE  /\ slot' \in [Index -> Slot] /\ child' \in [Pid -> Child]
           /\ deadline' \in 0 .. ShutdownTimeout + Grace \cup {Never}
           /\ deadline = Never => deadline' = Never
           /\ SameSlots /\ SameChildren
<1>1. ASSUME NEW i \in Index
      PROVE  /\ slot'[i] \in Slot /\ slot'[i].pid = slot[i].pid
             /\ slot'[i].retiring = slot[i].retiring
             /\ slot'[i].started = slot[i].started /\ slot'[i].failures = slot[i].failures
             /\ slot'[i].abnormal = slot[i].abnormal
             /\ slot'[i].wait = Never <=> slot[i].wait = Never
             /\ slot[i] = NewSlot => slot'[i] = NewSlot
  <2>1. slot[i] \in Slot /\ slot'[i] \in {slot[i], Older(slot[i])} BY DEF TypeOK, Elapse
  <2> QED BY <2>1, OlderSlot
<1>2. ASSUME NEW p \in Pid
      PROVE  /\ child'[p] \in Child /\ child'[p].st = child[p].st
             /\ child'[p].hits = child[p].hits /\ child'[p].code = child[p].code
  <2>1. child[p] \in Child BY DEF TypeOK
  <2>2. PICK t \in {child[p].clock, Lesser(child[p].clock + 1, ShutdownTimeout)} :
            child'[p] = [child[p] EXCEPT !.clock = t]
    BY DEF Elapse
  <2>3. child[p].clock \in 0 .. ShutdownTimeout /\ ShutdownTimeout \in Nat
    BY <2>1, SetupTypes DEF Child, TypeOK
  <2>4. t \in 0 .. ShutdownTimeout BY <2>3 DEF Lesser
  <2> QED BY <2>1, <2>2, <2>4 DEF Child
<1>3. slot' = [i \in Index |-> slot'[i]] /\ child' = [p \in Pid |-> child'[p]]
  BY DEF Elapse
<1>4. slot' \in [Index -> Slot] /\ child' \in [Pid -> Child] BY <1>1, <1>2, <1>3
<1>5. /\ deadline' \in 0 .. ShutdownTimeout + Grace \cup {Never}
      /\ deadline = Never => deadline' = Never
  <2>1. deadline' = IF deadline > 0 THEN deadline - 1 ELSE deadline BY DEF Elapse
  <2>2. deadline \in 0 .. ShutdownTimeout + Grace \cup {Never} BY DEF TypeOK
  <2>3. ShutdownTimeout \in Nat /\ Grace \in Nat BY SetupTypes, SupervisorAssumption DEF TypeOK
  <2> QED BY <2>1, <2>2, <2>3 DEF Never
<1> QED BY <1>1, <1>2, <1>4, <1>5 DEF SameSlots, SameChildren

LEMMA WaitActs == ASSUME SupervisorInv, Wait, setup' = setup PROVE SupervisorInv'
<1> USE DEF Wait, Goto, askVars, childVars, countVars, SupervisorInv
<1>1. SetupKept BY SetupSame
<1>2. requests \in Nat BY SetupTypes DEF TypeOK
<1>3. /\ slot' \in [Index -> Slot] /\ child' \in [Pid -> Child]
      /\ deadline' \in 0 .. ShutdownTimeout + Grace \cup {Never}
      /\ deadline = Never => deadline' = Never
      /\ SameSlots /\ SameChildren
  <2>1. CASE ShutdownSet BY <2>1 DEF TypeOK, SameSlots, SameChildren
  <2>2. CASE ~ShutdownSet BY <2>2, ElapseTypes
  <2> QED BY <2>1, <2>2
<1>4. Quiet BY <1>2, <1>3 DEF Quiet, Early, Late, Final, Forwarded
<1>5. TypeOK' BY <1>1, <1>3 DEF TypeOK, Phases, SetupKept
<1>6. LoopInv'
  BY <1>1, <1>3, CombinedSame DEF LoopInv, Passes, Late, Final, ShutdownSet, SetupKept
<1> QED BY <1>4, <1>5, <1>6, QuietActs

LEMMA NapActs == ASSUME SupervisorInv, Nap, setup' = setup PROVE SupervisorInv'
<1> USE DEF Nap, Goto, askVars, childVars, countVars, SupervisorInv
<1>1. SetupKept BY SetupSame
<1>2. requests \in Nat BY SetupTypes DEF TypeOK
<1>3. /\ slot' \in [Index -> Slot] /\ child' \in [Pid -> Child]
      /\ deadline' \in 0 .. ShutdownTimeout + Grace \cup {Never}
      /\ deadline = Never => deadline' = Never
      /\ SameSlots /\ SameChildren
  BY ElapseTypes
<1>4. Quiet BY <1>2, <1>3 DEF Quiet, Early, Late, Final, Forwarded
<1>5. TypeOK' BY <1>1, <1>3 DEF TypeOK, Phases, SetupKept
<1>6. LoopInv'
  BY <1>1, <1>3, CombinedSame DEF LoopInv, Passes, Late, Final, ShutdownSet, SetupKept
<1> QED BY <1>4, <1>5, <1>6, QuietActs

LEMMA CheckFailingActs == ASSUME SupervisorInv, CheckFailing, setup' = setup PROVE SupervisorInv'
<1> USE DEF CheckFailing, Goto, askVars, childVars, countVars, SupervisorInv
<1>1. SetupKept BY SetupSame
<1>2. requests \in Nat BY SetupTypes DEF TypeOK
<1>3. failing' \in BOOLEAN OBVIOUS
<1>4. slot' \in [Index -> Slot] /\ SameSlots
  <2>1. CASE slot' = slot BY <2>1 DEF TypeOK, SameSlots
  <2>2. CASE slot' = [i \in Index |-> [slot[i] EXCEPT !.cleanSince = FALSE]]
    <3>1. ASSUME NEW x \in Slot PROVE [x EXCEPT !.cleanSince = FALSE] \in Slot BY DEF Slot
    <3>2. ASSUME NEW x \in Slot, x = NewSlot PROVE [x EXCEPT !.cleanSince = FALSE] = NewSlot
      <4>1. x.cleanSince = FALSE BY <3>2 DEF NewSlot
      <4>2. [x EXCEPT !.cleanSince = FALSE] = x BY <3>1, <4>1, SlotEqual DEF Slot
      <4> QED BY <3>2, <4>2
    <3>3. \A i \in Index : slot[i] \in Slot BY DEF TypeOK
    <3> QED BY <2>2, <3>1, <3>2, <3>3 DEF SameSlots, Slot
  <2> QED BY <2>1, <2>2
<1>5. Quiet BY <1>2, <1>4 DEF Quiet, SameChildren, Early, Late, Final, Forwarded
<1>6. TypeOK' BY <1>1, <1>3, <1>4 DEF TypeOK, Phases, SetupKept
<1>7. LoopInv'
  BY <1>1, CombinedSame DEF LoopInv, Passes, Late, Final, ShutdownSet, SetupKept
<1> QED BY <1>5, <1>6, <1>7, QuietActs

-----------------------------------------------------------------------------
(* Scaling and signals                                                     *)

LEMMA AddSlotActs == ASSUME SupervisorInv, AddSlot, setup' = setup PROVE SupervisorInv'
<1> USE DEF AddSlot, loopVars, askVars, childVars, countVars, SupervisorInv
<1> DEFINE n == nextIndex
<1>1. SetupKept BY SetupSame
<1>2. /\ requests \in Nat /\ MaxScale \in Nat /\ Workers \in Nat /\ n \in Nat
      /\ scaled \in 0 .. MaxScale /\ pending \in Nat /\ pending # 0 /\ MaxSlots \in Nat
      /\ Workers + MaxScale <= MaxSlots
  BY SetupTypes, SupervisorAssumption DEF TypeOK
<1>3. n \in Index
  <2>1. n - (Workers + 1) + pending <= scaled /\ n >= Workers + 1 BY DEF CountInv
  <2> QED BY <1>2, <2>1 DEF Index
<1>4. slot[n] = NewSlot BY <1>2, <1>3 DEF SlotInv
<1>5. ~Running(n) /\ ~slot[n].started /\ ~slot[n].retiring /\ slot[n].wait # Never
  BY <1>4 DEF NewSlot, Running, Never
<1>6. n \notin listed BY <1>2 DEF SlotInv
<1>7. TypeOK'
  <2>1. n' \in 1 .. MaxSlots + 1 BY <1>2, <1>3 DEF Index
  <2>2. pending' \in -MaxScale .. MaxScale BY <1>2 DEF TypeOK
  <2>3. listed' \subseteq Index /\ todo' \subseteq listed' BY <1>3 DEF TypeOK
  <2> QED BY <1>1, <2>1, <2>2, <2>3 DEF TypeOK, SetupKept
<1>8. LoopInv' BY <1>1, CombinedSame DEF LoopInv, ShutdownSet, SetupKept
<1>9. SlotInv'
  <2>1. listed' \subseteq 1 .. n' - 1 BY <1>2, <1>3 DEF SlotInv, Index
  <2>2. \A i \in Index : i >= n' => slot[i] = NewSlot BY <1>2 DEF SlotInv, Index
  <2> QED BY <1>5, <2>1, <2>2 DEF SlotInv, Running, Alive, AnyRunning, Final
<1>10. AskedInv'
  BY <1>1, <1>2 DEF AskedInv, Forwarded, Running, Alive, SetupKept
<1>11. CountInv'
  <2>1. Owed' = Owed /\ Begun' = Begun BY <1>3, <1>5 DEF Owed, Begun, Running
  <2> QED BY <1>1, <1>2, <2>1 DEF CountInv, Running, SetupKept
<1>12. AbnormalInv' BY <1>1 DEF AbnormalInv, Odd, Broken, Running, SetupKept
<1>13. CapacityInv'
  <2>1. Active' = Active \cup {n} BY <1>5, <1>6 DEF Active
  <2> QED BY <1>1, <1>5, <2>1 DEF CapacityInv, Running, ShutdownSet, SetupKept
<1>14. HistoryInv'
  <2>1. \A codes, S : Seen(codes, S) => Seen(codes, S)' BY DEF Seen, Running
  <2>2. \A o : Seen(Tells(o), Out) => Seen(Tells(o), Out)' BY <1>1 DEF Seen, Running, SetupKept
  <2> QED BY <1>1, <2>1, <2>2 DEF HistoryInv, SetupKept
<1>15. InterruptsNothing' BY <1>1 DEF InterruptsNothing, SetupKept
<1> QED BY <1>7, <1>8, <1>9, <1>10, <1>11, <1>12, <1>13, <1>14, <1>15

(* What a signal does to one process.                                      *)
LEMMA SignalledChild ==
    ASSUME NEW c \in Child, c.st # "unborn", setup \in Setups
    PROVE  /\ Signalled(c) \in Child /\ Signalled(c).st # "unborn"
           /\ c.st = "dead" => Signalled(c) = c
           /\ c.st = "leaving" => Signalled(c).st = "dead" /\ Signalled(c).code = -Sigterm
           /\ Signalled(c).st # "dead" => Signalled(c).hits > 0 /\ Signalled(c).st # "leaving"
           /\ (Graceful /\ c.st = "busy" /\ Signalled(c).st = "dead")
                 => c.hits # 0 /\ Signalled(c).code = ForcedExit
<1>1. /\ -Sigterm \in Codes /\ ForcedExit \in Codes BY DEF Codes
<1>2. c.hits \in 0 .. 1 /\ c.st \in {"starting", "idle", "busy", "leaving", "dead"} BY DEF Child
<1>3. ASSUME NEW code \in Codes
      PROVE  Died(c, code) \in Child /\ Died(c, code).st = "dead" /\ Died(c, code).code = code
  BY DEF Died, Child
<1>4. [c EXCEPT !.hits = 1] \in Child /\ [c EXCEPT !.hits = 1].st = c.st
      /\ [c EXCEPT !.hits = 1].hits = 1
  BY DEF Child
<1>5. CASE c.st = "dead" BY <1>5 DEF Signalled
<1>6. CASE c.st \in {"starting", "leaving"} \/ (c.st # "dead" /\ ~Graceful)
  <2>1. Signalled(c) = Died(c, -Sigterm) BY <1>6 DEF Signalled
  <2> QED BY <1>1, <1>3, <1>6, <2>1
<1>7. CASE c.st \in {"idle", "busy"} /\ Graceful /\ c.hits = 0
  <2>1. Signalled(c) = [c EXCEPT !.hits = 1] BY <1>7 DEF Signalled
  <2> QED BY <1>4, <1>7, <2>1
<1>8. CASE c.st \in {"idle", "busy"} /\ Graceful /\ c.hits # 0
  <2>1. Signalled(c) = Died(c, ForcedExit) BY <1>8 DEF Signalled
  <2> QED BY <1>1, <1>3, <1>8, <2>1
<1> QED BY <1>2, <1>5, <1>6, <1>7, <1>8

LEMMA SignalFacts ==
    ASSUME TypeOK, NEW P \in SUBSET Pid, \A p \in P : child[p].st # "unborn", Signal(P)
    PROVE  /\ child' \in [Pid -> Child] /\ deaths' = deaths
           /\ \A p \in Pid \ P : child'[p] = child[p]
           /\ \A p \in P : child'[p] = Signalled(child[p])
           /\ \A p \in Pid : /\ Alive(p)' => Alive(p)
                             /\ child'[p].st = "unborn" <=> child[p].st = "unborn"
                             /\ child[p].st = "dead" => child'[p] = child[p]
           /\ \A p \in P : Alive(p)' => child'[p].hits > 0
           /\ history \subseteq history' /\ history' \subseteq history \cup {"forced", "stopped"}
           /\ (Graceful /\ "stopped" \in history') => "stopped" \in history
           /\ "forced" \in history'
                 => \/ "forced" \in history
                    \/ \E p \in P : /\ Graceful /\ child[p].hits # 0 /\ child'[p].st = "dead"
                                    /\ child'[p].code = ForcedExit
<1>0. \A p \in Pid : child[p] \in Child BY DEF TypeOK
<1>1. setup \in Setups BY DEF TypeOK
<1>2. \A p \in Pid \ P : child'[p] = child[p] BY DEF Signal
<1>3. \A p \in P : child'[p] = Signalled(child[p]) BY DEF Signal
<1>4. child' \in [Pid -> Child]
  <2>1. \A p \in Pid : child'[p] \in Child BY <1>0, <1>1, <1>2, <1>3, SignalledChild
  <2> QED BY <2>1 DEF Signal
<1>5. \A p \in Pid : /\ Alive(p)' => Alive(p)
                     /\ child'[p].st = "unborn" <=> child[p].st = "unborn"
                     /\ child[p].st = "dead" => child'[p] = child[p]
  <2> TAKE p \in Pid
  <2>1. CASE p \notin P BY <2>1, <1>2 DEF Alive
  <2>2. CASE p \in P
    <3>1. child[p].st = "dead" => child'[p] = child[p]
      BY <2>2, <1>0, <1>1, <1>3, SignalledChild
    <3>2. child'[p].st # "unborn" /\ child[p].st # "unborn"
      BY <2>2, <1>0, <1>1, <1>3, SignalledChild
    <3>3. child[p].st \in {"starting", "idle", "busy", "leaving", "dead"}
      BY <1>0, <3>2 DEF Child
    <3> QED BY <3>1, <3>2, <3>3 DEF Alive
  <2> QED BY <2>1, <2>2
<1>6. \A p \in P : Alive(p)' => child'[p].hits > 0
  BY <1>0, <1>1, <1>3, SignalledChild DEF Alive
<1>7. /\ history' = history \cup
                       {how \in Endings : \E p \in P :
                            /\ child[p].st = "busy" /\ Signalled(child[p]).st = "dead"
                            /\ how = IF Graceful THEN "forced" ELSE "stopped"}
      /\ deaths' = deaths
  BY DEF Signal
<1>8. "forced" \in history'
        => \/ "forced" \in history
           \/ \E p \in P : /\ Graceful /\ child[p].hits # 0 /\ child'[p].st = "dead"
                           /\ child'[p].code = ForcedExit
  <2>1. SUFFICES ASSUME "forced" \in history', "forced" \notin history
                 PROVE  \E p \in P : /\ Graceful /\ child[p].hits # 0 /\ child'[p].st = "dead"
                                    /\ child'[p].code = ForcedExit
    OBVIOUS
  <2>2. PICK p \in P : /\ child[p].st = "busy" /\ Signalled(child[p]).st = "dead" /\ Graceful
    BY <1>7, <2>1
  <2> QED BY <2>2, <1>0, <1>1, <1>3, SignalledChild
<1> QED BY <1>2, <1>3, <1>4, <1>5, <1>6, <1>7, <1>8

(* A signal that the loop sends hides nothing, and interrupts nothing that *)
(* was not told before.                                                    *)
LEMMA SignalHistory ==
    ASSUME SupervisorInv, NEW P \in SUBSET Pid, Signal(P), setup' = setup, phase \in Early,
           \A p \in P : \E i \in Index : Running(i) /\ slot[i].pid = p,
           UNCHANGED <<exitCodes, forced, requests>>,
           \A i \in Index : slot'[i].pid = slot[i].pid,
           requests = 0 => -1 \in ScaleSteps
    PROVE  HistoryInv' /\ InterruptsNothing'
<1> USE DEF SupervisorInv
<1>1. SetupKept BY SetupSame
<1>2. /\ \A i \in Index : Running(i)' <=> Running(i)
      /\ \A i \in Index : Running(i) => slot[i].pid \in Pid
  BY DEF Running, TypeOK, Slot
<1>3. \A p \in P : child[p].st # "unborn" BY DEF SlotInv
<1>4. /\ \A p \in Pid \ P : child'[p] = child[p]
      /\ \A p \in P : child'[p] = Signalled(child[p])
      /\ \A p \in Pid : child[p].st = "dead" => child'[p] = child[p]
      /\ history \subseteq history' /\ history' \subseteq history \cup {"forced", "stopped"}
      /\ (Graceful /\ "stopped" \in history') => "stopped" \in history
      /\ "forced" \in history'
            => \/ "forced" \in history
               \/ \E p \in P : /\ Graceful /\ child[p].hits # 0 /\ child'[p].st = "dead"
                               /\ child'[p].code = ForcedExit
  BY <1>3, SignalFacts
<1>5. \A codes : Seen(codes, {"dead"}) => Seen(codes, {"dead"})'
  BY <1>2, <1>4 DEF Seen
<1>6. Outcomes \subseteq {"idle", "ok", "failed", "unable"} BY SetupTypes DEF TypeOK
<1>7. \A p \in P : child[p].st = "leaving" => child'[p].st = "dead" /\ child'[p].code = -Sigterm
  BY <1>3, <1>4, SignalledChild DEF TypeOK
<1>8. ASSUME NEW o, -1 \in ScaleSteps, Seen(Tells(o), Out) PROVE Seen(Tells(o), Out)'
  <2>1. CASE \E k \in DOMAIN exitCodes : exitCodes[k] \in Tells(o)
    BY <2>1, <1>1 DEF Seen, SetupKept
  <2>2. CASE \E i \in Index : /\ Running(i) /\ child[slot[i].pid].st \in Out
                              /\ child[slot[i].pid].code \in Tells(o)
    <3>1. PICK i \in Index : /\ Running(i) /\ child[slot[i].pid].st \in Out
                             /\ child[slot[i].pid].code \in Tells(o)
      BY <2>2
    <3>2. /\ child'[slot[i].pid].st \in Out
          /\ child'[slot[i].pid].code \in {child[slot[i].pid].code, -Sigterm}
      BY <3>1, <1>2, <1>4, <1>7 DEF Out
    <3>3. -Sigterm \in Tells(o) BY <1>8 DEF Tells
    <3>4. Tells(o)' = Tells(o) BY <1>1 DEF SetupKept
    <3> QED BY <3>1, <3>2, <3>3, <3>4, <1>2 DEF Seen
  <2> QED BY <2>1, <2>2, <1>8 DEF Seen
<1>9. HistoryInv'
  <2>1. (Graceful /\ history' \cap {"crash", "forced"} # {})
          => Seen(CrashCodes \cup {ForcedExit}, {"dead"})'
    <3>1. ASSUME Graceful, "forced" \in history', "forced" \notin history
          PROVE  Seen(CrashCodes \cup {ForcedExit}, {"dead"})'
      <4>1. PICK p \in P : child'[p].st = "dead" /\ child'[p].code = ForcedExit
        BY <1>4, <3>1
      <4>2. PICK i \in Index : Running(i) /\ slot[i].pid = p OBVIOUS
      <4> QED BY <4>1, <4>2, <1>2 DEF Seen
    <3> QED BY <3>1, <1>4, <1>5 DEF HistoryInv
  <2>2. history' \cap Outcomes = history \cap Outcomes BY <1>4, <1>6
  <2>3. "killed" \in history' => forced' BY <1>4 DEF HistoryInv
  <2>4. requests' = 0 => \A o \in history' \cap Outcomes' : Seen(Tells(o), Out)'
    BY <1>1, <1>8, <2>2 DEF HistoryInv, SetupKept
  <2> QED BY <1>1, <1>4, <2>1, <2>3, <2>4 DEF HistoryInv, SetupKept
<1>10. InterruptsNothing'
  <2>1. SUFFICES ASSUME Graceful, ShutdownTimeout = 0, requests <= 1, -1 \notin ScaleSteps
                 PROVE  history' \cap {"forced", "stopped", "killed"} = {}
    BY <1>1 DEF InterruptsNothing, SetupKept
  <2>2. history \cap {"forced", "stopped", "killed"} = {} BY <2>1 DEF InterruptsNothing
  <2>3. \A p \in P : child[p].hits = 0 BY <2>1 DEF AskedInv
  <2> QED BY <1>4, <2>1, <2>2, <2>3
<1> QED BY <1>9, <1>10

LEMMA ForwardActs == ASSUME SupervisorInv, Forward, setup' = setup PROVE SupervisorInv'
<1> USE DEF Forward, askVars, slotVars, countVars, SupervisorInv
<1>1. SetupKept BY SetupSame
<1>2. requests \in Nat /\ phase \in Early /\ ShutdownSet
  BY SetupTypes DEF TypeOK, Early, LoopInv
<1>3. CASE ~AnyRunning
  <2>1. Quiet
    BY <1>2, <1>3 DEF Quiet, SameSlots, SameChildren, Early, Late, Final, Forwarded, childVars
  <2>2. TypeOK' BY <1>1, <1>3 DEF TypeOK, Phases, SetupKept, childVars
  <2>3. LoopInv'
    BY <1>1, <1>3, CombinedSame DEF LoopInv, Passes, Late, Final, ShutdownSet, SetupKept
  <2> QED BY <2>1, <2>2, <2>3, QuietActs
<1>4. CASE AnyRunning
  <2> DEFINE P == {slot[i].pid : i \in Told}
  <2>0. /\ phase' = "stopping" /\ todo' = listed /\ Signal(P) /\ deadline' = Deadline
        /\ P \in SUBSET Pid /\ listed \subseteq Index
        /\ \A p \in P : \E i \in Index : Running(i) /\ slot[i].pid = p
    BY <1>4 DEF Told, Running, TypeOK, Slot
  <2>1. \A p \in Pid : Alive(p) => p \in P BY DEF SlotInv, Told, Running, Pid
  <2> HIDE DEF P
  <2>2. ASSUME NEW p \in P PROVE child[p].st # "unborn"
    <3>1. PICK i \in Index : Running(i) /\ slot[i].pid = p BY <2>0
    <3>2. child[slot[i].pid].st # "unborn" BY <3>1 DEF SlotInv
    <3> QED BY <3>1, <3>2
  <2>3. /\ child' \in [Pid -> Child] /\ deaths' = deaths
        /\ \A p \in Pid : /\ Alive(p)' => Alive(p)
                          /\ child'[p].st = "unborn" <=> child[p].st = "unborn"
        /\ \A p \in P : Alive(p)' => child'[p].hits > 0
        /\ history' \subseteq history \cup {"forced", "stopped"}
    BY <2>0, <2>2, SignalFacts
  <2>4. HistoryInv' /\ InterruptsNothing'
    BY <2>0, <1>2, SignalHistory DEF ShutdownSet
  <2>5. deadline' \in 0 .. ShutdownTimeout + Grace \cup {Never}
        /\ (Graceful /\ ShutdownTimeout = 0 => deadline' = Never)
    <3>1. ShutdownTimeout \in Nat /\ Grace \in Nat
      BY SetupTypes, SupervisorAssumption DEF TypeOK
    <3> HIDE DEF Forward, SupervisorInv
    <3>2. CASE ~Graceful BY <3>1, <3>2, <2>0 DEF Deadline
    <3>3. CASE Graceful /\ ShutdownTimeout > 0
      <4>1. deadline' = ShutdownTimeout + Grace BY <3>3, <2>0 DEF Deadline
      <4> QED BY <3>1, <3>3, <4>1
    <3>4. CASE Graceful /\ ~(ShutdownTimeout > 0) BY <3>4, <2>0 DEF Deadline
    <3> QED BY <3>2, <3>3, <3>4
  <2>6. TypeOK' BY <1>1, <2>0, <2>3, <2>5 DEF TypeOK, Phases, Endings, SetupKept
  <2>7. LoopInv'
    BY <1>1, <1>2, <2>0, <2>5 DEF LoopInv, Passes, Late, Final, ShutdownSet, SetupKept
  <2>8. SlotInv'
    BY <2>0, <2>3 DEF SlotInv, Running, AnyRunning, Final, TypeOK, Slot
  <2>9. AskedInv'
    BY <1>1, <2>0, <2>1, <2>3 DEF AskedInv, Running, Early, SetupKept
  <2>10. CountInv'
    BY <1>1, <2>0, <2>3 DEF CountInv, Running, Early, SetupKept, Begun
  <2>11. AbnormalInv' BY <1>1, <2>0 DEF AbnormalInv, Odd, Early, SetupKept
  <2>12. CapacityInv' BY <1>1, <2>0 DEF CapacityInv, Active, Early, SetupKept
  <2> QED BY <2>4, <2>6, <2>7, <2>8, <2>9, <2>10, <2>11, <2>12
<1> QED BY <1>3, <1>4

(* _retire_newest keeps a worker, and the one it takes is in the list.     *)
LEMMA NewestToRetire ==
    ASSUME TypeOK, Active # {}
    PROVE  /\ MayRetire => Max(Active) \in Active /\ Active \ {Max(Active)} # {}
           /\ MayRetire \in BOOLEAN
<1>1. Active \subseteq 1 .. MaxSlots /\ MaxSlots \in Nat
  BY SupervisorAssumption DEF TypeOK, Active, Index
<1>2. Max(Active) \in Active BY <1>1, MaxIsIn
<1>3. Active = {Max(Active)} => Cardinality(Active) = 1 BY FS_Singleton
<1> QED BY <1>2, <1>3 DEF MayRetire

LEMMA RetireNewestActs ==
    ASSUME SupervisorInv, RetireNewest, setup' = setup PROVE SupervisorInv'
<1> USE DEF SupervisorInv
<1> DEFINE i == Max(Active)
<1>1. SetupKept BY SetupSame
<1>2. /\ requests \in Nat /\ MaxScale \in Nat /\ Workers \in Nat /\ nextIndex \in Nat
      /\ pending \in -MaxScale .. MaxScale /\ scaled \in Nat
      /\ deaths \in Nat /\ restarts[1] \in Nat
  BY SetupTypes DEF TypeOK
<1>3. /\ phase = "retire" /\ phase \in Early /\ pending < 0 /\ pending' = pending + 1
      /\ UNCHANGED <<loopVars, nextIndex, failing, askVars, exitCodes, countVars>>
  BY DEF RetireNewest, Early
<1>4. -1 \in ScaleSteps /\ -1 \in ScaleSteps' BY <1>1, <1>2, <1>3 DEF AskedInv, SetupKept
<1>5. pending' \in -MaxScale' .. MaxScale' BY <1>1, <1>2, <1>3 DEF SetupKept
<1>6. /\ nextIndex' - (Workers' + 1) + pending' <= scaled'
      /\ nextIndex' - (Workers' + 1) - pending' <= scaled'
  BY <1>1, <1>2, <1>3 DEF CountInv, SetupKept, askVars
<1>7. todo = {} BY <1>3 DEF LoopInv, Passes
<1>8. LoopInv'
  <2>1. deadline' = deadline BY <1>3 DEF loopVars
  <2> QED BY <1>1, <1>3, CombinedSame
      DEF LoopInv, Passes, Late, Final, ShutdownSet, SetupKept, loopVars, askVars
<1>9. CASE ~MayRetire
  <2>1. UNCHANGED <<listed, slot, childVars>> BY <1>9 DEF RetireNewest
  <2>2. Quiet
    BY <1>2, <1>3, <2>1
    DEF Quiet, SameSlots, SameChildren, Early, Late, Final, Forwarded, loopVars, childVars,
        askVars, countVars
  <2>3. TypeOK'
    BY <1>1, <1>3, <1>5, <2>1 DEF TypeOK, SetupKept, loopVars, childVars, askVars, countVars
  <2>4. AskedInv'
    BY <1>1, <1>3, <1>4, <2>1
    DEF AskedInv, Forwarded, Running, Alive, SetupKept, loopVars, childVars
  <2>5. CountInv'
    <3>1. Owed' = Owed /\ Begun' = Begun
      BY <2>1 DEF Owed, Begun, Running, childVars
    <3> QED BY <1>1, <1>3, <1>6, <2>1, <3>1
        DEF CountInv, SetupKept, Running, loopVars, childVars, askVars, countVars
  <2> QED BY <1>8, <2>2, <2>3, <2>4, <2>5, QuietKeeps
<1>10. MayRetire => /\ i \in Active /\ Active \ {i} # {} /\ i \in listed /\ i \in Index
                    /\ ~slot[i].retiring
  BY NewestToRetire DEF CapacityInv, Active, TypeOK
<1> HIDE DEF i
<1>11. CASE MayRetire /\ ~Running(i)
  <2>1. /\ listed' = listed \ {i} /\ slot' = slot /\ child' = child /\ history' = history
        /\ deaths' = deaths
    BY <1>11 DEF RetireNewest, Awaited, i, childVars
  <2>2. \A j \in Index : Running(j)' <=> Running(j) BY <2>1 DEF Running
  <2>3. TypeOK'
    BY <1>1, <1>3, <1>5, <1>7, <2>1 DEF TypeOK, SetupKept, loopVars, askVars, countVars
  <2>4. SlotInv'
    <3>1. ASSUME NEW p \in Pid, Alive(p) PROVE \E j \in listed' : slot[j].pid = p
      <4>1. PICK j \in listed : slot[j].pid = p BY <3>1 DEF SlotInv
      <4>2. j # i BY <4>1, <1>11 DEF Running, Pid
      <4> QED BY <4>1, <4>2, <2>1
    <3>2. \A p \in Pid : Alive(p)' <=> Alive(p) BY <2>1 DEF Alive
    <3>3. phase' \notin Final \cup {"bury"} BY <1>3 DEF loopVars, Final
    <3>4. /\ \A j \in Index : Running(j)' => j \in listed' /\ slot'[j].started
                                               /\ slot'[j].pid < nextPid'
                                               /\ child'[slot'[j].pid].st # "unborn"
          /\ \A j, k \in Index : (Running(j)' /\ slot'[j].pid = slot'[k].pid) => j = k
      BY <1>3, <1>11, <2>1, <2>2 DEF SlotInv, countVars
    <3>5. \A j \in listed : j \in Index BY DEF TypeOK
    <3>6. \A j \in listed' : slot'[j].retiring => Running(j)'
      BY <1>3, <2>1, <2>2, <3>5 DEF SlotInv, Final
    <3>7. /\ listed' \subseteq 1 .. nextIndex' - 1
          /\ \A j \in Index : j >= nextIndex' => slot'[j] = NewSlot
          /\ \A p \in Pid : p >= nextPid' => child'[p].st = "unborn"
      BY <1>3, <2>1 DEF SlotInv, countVars
    <3>8. \A p \in Pid : Alive(p)' => \E j \in listed' : slot'[j].pid = p
      BY <2>1, <3>1, <3>2
    <3> QED BY <3>3, <3>4, <3>6, <3>7, <3>8 DEF SlotInv, Final
  <2>5. AskedInv'
    BY <1>1, <1>3, <1>4, <2>1
    DEF AskedInv, Forwarded, Running, Alive, SetupKept, loopVars
  <2>6. CountInv'
    <3>1. Owed' \subseteq Owed BY <2>1, <2>2 DEF Owed, Running
    <3>2. IsFiniteSet(Owed) BY IndexFinite DEF Owed
    <3>3. /\ Cardinality(Owed') <= Cardinality(Owed) /\ Cardinality(Owed') \in Nat
          /\ Cardinality(Owed) \in Nat
      BY <3>1, <3>2, FewerCount
    <3>4. restarts[1] + Cardinality(Owed') <= deaths BY <1>2, <1>3, <3>3 DEF CountInv
    <3>5. Begun' = Begun BY <2>1 DEF Begun
    <3> QED BY <1>1, <1>3, <1>6, <2>1, <2>2, <3>4, <3>5
        DEF CountInv, SetupKept, loopVars, askVars, countVars
  <2>7. AbnormalInv'
    BY <1>1, <1>3, <2>1, <2>2 DEF AbnormalInv, Odd, Broken, SetupKept, loopVars, countVars
  <2>8. CapacityInv'
    <3>1. Active' = Active \ {i} BY <2>1 DEF Active
    <3>2. \A j \in Active : j \in Index BY DEF Active, TypeOK
    <3>3. Restart /\ ~ShutdownSet => \A j \in Active' : Running(j)' \/ slot'[j].wait # Never
      BY <1>3, <2>1, <2>2, <3>1, <3>2 DEF CapacityInv
    <3>4. Restart' = Restart /\ ShutdownSet' = ShutdownSet
      BY <1>1, <1>3 DEF ShutdownSet, SetupKept, askVars
    <3> QED BY <1>10, <1>11, <3>1, <3>3, <3>4 DEF CapacityInv
  <2>9. HistoryInv'
    <3>1. \A codes, S : Seen(codes, S)' <=> Seen(codes, S) BY <1>3, <2>1 DEF Seen, Running
    <3>2. \A o : Seen(Tells(o), Out)' <=> Seen(Tells(o), Out)
      BY <1>1, <1>3, <2>1 DEF Seen, Running, SetupKept
    <3> QED BY <1>1, <1>3, <2>1, <3>1, <3>2 DEF HistoryInv, SetupKept, loopVars, askVars
  <2>10. InterruptsNothing'
    BY <1>1, <1>4 DEF InterruptsNothing, SetupKept
  <2> QED BY <1>8, <2>3, <2>4, <2>5, <2>6, <2>7, <2>8, <2>9, <2>10
<1>12. CASE MayRetire /\ Running(i)
  <2> DEFINE pid == slot[i].pid
  <2>1. listed' = listed /\ slot' = [slot EXCEPT ![i].retiring = TRUE] /\ Signal({pid})
    BY <1>12 DEF RetireNewest, Awaited, i
  <2>2. /\ slot' \in [Index -> Slot]
        /\ \A j \in Index : /\ slot'[j].pid = slot[j].pid /\ slot'[j].started = slot[j].started
                            /\ slot'[j].failures = slot[j].failures
                            /\ slot'[j].abnormal = slot[j].abnormal
                            /\ slot'[j].wait = slot[j].wait
                            /\ j # i => slot'[j] = slot[j]
        /\ slot'[i].retiring
    <3>1. \A x \in Slot : [x EXCEPT !.retiring = TRUE] \in Slot BY DEF Slot
    <3> QED BY <1>10, <1>12, <2>1, <3>1 DEF TypeOK, Slot
  <2>3. pid \in Pid /\ child[pid].st # "unborn"
    BY <1>10, <1>12 DEF Running, TypeOK, Slot, SlotInv
  <2>4. \A j \in Index : Running(j)' <=> Running(j) BY <2>2 DEF Running
  <2>5. {pid} \in SUBSET Pid /\ \A p \in {pid} : child[p].st # "unborn" BY <2>3
  <2>6. /\ child' \in [Pid -> Child] /\ deaths' = deaths
        /\ \A p \in Pid \ {pid} : child'[p] = child[p]
        /\ \A p \in Pid : /\ Alive(p)' => Alive(p)
                          /\ child'[p].st = "unborn" <=> child[p].st = "unborn"
        /\ history' \subseteq history \cup {"forced", "stopped"}
    BY <2>1, <2>5, SignalFacts
  <2>7. HistoryInv' /\ InterruptsNothing'
    <3>1. \A p \in {pid} : \E j \in Index : Running(j) /\ slot[j].pid = p BY <1>10, <1>12
    <3>2. UNCHANGED <<exitCodes, forced, requests>> BY <1>3 DEF loopVars, askVars
    <3>3. \A j \in Index : slot'[j].pid = slot[j].pid BY <2>2
    <3> QED BY <1>3, <1>4, <2>1, <2>5, <3>1, <3>2, <3>3, SignalHistory
  <2>8. \A j \in Index : (Running(j) /\ ~slot'[j].retiring) =>
            j # i /\ ~slot[j].retiring /\ slot[j].pid \in Pid /\ slot[j].pid # pid
    BY <1>10, <1>12, <2>2 DEF SlotInv, Running, TypeOK, Slot
  <2>9. TypeOK'
    BY <1>1, <1>3, <1>5, <2>1, <2>2, <2>6
    DEF TypeOK, Endings, SetupKept, loopVars, askVars, countVars
  <2>10. SlotInv'
    <3>1. \A j \in Index : j >= nextIndex => slot'[j] = NewSlot
      <4>1. i < nextIndex
        <5>1. i \in 1 .. nextIndex - 1 BY <1>10, <1>12 DEF SlotInv
        <5> HIDE DEF SupervisorInv
        <5> QED BY <5>1, <1>2
      <4> QED BY <4>1, <1>2, <1>10, <2>2 DEF SlotInv, Index
    <3>2. phase' \notin Final \cup {"bury"} BY <1>3 DEF loopVars, Final
    <3>3. \A j \in listed : j \in Index BY DEF TypeOK
    <3>4. \A j \in listed : slot'[j].retiring => Running(j)
      BY <1>3, <1>12, <2>2, <3>3 DEF SlotInv, Final
    <3>5. \A j \in Index : Running(j) => slot[j].pid \in Pid BY DEF Running, TypeOK, Slot
    <3> QED BY <1>3, <2>1, <2>2, <2>4, <2>6, <3>1, <3>2, <3>3, <3>4, <3>5 DEF SlotInv, countVars
  <2>11. AskedInv'
    BY <1>1, <1>3, <1>4, <2>2, <2>4, <2>6, <2>8
    DEF AskedInv, Forwarded, SetupKept, loopVars
  <2>12. \A j \in Index : (Running(j) /\ ~slot'[j].retiring) =>
             child'[slot'[j].pid] = child[slot[j].pid] /\ ~slot[j].retiring
    BY <2>2, <2>6, <2>8
  <2>13. CountInv'
    <3>1. Owed' \subseteq Owed
      <4>1. \A j \in Index : ~slot'[j].retiring => ~slot[j].retiring BY <2>2
      <4> QED BY <2>1, <2>2, <2>4, <2>12, <4>1 DEF Owed
    <3>2. IsFiniteSet(Owed) BY IndexFinite DEF Owed
    <3>3. /\ Cardinality(Owed') <= Cardinality(Owed) /\ Cardinality(Owed') \in Nat
          /\ Cardinality(Owed) \in Nat
      BY <3>1, <3>2, FewerCount
    <3>4. restarts[1] + Cardinality(Owed') <= deaths BY <1>2, <1>3, <3>3 DEF CountInv
    <3>5. Begun' = Begun BY <2>2 DEF Begun
    <3>6. \A j \in Index :
              (Running(j) /\ ~slot'[j].retiring /\ child'[slot'[j].pid].st \in Out)
                    => slot'[j].failures < deaths
      BY <1>3, <2>2, <2>12 DEF CountInv
    <3> QED BY <1>1, <1>3, <1>6, <2>2, <2>4, <2>6, <3>4, <3>5, <3>6
        DEF CountInv, SetupKept, loopVars, askVars, countVars
  <2>14. AbnormalInv'
    <3>1. Broken' = Broken BY <2>2, <2>4 DEF Broken
    <3> QED BY <1>1, <1>3, <3>1 DEF AbnormalInv, Odd, SetupKept, loopVars, countVars
  <2>15. CapacityInv'
    <3>1. Active' = Active \ {i} BY <1>10, <2>1, <2>2 DEF Active, TypeOK
    <3>2. \A j \in Active : j \in Index BY DEF Active, TypeOK
    <3>3. Restart /\ ~ShutdownSet => \A j \in Active' : Running(j)' \/ slot'[j].wait # Never
      BY <1>3, <2>2, <2>4, <3>1, <3>2 DEF CapacityInv
    <3>4. Restart' = Restart /\ ShutdownSet' = ShutdownSet
      BY <1>1, <1>3 DEF ShutdownSet, SetupKept, askVars
    <3> QED BY <1>10, <1>12, <3>1, <3>3, <3>4 DEF CapacityInv
  <2> QED BY <1>8, <2>7, <2>9, <2>10, <2>11, <2>13, <2>14, <2>15
<1> QED BY <1>9, <1>11, <1>12

-----------------------------------------------------------------------------
(* Exit codes                                                              *)

(* A code more: those before it stay, and it counts if it is out of the    *)
(* ordinary.                                                               *)
LEMMA CodeAppended ==
    ASSUME TypeOK, setup' = setup, NEW code \in Codes, exitCodes' = Append(exitCodes, code)
    PROVE  /\ exitCodes' \in Seq(Codes)
           /\ \A codes : (\E k \in DOMAIN exitCodes : exitCodes[k] \in codes)
                             => \E k \in DOMAIN exitCodes' : exitCodes'[k] \in codes
           /\ \A codes : code \in codes => \E k \in DOMAIN exitCodes' : exitCodes'[k] \in codes
           /\ Cardinality(Odd) \in Nat /\ Cardinality(Odd') \in Nat
           /\ Cardinality(Odd) <= Cardinality(Odd')
           /\ code \notin {0, EmptyCode} => Cardinality(Odd') = Cardinality(Odd) + 1
<1> DEFINE n == Len(exitCodes) + 1
<1>1. SetupKept BY SetupSame
<1>2. exitCodes \in Seq(Codes) BY DEF TypeOK
<1>3. /\ exitCodes' \in Seq(Codes) /\ n \in Nat
      /\ DOMAIN exitCodes = 1 .. n - 1 /\ DOMAIN exitCodes' = 1 .. n
      /\ exitCodes'[n] = code /\ \A k \in 1 .. n - 1 : exitCodes'[k] = exitCodes[k]
  BY <1>2
<1> HIDE DEF n
<1>4. /\ n \in 1 .. n /\ 1 .. n = (1 .. n - 1) \cup {n} /\ n \notin 1 .. n - 1
  <2>1. n > 0 BY <1>2 DEF n
  <2> QED BY <1>3, <2>1
<1>5. IsFiniteSet(Odd) /\ IsFiniteSet(Odd')
  <2>1. IsFiniteSet(1 .. n - 1) /\ IsFiniteSet(1 .. n) BY <1>3, FS_Interval
  <2>2. Odd \subseteq 1 .. n - 1 /\ Odd' \subseteq 1 .. n BY <1>3 DEF Odd
  <2> QED BY <2>1, <2>2, FS_Subset
<1>6. Odd \subseteq Odd' BY <1>1, <1>3, <1>4 DEF Odd, SetupKept
<1>7. ASSUME code \notin {0, EmptyCode} PROVE Cardinality(Odd') = Cardinality(Odd) + 1
  <2>1. Odd' = Odd \cup {n} BY <1>1, <1>3, <1>4, <1>7 DEF Odd, SetupKept
  <2>2. n \notin Odd BY <1>3, <1>4 DEF Odd
  <2> QED BY <1>5, <2>1, <2>2, FS_AddElement
<1>8. \A codes : (\E k \in DOMAIN exitCodes : exitCodes[k] \in codes)
                             => \E k \in DOMAIN exitCodes' : exitCodes'[k] \in codes
  BY <1>3, <1>4
<1>9. \A codes : code \in codes => \E k \in DOMAIN exitCodes' : exitCodes'[k] \in codes
  BY <1>3, <1>4
<1> QED BY <1>3, <1>5, <1>6, <1>7, <1>8, <1>9, FewerCount

LEMMA KillActs == ASSUME SupervisorInv, Kill, setup' = setup PROVE SupervisorInv'
<1> USE DEF SupervisorInv
<1> DEFINE live == {p \in {slot[i].pid : i \in todo'} : Alive(p)}
<1>1. SetupKept BY SetupSame
<1>2. /\ requests \in Nat /\ ShutdownSet /\ ShutdownSet'
  BY SetupTypes DEF TypeOK, LoopInv, Kill, Goto, Late, ShutdownSet, askVars
<1>3. /\ phase = "kill" /\ phase' = "bury" /\ forced' = TRUE
      /\ todo' = {i \in listed : Running(i)}
      /\ child' = [p \in Pid |-> IF p \in live THEN Died(child[p], Killed) ELSE child[p]]
      /\ history' \subseteq history \cup {"killed"}
      /\ UNCHANGED <<deadline, raised, result, slotVars, deaths, askVars, pending, exitCodes,
                     countVars>>
  BY DEF Kill, Goto
<1>4. slot' = slot /\ listed' = listed BY <1>3 DEF slotVars
<1>5. \A i \in Index : Running(i)' <=> Running(i) BY <1>4 DEF Running
<1>6. \A p \in Pid : Alive(p) => p \in live
  BY <1>3 DEF SlotInv, Running, Pid
<1> HIDE DEF live
<1>7. \A p \in Pid : /\ child'[p] \in Child /\ ~Alive(p)'
                     /\ child'[p].st = "unborn" <=> child[p].st = "unborn"
                     /\ child[p].st = "dead" => child'[p] = child[p]
  <2> TAKE p \in Pid
  <2>1. child[p] \in Child BY DEF TypeOK
  <2>2. p \in live => Alive(p) BY DEF live
  <2>3. child'[p] = IF Alive(p) THEN Died(child[p], Killed) ELSE child[p]
    BY <1>3, <1>6, <2>2
  <2>4. Killed \in Codes BY DEF Codes
  <2>5. Died(child[p], Killed) \in Child /\ Died(child[p], Killed).st = "dead"
    BY <2>1, <2>4 DEF Died, Child
  <2> QED BY <2>1, <2>3, <2>5 DEF Alive, Child
<1>8. child' \in [Pid -> Child]
  <2>1. child' = [p \in Pid |-> child'[p]] BY <1>3
  <2> QED BY <1>7, <2>1
<1>9. TypeOK'
  BY <1>1, <1>3, <1>8 DEF TypeOK, Phases, Endings, SetupKept, slotVars, askVars, countVars
<1>10. LoopInv'
  BY <1>1, <1>2, <1>3 DEF LoopInv, Passes, Late, Final, SetupKept, askVars
<1>11. SlotInv'
  <2>1. \A i \in Index : Running(i) => slot[i].pid \in Pid BY DEF Running, TypeOK, Slot
  <2>2. nextPid' = nextPid /\ nextIndex' = nextIndex BY <1>3 DEF slotVars, countVars
  <2>3. listed \subseteq Index BY DEF TypeOK
  <2> QED BY <1>3, <1>4, <1>5, <1>7, <2>1, <2>2, <2>3 DEF SlotInv, Final
<1>12. AskedInv'
  BY <1>1, <1>3, <1>4 DEF AskedInv, Forwarded, Early, SetupKept
<1>13. CountInv'
  <2>1. Begun' = Begun BY <1>4 DEF Begun
  <2> QED BY <1>1, <1>3, <1>4, <2>1 DEF CountInv, Early, SetupKept, slotVars, askVars, countVars
<1>14. AbnormalInv' BY <1>1, <1>3 DEF AbnormalInv, Odd, Early, SetupKept, countVars
<1>15. CapacityInv' BY <1>3, <1>4 DEF CapacityInv, Active, Early
<1>16. HistoryInv'
  <2>1. \A codes : Seen(codes, {"dead"}) => Seen(codes, {"dead"})'
    <3>1. \A i \in Index : Running(i) => slot[i].pid \in Pid BY DEF Running, TypeOK, Slot
    <3> QED BY <1>3, <1>4, <1>5, <1>7, <3>1 DEF Seen
  <2> QED BY <1>1, <1>2, <1>3, <2>1 DEF HistoryInv, SetupKept, ShutdownSet
<1>17. InterruptsNothing'
  <2>1. Graceful /\ ShutdownTimeout = 0 => requests > 1
    BY <1>3 DEF LoopInv, Never
  <2>2. requests' = requests BY <1>3 DEF askVars
  <2> QED BY <1>1, <1>2, <2>1, <2>2 DEF InterruptsNothing, SetupKept
<1> QED BY <1>9, <1>10, <1>11, <1>12, <1>13, <1>14, <1>15, <1>16, <1>17

LEMMA BuryActs == ASSUME SupervisorInv, Bury, setup' = setup PROVE SupervisorInv'
<1> USE DEF SupervisorInv
<1> DEFINE i == Min(todo)
<1>1. SetupKept BY SetupSame
<1>2. /\ requests \in Nat /\ ShutdownSet /\ forced
  BY SetupTypes DEF TypeOK, LoopInv, Bury, Late
<1>3. /\ phase = "bury"
      /\ UNCHANGED <<deadline, forced, raised, result, listed, nextIndex, failing,
                     childVars, askVars, pending, countVars>>
  BY DEF Bury
<1>4. CASE todo = {}
  <2>1. phase' = "finish" /\ UNCHANGED <<todo, slot, exitCodes>> BY <1>4 DEF Bury
  <2>2. ~AnyRunning BY <1>3, <1>4 DEF SlotInv, AnyRunning
  <2>3. Quiet
    BY <1>2, <1>3, <2>1, <2>2
    DEF Quiet, SameSlots, SameChildren, Early, Final, Forwarded, childVars, askVars, countVars
  <2>4. TypeOK'
    BY <1>1, <1>3, <2>1 DEF TypeOK, Phases, SetupKept, childVars, askVars, countVars
  <2>5. LoopInv'
    BY <1>1, <1>2, <1>3, <1>4, <2>1
    DEF LoopInv, Passes, Late, Final, ShutdownSet, SetupKept, askVars
  <2> QED BY <1>3, <2>3, <2>4, <2>5, QuietActs DEF askVars
<1>5. CASE todo # {}
  <2>1. /\ todo' = todo \ {i} /\ phase' = "bury"
        /\ exitCodes' = Append(exitCodes, child[slot[i].pid].code)
        /\ slot' = [slot EXCEPT ![i].pid = 0]
    BY <1>3, <1>5 DEF Bury
  <2>2. i \in todo /\ i \in listed /\ i \in Index
    <3>1. todo \subseteq Index /\ Index \subseteq Nat /\ todo \subseteq listed
      BY DEF TypeOK, Index
    <3>2. todo \in SUBSET Nat BY <3>1
    <3>3. i \in todo BY <1>5, <3>2, MinIsIn
    <3> QED BY <3>1, <3>3
  <2> HIDE DEF i
  <2>3. Running(i) BY <1>3, <2>2 DEF SlotInv
  <2>4. /\ slot[i].pid \in Pid /\ child[slot[i].pid] \in Child
        /\ child[slot[i].pid].code \in Codes
    BY <2>2, <2>3 DEF Running, TypeOK, Slot, Child
  <2>5. /\ slot' \in [Index -> Slot] /\ slot'[i].pid = 0
        /\ \A j \in Index : /\ slot'[j].started = slot[j].started
                            /\ slot'[j].failures = slot[j].failures
                            /\ slot'[j].retiring = slot[j].retiring
                            /\ j # i => slot'[j] = slot[j]
    <3>1. \A x \in Slot : [x EXCEPT !.pid = 0] \in Slot BY DEF Slot
    <3> QED BY <2>1, <2>2, <3>1 DEF TypeOK, Slot
  <2>6. \A j \in Index : Running(j)' <=> (Running(j) /\ j # i) BY <2>5 DEF Running
  <2>7. child' = child /\ history' = history /\ deaths' = deaths /\ listed' = listed
    BY <1>3 DEF childVars
  <2>8. /\ exitCodes' \in Seq(Codes)
        /\ \A codes : (\E k \in DOMAIN exitCodes : exitCodes[k] \in codes)
                             => \E k \in DOMAIN exitCodes' : exitCodes'[k] \in codes
        /\ \A codes : child[slot[i].pid].code \in codes
                             => \E k \in DOMAIN exitCodes' : exitCodes'[k] \in codes
        /\ Cardinality(Odd) \in Nat /\ Cardinality(Odd') \in Nat
        /\ Cardinality(Odd) <= Cardinality(Odd')
    BY <2>1, <2>4, CodeAppended
  <2>9. TypeOK'
    BY <1>1, <1>3, <2>1, <2>5, <2>8
    DEF TypeOK, Phases, SetupKept, childVars, askVars, countVars
  <2>10. LoopInv'
    BY <1>1, <1>2, <1>3, <2>1
    DEF LoopInv, Passes, Late, Final, ShutdownSet, SetupKept, askVars
  <2>11. SlotInv'
    <3>1. \A j \in Index : j >= nextIndex => slot'[j] = NewSlot
      <4>1. i < nextIndex
        <5>1. i \in 1 .. nextIndex - 1 BY <2>2 DEF SlotInv
        <5>2. nextIndex \in Nat BY DEF TypeOK
        <5> HIDE DEF SupervisorInv
        <5> QED BY <5>1, <5>2
      <4>2. nextIndex \in Nat BY DEF TypeOK
      <4> QED BY <4>1, <4>2, <2>2, <2>5 DEF SlotInv, Index
    <3>2. \A p \in Pid : ~Alive(p)' BY <1>3, <2>7 DEF SlotInv, Alive
    <3>3. \A j \in listed : Running(j)' <=> j \in todo'
      <4>1. listed \subseteq Index BY DEF TypeOK
      <4> QED BY <1>3, <2>1, <2>6, <4>1 DEF SlotInv
    <3>4. /\ \A j \in Index : Running(j)' => j \in listed' /\ slot'[j].started
                                                /\ slot'[j].pid < nextPid'
                                                /\ child'[slot'[j].pid].st # "unborn"
          /\ \A j, k \in Index : (Running(j)' /\ slot'[j].pid = slot'[k].pid) => j = k
      BY <1>3, <2>5, <2>6, <2>7 DEF SlotInv, countVars, Running
    <3>5. /\ listed' \subseteq 1 .. nextIndex' - 1 /\ nextIndex' = nextIndex
          /\ \A p \in Pid : p >= nextPid' => child'[p].st = "unborn"
      BY <1>3, <2>7 DEF SlotInv, countVars
    <3> QED BY <2>1, <2>7, <3>1, <3>2, <3>3, <3>4, <3>5 DEF SlotInv, Final
  <2>12. AskedInv'
    BY <1>1, <1>3, <2>1, <2>5 DEF AskedInv, Forwarded, Early, SetupKept
  <2>13. CountInv'
    <3>1. Begun' = Begun BY <2>5 DEF Begun
    <3> QED BY <1>1, <1>3, <2>1, <2>5, <2>7, <3>1
        DEF CountInv, Early, SetupKept, askVars, countVars
  <2>14. AbnormalInv'
    <3>1. restarts[2] \in Nat BY DEF TypeOK
    <3>2. restarts[2] <= Cardinality(Odd) BY DEF AbnormalInv
    <3>3. restarts' = restarts /\ phase' \notin Early BY <1>3, <2>1 DEF countVars, Early
    <3> HIDE DEF SupervisorInv
    <3>4. restarts'[2] <= Cardinality(Odd') BY <2>8, <3>1, <3>2, <3>3
    <3> QED BY <3>3, <3>4 DEF AbnormalInv
  <2>15. CapacityInv'
    <3>1. Active' = Active
      <4>1. listed \subseteq Index BY DEF TypeOK
      <4> QED BY <2>5, <2>7, <4>1 DEF Active
    <3> QED BY <2>1, <3>1 DEF CapacityInv, Early
  <2>16. HistoryInv'
    <3>1. \A codes : Seen(codes, {"dead"}) => Seen(codes, {"dead"})'
      <4> TAKE codes
      <4>1. CASE \E j \in Index : /\ Running(j) /\ child[slot[j].pid].st \in {"dead"}
                                  /\ child[slot[j].pid].code \in codes
        <5>1. PICK j \in Index : /\ Running(j) /\ child[slot[j].pid].st \in {"dead"}
                                 /\ child[slot[j].pid].code \in codes
          BY <4>1
        <5>2. CASE j = i BY <5>1, <5>2, <2>8 DEF Seen
        <5>3. CASE j # i
          <6>1. Running(j)' /\ child'[slot'[j].pid] = child[slot[j].pid]
            BY <5>1, <5>3, <2>5, <2>6, <2>7
          <6> QED BY <5>1, <6>1 DEF Seen
        <5> QED BY <5>2, <5>3
      <4> QED BY <4>1, <2>8 DEF Seen
    <3>2. requests' # 0 BY <1>2, <1>3 DEF askVars, ShutdownSet
    <3> QED BY <1>1, <1>3, <2>7, <3>1, <3>2 DEF HistoryInv, SetupKept
  <2>17. InterruptsNothing'
    BY <1>1, <1>3, <2>7 DEF InterruptsNothing, SetupKept, askVars
  <2> QED BY <2>9, <2>10, <2>11, <2>12, <2>13, <2>14, <2>15, <2>16, <2>17
<1> QED BY <1>4, <1>5

(* What is left of a slot whose process was reaped (_reap).                *)
LEMMA ReapedSlot ==
    ASSUME NEW s \in Slot, NEW code \in Int, NEW stopped \in BOOLEAN, setup \in Setups,
           deaths \in 0 .. MaxDeaths, failing \in BOOLEAN,
           s.failures <= deaths,
           Restart /\ ~ShutdownSet /\ ~s.retiring => s.failures < deaths,
           NEW r, r \in {Reaped(s, code, stopped),
                         [Reaped(s, code, stopped) EXCEPT !.wait = Never]}
    PROVE  /\ r \in Slot /\ r.pid = 0 /\ r.started = s.started /\ r.retiring = s.retiring
           /\ r.failures <= deaths /\ r.abnormal = Abnormal(s, code, stopped)
           /\ (/\ r = Reaped(s, code, stopped)
               /\ Restart /\ ~ShutdownSet /\ ~s.retiring) => r.wait # Never
<1> DEFINE f == Failures(s, code)
           again == Restart /\ ~ShutdownSet /\ ~s.retiring
           abnormal == Abnormal(s, code, stopped)
           clean == s.cleanSince \/ (failing /\ code = 0 /\ ~stopped)
           failures == IF again THEN f ELSE s.failures
           wait == IF again THEN RestartDelay(f) ELSE Never
<1>1. Reaped(s, code, stopped) = [s EXCEPT !.pid = 0, !.age = 0, !.abnormal = abnormal,
                                           !.cleanSince = clean, !.failures = failures,
                                           !.wait = wait]
  BY DEF Reaped
<1>2. /\ s.failures \in 0 .. MaxDeaths /\ MaxDeaths \in Nat /\ s.cleanSince \in BOOLEAN
      /\ 0 \in 0 .. StableAfter /\ BackoffMax \in Nat
  BY SetupTypes, SupervisorAssumption DEF Slot
<1>3. s.failures \in Nat /\ f \in {0, s.failures + 1} BY <1>2 DEF Failures
<1>4. f \in Nat /\ (again => f <= deaths) BY <1>2, <1>3
<1>5. failures \in 0 .. MaxDeaths /\ failures <= deaths BY <1>2, <1>4
<1>6. wait \in (0 .. BackoffMax) \cup {Never} /\ (again => wait # Never)
  <2>1. RestartDelay(f) \in 0 .. BackoffMax BY <1>4, DelayType
  <2> QED BY <2>1, <1>2 DEF Never
<1>7. abnormal \in BOOLEAN /\ clean \in BOOLEAN BY <1>2 DEF Abnormal
<1> HIDE DEF failures, wait, abnormal, clean, f
<1>8. Never \in (0 .. BackoffMax) \cup {Never} OBVIOUS
<1>9. ASSUME NEW w \in (0 .. BackoffMax) \cup {Never},
             r = [s EXCEPT !.pid = 0, !.age = 0, !.abnormal = abnormal, !.cleanSince = clean,
                           !.failures = failures, !.wait = w]
      PROVE  /\ r \in Slot /\ r.pid = 0 /\ r.started = s.started /\ r.retiring = s.retiring
             /\ r.failures = failures /\ r.abnormal = abnormal /\ r.wait = w
  BY <1>2, <1>5, <1>7, <1>9 DEF Slot
<1>10. CASE r = Reaped(s, code, stopped)
  <2>1. r = [s EXCEPT !.pid = 0, !.age = 0, !.abnormal = abnormal, !.cleanSince = clean,
                      !.failures = failures, !.wait = wait]
    BY <1>1, <1>10
  <2> QED BY <2>1, <1>5, <1>6, <1>9 DEF abnormal
<1>11. CASE r = [Reaped(s, code, stopped) EXCEPT !.wait = Never] /\ r # Reaped(s, code, stopped)
  <2>1. r = [s EXCEPT !.pid = 0, !.age = 0, !.abnormal = abnormal, !.cleanSince = clean,
                      !.failures = failures, !.wait = Never]
    BY <1>1, <1>11
  <2> QED BY <2>1, <1>5, <1>8, <1>9, <1>11 DEF abnormal
<1> QED BY <1>10, <1>11

LEMMA ReapOneActs == ASSUME SupervisorInv, ReapOne, setup' = setup PROVE SupervisorInv'
<1> USE DEF SupervisorInv
<1> DEFINE i == Min(todo)
           s == slot[i]
           c == child[s.pid]
           stopped == (ShutdownSet \/ s.retiring) /\ ExitedOnSignal(c.code)
           shown == IF stopped THEN 0 ELSE c.code
           raises == Restart /\ ~ShutdownSet /\ ~s.retiring /\ Overflows(s, c.code)
<1>1. SetupKept BY SetupSame
<1>2. /\ phase \in {"reap", "stopping"} /\ todo # {}
      /\ UNCHANGED <<nextIndex, failing, history, deaths, countVars>>
  BY DEF ReapOne
<1>3. i \in todo /\ i \in listed /\ i \in Index
  <2>1. todo \subseteq Index /\ Index \subseteq Nat /\ todo \subseteq listed
    BY DEF TypeOK, Index
  <2>2. todo \in SUBSET Nat BY <2>1
  <2>3. i \in todo BY <1>2, <2>2, MinIsIn
  <2> QED BY <2>1, <2>3
<1>4. CASE ~Running(i) \/ c.st # "dead"
  <2>1. /\ todo' = todo \ {i}
        /\ UNCHANGED <<phase, deadline, forced, raised, result, listed, slot, child, requests,
                       scaled, pending, exitCodes>>
    BY <1>4 DEF ReapOne
  <2>2. requests \in Nat BY SetupTypes DEF TypeOK
  <2>3. Quiet
    BY <1>2, <2>1, <2>2
    DEF Quiet, SameSlots, SameChildren, Early, Final, Forwarded, countVars
  <2>4. TypeOK' BY <1>1, <1>2, <2>1 DEF TypeOK, Phases, SetupKept, countVars
  <2>5. LoopInv'
    BY <1>1, <1>2, <2>1, CombinedSame
    DEF LoopInv, Passes, Late, Final, ShutdownSet, SetupKept
  <2> QED BY <2>1, <2>3, <2>4, <2>5, QuietActs
<1>5. CASE Running(i) /\ c.st = "dead"
  <2>1. /\ exitCodes' = Append(exitCodes, shown)
        /\ child' = [child EXCEPT ![s.pid] = Gone]
        /\ \/ /\ raises /\ Raise /\ listed' = listed
              /\ slot' = [slot EXCEPT ![i] = [Reaped(s, c.code, stopped) EXCEPT !.wait = Never]]
           \/ /\ slot' = [slot EXCEPT ![i] = Reaped(s, c.code, stopped)]
              /\ listed' = IF s.retiring THEN listed \ {i} ELSE listed
              /\ todo' = todo \ {i}
              /\ UNCHANGED <<phase, deadline, forced, raised, result, requests, scaled, pending>>
    BY <1>5 DEF ReapOne
  <2>2. /\ s \in Slot /\ s.pid \in Pid /\ c \in Child /\ c.code \in Codes
        /\ s.retiring \in BOOLEAN
    BY <1>3, <1>5 DEF TypeOK, Slot, Child, Running
  <2>3. c.code \in Int /\ shown \in Codes /\ stopped \in BOOLEAN
    <3>1. Codes \subseteq -64 .. 255 /\ 0 \in Codes BY CodesType DEF TypeOK, Codes
    <3>2. stopped \in BOOLEAN BY <2>2 DEF ShutdownSet, ExitedOnSignal
    <3>3. \A x \in -64 .. 255 : x \in Int OBVIOUS
    <3> HIDE DEF stopped, c, SupervisorInv
    <3>4. c.code \in Int BY <2>2, <3>1, <3>3
    <3>5. shown \in {0, c.code} OBVIOUS
    <3> QED BY <2>2, <3>1, <3>2, <3>4, <3>5
  <2>4. stopped => c.code = -Sigterm BY DEF ExitedOnSignal
  <2>5. ~ShutdownSet => phase = "reap" /\ phase \in Early BY <1>2 DEF LoopInv, Late, Early
  <2>6. /\ s.failures <= deaths
        /\ Restart /\ ~ShutdownSet /\ ~s.retiring => s.failures < deaths
    BY <1>3, <1>5, <2>5 DEF CountInv, Out
  <2> DEFINE r == slot'[i]
  <2>7. r \in {Reaped(s, c.code, stopped), [Reaped(s, c.code, stopped) EXCEPT !.wait = Never]}
        /\ \A j \in Index : j # i => slot'[j] = slot[j]
    BY <1>3, <2>1 DEF TypeOK
  <2>8. slot' = [slot EXCEPT ![i] = r] BY <1>3, <2>1 DEF TypeOK
  <2> HIDE DEF i, stopped, shown, r
  <2>9. /\ r \in Slot /\ r.pid = 0 /\ r.started = s.started /\ r.retiring = s.retiring
        /\ r.failures <= deaths /\ r.abnormal = Abnormal(s, c.code, stopped)
        /\ (/\ r = Reaped(s, c.code, stopped)
            /\ Restart /\ ~ShutdownSet /\ ~s.retiring) => r.wait # Never
    <3>1. deaths \in 0 .. MaxDeaths /\ failing \in BOOLEAN /\ setup \in Setups BY DEF TypeOK
    <3> QED BY <2>2, <2>3, <2>6, <2>7, <3>1, ReapedSlot
  <2>10. slot' \in [Index -> Slot] BY <2>8, <2>9 DEF TypeOK
  <2>11. \A j \in Index : Running(j)' <=> (Running(j) /\ j # i)
    BY <2>7, <2>9 DEF Running, r
  <2>12. /\ child' \in [Pid -> Child] /\ child'[s.pid].st = "dead"
         /\ \A p \in Pid : p # s.pid => child'[p] = child[p]
    <3>1. Gone \in Child /\ Gone.st = "dead"
      <4>1. Unborn \in Child BY SetupTypes DEF Unborn, Child, Codes, TypeOK
      <4> QED BY <4>1 DEF Gone, Child
    <3> QED BY <2>1, <2>2, <3>1 DEF TypeOK
  <2>13. \A j \in Index : (j # i /\ Running(j)) =>
             /\ slot[j].pid \in Pid /\ slot[j].pid # s.pid
             /\ slot'[j].pid = slot[j].pid /\ child'[slot'[j].pid] = child[slot[j].pid]
    <3> TAKE j \in Index
    <3> HAVE j # i /\ Running(j)
    <3>1. slot[j].pid \in Pid BY DEF Running, TypeOK, Slot
    <3>2. slot[j].pid # s.pid BY <1>3, <1>5 DEF SlotInv
    <3> QED BY <3>1, <3>2, <2>7, <2>12
  <2>14. \A p \in Pid : Alive(p)' => Alive(p) /\ p # s.pid /\ child'[p] = child[p]
    BY <2>12 DEF Alive
  <2>15. /\ listed' \in {listed, listed \ {i}} /\ (s.retiring => listed' = listed \ {i})
         /\ (~s.retiring => listed' = listed)
    BY <2>1
  <2>16. \/ /\ raises /\ Raise /\ listed' = listed
         \/ /\ r = Reaped(s, c.code, stopped) /\ todo' = todo \ {i}
            /\ UNCHANGED <<phase, deadline, forced, raised, result, requests, scaled, pending>>
    BY <1>3, <2>1 DEF r, TypeOK
  <2>17. requests \in Nat /\ requests' \in {requests, requests + 1} /\ requests' >= requests
    <3>1. requests \in Nat BY SetupTypes DEF TypeOK
    <3> QED BY <2>16, <3>1 DEF Raise
  <2>18. pending' = pending /\ scaled' = scaled /\ history' = history /\ deaths' = deaths
         /\ forced' = forced /\ nextIndex' = nextIndex /\ restarts' = restarts
         /\ nextPid' = nextPid /\ failing' = failing /\ deadline' = deadline /\ result' = result
    BY <1>2, <2>16 DEF Raise, countVars
  <2>19. /\ phase' \in {"reap", "stopping", "stop"} /\ (phase' \in Early => phase \in Early)
         /\ phase' = "stopping" => phase = "stopping"
         /\ phase' \notin Passes => todo' = {}
         /\ phase' = "stop" => raises /\ raised' /\ requests' = requests + 1 /\ requests = 0
         /\ phase' # "stop" => requests' = requests /\ raised' = raised /\ phase' = phase
    BY <1>2, <2>5, <2>16, <2>17 DEF Raise, Passes, Early, ShutdownSet
  <2>20. /\ exitCodes' \in Seq(Codes)
         /\ \A codes : (\E k \in DOMAIN exitCodes : exitCodes[k] \in codes)
                              => \E k \in DOMAIN exitCodes' : exitCodes'[k] \in codes
         /\ \A codes : shown \in codes => \E k \in DOMAIN exitCodes' : exitCodes'[k] \in codes
         /\ Cardinality(Odd) \in Nat /\ Cardinality(Odd') \in Nat
         /\ Cardinality(Odd) <= Cardinality(Odd')
         /\ shown \notin {0, EmptyCode} => Cardinality(Odd') = Cardinality(Odd) + 1
    BY <2>1, <2>3, CodeAppended
  <2>21. TypeOK'
    <3>1. todo' \subseteq listed' /\ listed' \subseteq Index
      BY <2>15, <2>16 DEF Raise, TypeOK
    <3>2. requests' \in 0 .. MaxRequests + 1 /\ raised' \in BOOLEAN /\ phase' \in Phases
      <4>1. MaxRequests \in Nat BY SetupTypes DEF TypeOK
      <4>2. requests' = requests + 1 => requests = 0 \/ requests <= MaxRequests
        BY <2>19 DEF LoopInv, TypeOK
      <4>3. requests \in 0 .. MaxRequests + 1 /\ raised \in BOOLEAN BY DEF TypeOK
      <4>4. raised' \in BOOLEAN /\ phase' \in Phases
        BY <4>3, <2>16, <2>19 DEF Phases, Raise
      <4> HIDE DEF SupervisorInv
      <4> QED BY <4>1, <4>2, <4>3, <4>4, <2>17
    <3> QED BY <1>1, <2>10, <2>12, <2>18, <2>20, <3>1, <3>2 DEF TypeOK, SetupKept
  <2>22. LoopInv'
    <3>1. CASE phase' = "stop"
      <4>1. /\ ~forced /\ ShutdownSet' /\ (Graceful /\ ShutdownTimeout = 0 => deadline' = Never)
        BY <1>2, <2>18, <2>19, <3>1 DEF LoopInv, Final, ShutdownSet
      <4> QED BY <1>1, <2>18, <2>19, <3>1, <4>1 DEF LoopInv, Passes, Late, Final, SetupKept
    <3>2. CASE phase' # "stop"
      <4>1. /\ phase' = phase /\ requests' = requests /\ raised' = raised BY <2>19, <3>2
      <4> QED BY <1>1, <1>2, <2>18, <4>1
          DEF LoopInv, Passes, Late, Final, SetupKept, ShutdownSet
    <3> QED BY <3>1, <3>2
  <2>23. SlotInv'
    <3>1. \A j \in Index : j >= nextIndex => slot'[j] = NewSlot
      <4>1. i \in 1 .. nextIndex - 1 BY <1>3 DEF SlotInv
      <4>2. nextIndex \in Nat BY DEF TypeOK
      <4>3. i < nextIndex /\ i \in Nat BY <4>1, <4>2, <1>3 DEF Index
      <4>4. \A j \in Index : j >= nextIndex => j # i
        <5> HIDE DEF SupervisorInv
        <5> QED BY <4>2, <4>3 DEF Index
      <4> QED BY <4>4, <2>7 DEF SlotInv
    <3>2. /\ \A j \in Index : Running(j)' => j \in listed' /\ slot'[j].started
                                                /\ slot'[j].pid < nextPid'
                                                /\ child'[slot'[j].pid].st # "unborn"
      BY <2>7, <2>11, <2>13, <2>15, <2>18 DEF SlotInv
    <3>3. \A j, k \in Index : (Running(j)' /\ slot'[j].pid = slot'[k].pid) => j = k
      BY <2>7, <2>9, <2>11 DEF SlotInv, Running, r
    <3>4. \A p \in Pid : p >= nextPid' => child'[p].st = "unborn"
      <4>1. ~(s.pid >= nextPid)
        <5>1. s.pid < nextPid BY <1>3, <1>5 DEF SlotInv
        <5>2. nextPid \in Nat BY DEF TypeOK
        <5> QED BY <5>1, <5>2, <2>2 DEF Pid
      <4> QED BY <4>1, <2>12, <2>18 DEF SlotInv
    <3>5. \A p \in Pid : Alive(p)' => \E j \in listed' : slot'[j].pid = p
      <4> TAKE p \in Pid
      <4> HAVE Alive(p)'
      <4>1. Alive(p) /\ p # s.pid BY <2>14
      <4>2. PICK j \in listed : slot[j].pid = p BY <4>1 DEF SlotInv
      <4>3. j # i /\ j \in Index BY <4>1, <4>2 DEF TypeOK
      <4> QED BY <4>2, <4>3, <2>7, <2>15
    <3>6. \A j \in listed' : slot'[j].retiring => Running(j)'
      <4> TAKE j \in listed'
      <4>1. j \in listed /\ j \in Index BY <2>15 DEF TypeOK
      <4>2. CASE j = i BY <4>2, <2>9, <2>15 DEF r
      <4>3. CASE j # i BY <4>1, <4>3, <1>2, <2>7, <2>11 DEF SlotInv, Final
      <4> QED BY <4>2, <4>3
    <3>7. listed' \subseteq 1 .. nextIndex' - 1 BY <2>15, <2>18 DEF SlotInv
    <3>8. phase' \notin Final \cup {"bury"} BY <2>19 DEF Final
    <3> QED BY <2>18, <3>1, <3>2, <3>3, <3>4, <3>5, <3>6, <3>7, <3>8 DEF SlotInv, Final
  <2>24. AskedInv'
    <3>1. (Graceful' /\ Forwarded')
          => \A p \in Pid : Alive(p)' => child'[p].hits > 0 \/ child'[p].st = "leaving"
      BY <1>1, <2>14, <2>19 DEF AskedInv, Forwarded, SetupKept
    <3>2. phase' \in Early
          => \A j \in Index : (Running(j)' /\ ~slot'[j].retiring) => child'[slot'[j].pid].hits = 0
      BY <2>7, <2>11, <2>13, <2>19 DEF AskedInv
    <3>3. \A j \in Index : slot'[j].retiring = slot[j].retiring
      BY <2>7, <2>9 DEF r
    <3> QED BY <1>1, <2>18, <3>1, <3>2, <3>3 DEF AskedInv, SetupKept
  <2>25. CountInv'
    <3>1. Begun' = Begun BY <2>7, <2>9 DEF Begun, r
    <3>2. Owed' \subseteq Owed
      <4>1. SUFFICES ASSUME NEW j \in Index, slot'[j].started, ~slot'[j].retiring,
                            Running(j)' => child'[slot'[j].pid].st \in Out,
                            ~Running(j)' => j \in listed' /\ slot'[j].wait # Never
                     PROVE  j \in Owed
        BY DEF Owed
      <4>2. CASE j = i BY <4>1, <4>2, <1>5, <2>9 DEF Owed, r, Out
      <4>3. CASE j # i
        <5>1. slot'[j] = slot[j] /\ (Running(j)' <=> Running(j)) BY <4>3, <2>7, <2>11
        <5>2. Running(j) => child'[slot'[j].pid] = child[slot[j].pid] BY <4>3, <2>13
        <5>3. j \in listed' => j \in listed BY <2>15
        <5> QED BY <4>1, <5>1, <5>2, <5>3 DEF Owed
      <4> QED BY <4>2, <4>3
    <3>3. IsFiniteSet(Owed) BY IndexFinite DEF Owed
    <3>4. /\ Cardinality(Owed') <= Cardinality(Owed) /\ Cardinality(Owed') \in Nat
          /\ Cardinality(Owed) \in Nat
      BY <3>2, <3>3, FewerCount
    <3>5. phase' \in Early => restarts[1] + Cardinality(Owed') <= deaths
      <4>1. restarts[1] \in Nat /\ deaths \in Nat BY DEF TypeOK
      <4>2. phase' \in Early => restarts[1] + Cardinality(Owed) <= deaths BY <2>19 DEF CountInv
      <4> HIDE DEF SupervisorInv
      <4> QED BY <4>1, <4>2, <3>4
    <3>6. phase' \in Early
            => \A j \in Index :
                  (Running(j)' /\ ~slot'[j].retiring /\ child'[slot'[j].pid].st \in Out)
                    => slot'[j].failures < deaths
      BY <2>7, <2>11, <2>13, <2>19 DEF CountInv
    <3>7. \A j \in Index : slot'[j].failures <= deaths BY <2>7, <2>9 DEF CountInv, r
    <3> QED BY <1>1, <2>18, <3>1, <3>5, <3>6, <3>7 DEF CountInv, SetupKept
  <2>26. AbnormalInv'
    <3>1. restarts[2] \in Nat /\ restarts[2] <= Cardinality(Odd) BY DEF TypeOK, AbnormalInv
    <3>2. IsFiniteSet(Broken) /\ Cardinality(Broken) \in Nat
      BY IndexFinite, FS_CardinalityType DEF Broken
    <3>3. phase' \in Early => restarts[2] + Cardinality(Broken) <= Cardinality(Odd)
      BY <2>19 DEF AbnormalInv
    <3>4. CASE Abnormal(s, c.code, stopped)
      <4>1. shown \notin {0, EmptyCode} BY <3>4 DEF Abnormal, shown
      <4>2. Broken' \subseteq Broken \cup {i} BY <2>7, <2>11 DEF Broken
      <4>3. Cardinality(Broken') \in Nat /\ Cardinality(Broken') <= Cardinality(Broken) + 1
        BY <3>2, <4>2, OneMoreCounts
      <4> HIDE DEF SupervisorInv
      <4>4. /\ restarts[2] <= Cardinality(Odd')
            /\ phase' \in Early => restarts[2] + Cardinality(Broken') <= Cardinality(Odd')
        BY <2>20, <3>1, <3>2, <3>3, <4>1, <4>3
      <4> QED BY <2>18, <4>4 DEF AbnormalInv
    <3>5. CASE ~Abnormal(s, c.code, stopped)
      <4>1. Broken' \subseteq Broken BY <2>7, <2>9, <2>11, <3>5 DEF Broken, r
      <4>2. Cardinality(Broken') \in Nat /\ Cardinality(Broken') <= Cardinality(Broken)
        BY <3>2, <4>1, FewerCount
      <4> HIDE DEF SupervisorInv
      <4>3. /\ restarts[2] <= Cardinality(Odd')
            /\ phase' \in Early => restarts[2] + Cardinality(Broken') <= Cardinality(Odd')
        BY <2>20, <3>1, <3>2, <3>3, <4>2
      <4> QED BY <2>18, <4>3 DEF AbnormalInv
    <3> QED BY <3>4, <3>5
  <2>27. CapacityInv'
    <3>1. Active' = Active
      <4>1. listed \subseteq Index BY DEF TypeOK
      <4>2. \A j \in Index : slot'[j].retiring = slot[j].retiring BY <2>7, <2>9 DEF r
      <4> QED BY <2>15, <4>1, <4>2 DEF Active
    <3>2. ASSUME Restart, phase' \in Early, ~ShutdownSet', NEW j \in Active
          PROVE  Running(j)' \/ slot'[j].wait # Never
      <4>1. /\ ~ShutdownSet /\ phase' # "stop" /\ j \in Index /\ ~slot[j].retiring
        BY <3>2, <2>17, <2>19 DEF ShutdownSet, Active, TypeOK
      <4>2. CASE j = i
        <5>1. r = Reaped(s, c.code, stopped) BY <2>16, <4>1 DEF Raise
        <5> QED BY <5>1, <4>1, <4>2, <3>2, <2>9 DEF r
      <4>3. CASE j # i
        BY <4>1, <4>3, <3>2, <2>7, <2>11, <2>19 DEF CapacityInv
      <4> QED BY <4>2, <4>3
    <3> QED BY <1>1, <3>1, <3>2 DEF CapacityInv, SetupKept
  <2>28. HistoryInv'
    <3>1. ASSUME NEW codes, NEW S, Seen(codes, S), c.code \in codes => shown \in codes
          PROVE  Seen(codes, S)'
      <4>1. CASE \E j \in Index : /\ Running(j) /\ child[slot[j].pid].st \in S
                                  /\ child[slot[j].pid].code \in codes
        <5>1. PICK j \in Index : /\ Running(j) /\ child[slot[j].pid].st \in S
                                 /\ child[slot[j].pid].code \in codes
          BY <4>1
        <5>2. CASE j = i BY <5>1, <5>2, <3>1, <2>20 DEF Seen
        <5>3. CASE j # i BY <5>1, <5>3, <2>11, <2>13 DEF Seen
        <5> QED BY <5>2, <5>3
      <4> QED BY <4>1, <3>1, <2>20 DEF Seen
    <3>2. c.code \in CrashCodes \cup {ForcedExit} => shown \in CrashCodes \cup {ForcedExit}
      BY <2>4, SupervisorAssumption DEF shown, ForcedExit, Sigterm
    <3>3. ASSUME NEW o, c.code \in Tells(o) PROVE shown \in Tells(o)
      <4>1. EmptyCode \in 0 .. 255 /\ FailedCode \in 0 .. 255 BY SetupTypes DEF TypeOK
      <4>2. WorkerExitCode(o) # -Sigterm BY <4>1 DEF WorkerExitCode, Sigterm
      <4> QED BY <2>4, <3>3, <4>2 DEF Tells, shown
    <3>4. requests' = 0 => requests = 0 BY <2>17
    <3>5. (Graceful /\ history \cap {"crash", "forced"} # {})
            => Seen(CrashCodes \cup {ForcedExit}, {"dead"})'
      BY <3>1, <3>2 DEF HistoryInv
    <3>6. \A o : Seen(Tells(o), Out) => Seen(Tells(o), Out)'
      <4> TAKE o
      <4> HAVE Seen(Tells(o), Out)
      <4> DEFINE codes == Tells(o)
      <4>1. codes' = codes BY <1>1 DEF SetupKept
      <4>2. c.code \in codes => shown \in codes BY <3>3
      <4> HIDE DEF codes
      <4>3. Seen(codes, Out) BY DEF codes
      <4>4. \/ \E j \in Index : /\ Running(j)' /\ child'[slot'[j].pid].st \in Out
                                /\ child'[slot'[j].pid].code \in codes
            \/ \E k \in DOMAIN exitCodes' : exitCodes'[k] \in codes
        BY <3>1, <4>2, <4>3 DEF Seen
      <4> QED BY <4>1, <4>4 DEF Seen, codes
    <3> QED BY <1>1, <2>18, <3>4, <3>5, <3>6 DEF HistoryInv, SetupKept
  <2>29. InterruptsNothing'
    <3>1. requests' <= 1 => requests <= 1 BY <2>17
    <3> QED BY <1>1, <2>18, <3>1 DEF InterruptsNothing, SetupKept
  <2> QED BY <2>21, <2>22, <2>23, <2>24, <2>25, <2>26, <2>27, <2>28, <2>29
<1> QED BY <1>4, <1>5

-----------------------------------------------------------------------------
(* Starting                                                                *)

(* A slot that is due has a process number left to take (_start_due): each *)
(* start is the first of its slot or answers an exit.                      *)
LEMMA NumberLeft ==
    ASSUME SupervisorInv, phase \in Early, NEW i \in listed, ~Running(i), slot[i].wait = 0
    PROVE  /\ nextPid \in Pid /\ i \in Index /\ i < nextIndex /\ ~slot[i].retiring
           /\ IF slot[i].started THEN i \in Owed /\ Begun \cup {i} = Begun
              ELSE i \notin Owed /\ Cardinality(Begun \cup {i}) = Cardinality(Begun) + 1
<1> USE DEF SupervisorInv
<1>1. /\ Workers \in Nat /\ MaxScale \in Nat /\ MaxDeaths \in Nat /\ nextIndex \in Nat
      /\ Workers + MaxScale + MaxDeaths <= MaxPids /\ MaxPids \in Nat
      /\ restarts[1] \in Nat /\ nextPid \in Nat /\ nextPid >= 1 /\ scaled \in 0 .. MaxScale
      /\ deaths \in 0 .. MaxDeaths /\ pending \in Int
  BY SetupTypes, SupervisorAssumption DEF TypeOK
<1>2. i \in Index /\ i \in 1 .. nextIndex - 1 BY DEF SlotInv, TypeOK
<1>3. i < nextIndex BY <1>1, <1>2
<1>4. ~slot[i].retiring BY DEF SlotInv, Early, Final
<1>5. IsFiniteSet(Begun) /\ IsFiniteSet(Owed) BY IndexFinite DEF Begun, Owed
<1>6. Begun \subseteq 1 .. nextIndex - 1
  <2>1. SUFFICES ASSUME NEW j \in Index, slot[j].started PROVE j \in 1 .. nextIndex - 1
    BY DEF Begun
  <2>2. ~(j >= nextIndex) BY <2>1 DEF SlotInv, NewSlot
  <2> HIDE DEF SupervisorInv
  <2> QED BY <2>2, <1>1 DEF Index
<1>7. IsFiniteSet(1 .. nextIndex - 1) /\ Cardinality(1 .. nextIndex - 1) = nextIndex - 1
  <2> HIDE DEF SupervisorInv
  <2>1. nextIndex - 1 \in Int /\ ~(1 > nextIndex - 1) /\ (nextIndex - 1) - 1 + 1 = nextIndex - 1
    BY <1>1, <1>2
  <2> QED BY <2>1, FS_Interval
<1>8. nextIndex - 1 <= Workers + MaxScale
  <2>1. /\ nextIndex - (Workers + 1) + pending <= scaled
        /\ nextIndex - (Workers + 1) - pending <= scaled
    BY DEF CountInv
  <2> HIDE DEF SupervisorInv
  <2> QED BY <2>1, <1>1
<1>9. restarts[1] + Cardinality(Begun) = nextPid - 1 /\ restarts[1] + Cardinality(Owed) <= deaths
  BY DEF CountInv
<1>10. Cardinality(Begun) \in Nat /\ Cardinality(Owed) \in Nat BY <1>5, FS_CardinalityType
<1>11. CASE slot[i].started
  <2>1. i \in Owed /\ Begun \cup {i} = Begun BY <1>2, <1>4, <1>11 DEF Owed, Begun, Never
  <2>2. Cardinality(Owed) # 0 BY <2>1, <1>5, FS_EmptySet
  <2>3. Cardinality(Begun) <= nextIndex - 1 BY <1>6, <1>7, FewerCount
  <2> HIDE DEF SupervisorInv
  <2>4. nextPid <= MaxPids BY <1>1, <1>8, <1>9, <1>10, <2>2, <2>3
  <2> QED BY <2>1, <2>4, <1>1, <1>2, <1>3, <1>4, <1>11 DEF Pid
<1>12. CASE ~slot[i].started
  <2>1. i \notin Owed /\ i \notin Begun BY <1>12 DEF Owed, Begun
  <2>2. Cardinality(Begun \cup {i}) = Cardinality(Begun) + 1 BY <2>1, <1>5, FS_AddElement
  <2>3. Cardinality(Begun \cup {i}) <= nextIndex - 1
    <3>1. Begun \cup {i} \subseteq 1 .. nextIndex - 1 BY <1>2, <1>6
    <3> QED BY <3>1, <1>7, FewerCount
  <2> HIDE DEF SupervisorInv
  <2>4. nextPid <= MaxPids BY <1>1, <1>8, <1>9, <1>10, <2>2, <2>3
  <2> QED BY <2>1, <2>2, <2>4, <1>1, <1>2, <1>3, <1>4, <1>12 DEF Pid
<1> QED BY <1>11, <1>12

LEMMA StartOneActs == ASSUME SupervisorInv, StartOne, setup' = setup PROVE SupervisorInv'
<1> USE DEF SupervisorInv
<1> DEFINE i == Min(todo)
<1>1. SetupKept BY SetupSame
<1>2. /\ phase = "start" /\ phase \in Early /\ todo # {} /\ requests \in Nat
      /\ UNCHANGED <<listed, nextIndex, failing, history, deaths, exitCodes>>
  BY SetupTypes DEF StartOne, Early, TypeOK
<1>3. i \in todo /\ i \in listed /\ i \in Index
  <2>1. todo \subseteq Index /\ Index \subseteq Nat /\ todo \subseteq listed
    BY DEF TypeOK, Index
  <2>2. todo \in SUBSET Nat BY <2>1
  <2>3. i \in todo BY <1>2, <2>2, MinIsIn
  <2> QED BY <2>1, <2>3
<1>4. \/ /\ todo' = todo \ {i}
         /\ UNCHANGED <<phase, deadline, forced, raised, result, slot, child, requests, scaled,
                        pending, countVars>>
      \/ /\ Due(i) /\ todo' = todo \ {i}
         /\ slot' = [slot EXCEPT ![i].pid = nextPid, ![i].age = 0, ![i].wait = Never,
                                 ![i].started = TRUE]
         /\ child' = [child EXCEPT ![nextPid] = [Unborn EXCEPT !.st = "starting"]]
         /\ nextPid' = nextPid + 1
         /\ restarts' = IF slot[i].started
                        THEN <<restarts[1] + 1, restarts[2] + IF slot[i].abnormal THEN 1 ELSE 0>>
                        ELSE restarts
         /\ UNCHANGED <<phase, deadline, forced, raised, result, requests, scaled, pending>>
      \/ Raise /\ UNCHANGED <<slot, child, countVars>>
  BY DEF StartOne
<1> HIDE DEF i
<1>5. CASE /\ todo' = todo \ {i}
           /\ UNCHANGED <<phase, deadline, forced, raised, result, slot, child, requests, scaled,
                          pending, countVars>>
  <2>1. Quiet
    BY <1>2, <1>5 DEF Quiet, SameSlots, SameChildren, Early, Final, Forwarded, countVars
  <2>2. TypeOK' BY <1>1, <1>2, <1>5 DEF TypeOK, Phases, SetupKept, countVars
  <2>3. LoopInv'
    BY <1>1, <1>2, <1>5, CombinedSame DEF LoopInv, Passes, Late, Final, ShutdownSet, SetupKept
  <2> QED BY <1>5, <2>1, <2>2, <2>3, QuietActs
<1>6. CASE Raise /\ UNCHANGED <<slot, child, countVars>>
  <2>1. /\ requests' = requests + 1 /\ requests <= MaxRequests /\ MaxRequests \in Nat
        /\ pending' = pending /\ scaled' = scaled
    BY <1>2, <1>6, SetupTypes DEF Raise, LoopInv, Late, TypeOK
  <2>2. requests' \in 0 .. MaxRequests + 1 /\ requests' \in Nat /\ requests <= requests'
    BY <1>2, <2>1
  <2>3. Quiet
    BY <1>2, <1>6, <2>2
    DEF Quiet, SameSlots, SameChildren, Early, Final, Forwarded, Raise, countVars
  <2>4. TypeOK'
    BY <1>1, <1>2, <1>6, <2>2 DEF TypeOK, Phases, SetupKept, Raise, countVars
  <2>5. LoopInv'
    <3>1. requests' > 0 BY <1>2, <2>1
    <3> QED BY <1>1, <1>2, <1>6, <3>1
        DEF LoopInv, Passes, Late, Final, ShutdownSet, SetupKept, Raise
  <2> QED BY <2>1, <2>3, <2>4, <2>5, QuietActs
<1>7. CASE /\ Due(i) /\ todo' = todo \ {i}
           /\ slot' = [slot EXCEPT ![i].pid = nextPid, ![i].age = 0, ![i].wait = Never,
                                   ![i].started = TRUE]
           /\ child' = [child EXCEPT ![nextPid] = [Unborn EXCEPT !.st = "starting"]]
           /\ nextPid' = nextPid + 1
           /\ restarts' = IF slot[i].started
                          THEN <<restarts[1] + 1,
                                 restarts[2] + IF slot[i].abnormal THEN 1 ELSE 0>>
                          ELSE restarts
           /\ UNCHANGED <<phase, deadline, forced, raised, result, requests, scaled, pending>>
  <2>1. ~Running(i) /\ slot[i].wait = 0 BY <1>7 DEF Due
  <2>2. /\ nextPid \in Pid /\ i < nextIndex /\ ~slot[i].retiring
        /\ IF slot[i].started THEN i \in Owed /\ Begun \cup {i} = Begun
           ELSE i \notin Owed /\ Cardinality(Begun \cup {i}) = Cardinality(Begun) + 1
    BY <1>2, <1>3, <2>1, NumberLeft
  <2>3. /\ slot' \in [Index -> Slot] /\ slot'[i].pid = nextPid /\ slot'[i].started
        /\ slot'[i].retiring = slot[i].retiring /\ slot'[i].failures = slot[i].failures
        /\ \A j \in Index : j # i => slot'[j] = slot[j]
    <3>1. 0 \in 0 .. StableAfter BY SupervisorAssumption
    <3>2. slot[i] \in Slot BY <1>3 DEF TypeOK
    <3>3. [slot[i] EXCEPT !.pid = nextPid, !.age = 0, !.wait = Never, !.started = TRUE] \in Slot
      BY <2>2, <3>1, <3>2 DEF Slot
    <3>4. slot' = [slot EXCEPT ![i] = [slot[i] EXCEPT !.pid = nextPid, !.age = 0,
                                                      !.wait = Never, !.started = TRUE]]
      BY <1>7
    <3> QED BY <1>3, <3>2, <3>3, <3>4 DEF TypeOK, Slot
  <2>4. /\ child' \in [Pid -> Child] /\ child'[nextPid].st = "starting"
        /\ child'[nextPid].hits = 0
        /\ \A p \in Pid : p # nextPid => child'[p] = child[p]
    <3>1. /\ [Unborn EXCEPT !.st = "starting"] \in Child
          /\ [Unborn EXCEPT !.st = "starting"].st = "starting"
          /\ [Unborn EXCEPT !.st = "starting"].hits = 0
      <4>1. Unborn \in Child BY SetupTypes DEF Unborn, Child, Codes, TypeOK
      <4>2. Unborn.hits = 0 BY DEF Unborn
      <4> QED BY <4>1, <4>2 DEF Child
    <3> QED BY <1>7, <2>2, <3>1 DEF TypeOK
  <2>5. \A j \in Index : Running(j)' <=> (Running(j) \/ j = i)
    <3>1. nextPid # 0 BY <2>2 DEF Pid
    <3> QED BY <2>3, <3>1 DEF Running
  <2>6. \A j \in Index : Running(j) =>
            /\ j # i /\ slot'[j] = slot[j] /\ slot[j].pid \in Pid /\ slot[j].pid # nextPid
            /\ child'[slot'[j].pid] = child[slot[j].pid] /\ slot[j].pid < nextPid
    <3> TAKE j \in Index
    <3> HAVE Running(j)
    <3>1. slot[j].pid \in Pid /\ slot[j].pid < nextPid /\ j # i
      BY <2>1 DEF SlotInv, Running, TypeOK, Slot
    <3>2. slot[j].pid # nextPid
      <4> HIDE DEF SupervisorInv
      <4> QED BY <3>1, <2>2 DEF Pid
    <3> QED BY <3>1, <3>2, <2>3, <2>4
  <2>7. \A p \in Pid : Alive(p)' => p = nextPid \/ (Alive(p) /\ child'[p] = child[p])
    BY <2>4 DEF Alive
  <2>8. /\ restarts[1] \in Nat /\ restarts[2] \in Nat /\ deaths \in Nat /\ MaxDeaths \in Nat
        /\ deaths <= MaxDeaths /\ restarts[2] <= restarts[1]
        /\ restarts[1] + Cardinality(Owed) <= deaths
        /\ restarts[2] + Cardinality(Broken) <= Cardinality(Odd)
    BY <1>2, SetupTypes DEF TypeOK, CountInv, AbnormalInv
  <2>9. IsFiniteSet(Owed) /\ IsFiniteSet(Broken) /\ IsFiniteSet(Begun)
        /\ Cardinality(Owed) \in Nat /\ Cardinality(Broken) \in Nat /\ Cardinality(Begun) \in Nat
    BY IndexFinite, FS_CardinalityType DEF Owed, Broken, Begun
  <2>10. Owed' \subseteq Owed \ {i}
    <3> SUFFICES ASSUME NEW j \in Index, slot'[j].started, ~slot'[j].retiring,
                        Running(j)' => child'[slot'[j].pid].st \in Out,
                        ~Running(j)' => j \in listed' /\ slot'[j].wait # Never
                 PROVE  j \in Owed \ {i}
      BY DEF Owed
    <3>1. j # i BY <2>3, <2>4, <2>5 DEF Out
    <3>2. slot'[j] = slot[j] /\ (Running(j)' <=> Running(j)) BY <3>1, <2>3, <2>5
    <3>3. listed' = listed BY <1>2
    <3> QED BY <3>1, <3>2, <3>3, <2>6 DEF Owed
  <2>11. /\ Cardinality(Owed') \in Nat /\ Cardinality(Owed') <= Cardinality(Owed)
         /\ i \in Owed => Cardinality(Owed') + 1 <= Cardinality(Owed)
    <3>1. /\ IsFiniteSet(Owed \ {i})
          /\ i \in Owed => Cardinality(Owed \ {i}) = Cardinality(Owed) - 1
      BY <2>9, FS_RemoveElement, FS_Subset
    <3>2. /\ Cardinality(Owed') \in Nat /\ Cardinality(Owed \ {i}) \in Nat
          /\ Cardinality(Owed') <= Cardinality(Owed \ {i})
      BY <2>10, <3>1, FewerCount
    <3>3. Owed' \subseteq Owed BY <2>10
    <3>4. Cardinality(Owed') <= Cardinality(Owed) BY <2>9, <3>3, FewerCount
    <3> HIDE DEF SupervisorInv
    <3> QED BY <2>9, <3>1, <3>2, <3>4
  <2>12. Broken' \subseteq Broken \ {i}
    <3>1. \A j \in Index : ~Running(j)' => j # i /\ ~Running(j) /\ slot'[j] = slot[j]
      BY <2>3, <2>5
    <3> QED BY <3>1 DEF Broken
  <2>13. /\ Cardinality(Broken') \in Nat /\ Cardinality(Broken') <= Cardinality(Broken)
         /\ i \in Broken => Cardinality(Broken') + 1 <= Cardinality(Broken)
    <3>1. /\ IsFiniteSet(Broken \ {i})
          /\ i \in Broken => Cardinality(Broken \ {i}) = Cardinality(Broken) - 1
      BY <2>9, FS_RemoveElement, FS_Subset
    <3>2. /\ Cardinality(Broken') \in Nat /\ Cardinality(Broken \ {i}) \in Nat
          /\ Cardinality(Broken') <= Cardinality(Broken \ {i})
      BY <2>12, <3>1, FewerCount
    <3>3. Broken' \subseteq Broken BY <2>12
    <3>4. Cardinality(Broken') <= Cardinality(Broken) BY <2>9, <3>3, FewerCount
    <3> HIDE DEF SupervisorInv
    <3> QED BY <2>9, <3>1, <3>2, <3>4
  <2>14. /\ restarts'[1] = restarts[1] + (IF slot[i].started THEN 1 ELSE 0)
         /\ restarts'[2] = restarts[2] + (IF slot[i].started /\ slot[i].abnormal THEN 1 ELSE 0)
         /\ restarts' = <<restarts'[1], restarts'[2]>>
    <3>1. restarts = <<restarts[1], restarts[2]>> BY DEF TypeOK
    <3>2. CASE slot[i].started BY <1>7, <2>8, <3>2
    <3>3. CASE ~slot[i].started BY <1>7, <2>8, <3>1, <3>3
    <3> QED BY <3>2, <3>3
  <2>15. Begun' = Begun \cup {i} BY <1>3, <2>3 DEF Begun
  <2>16. slot[i].abnormal => i \in Broken BY <1>3, <2>1 DEF Broken
  <2>17. /\ restarts'[1] \in Nat /\ restarts'[2] \in Nat /\ restarts'[1] <= deaths
         /\ restarts'[2] <= restarts'[1] /\ restarts'[1] + Cardinality(Owed') <= deaths
         /\ restarts'[2] + Cardinality(Broken') <= Cardinality(Odd)
         /\ restarts'[1] + Cardinality(Begun') = nextPid' - 1
    <3>1. nextPid' = nextPid + 1 /\ nextPid \in Nat BY <1>7 DEF TypeOK
    <3>2. restarts[1] + Cardinality(Begun) = nextPid - 1 BY DEF CountInv
    <3>3. Cardinality(Odd) \in Nat
      <4>1. DOMAIN exitCodes = 1 .. Len(exitCodes) /\ Len(exitCodes) \in Nat BY DEF TypeOK
      <4>2. IsFiniteSet(1 .. Len(exitCodes)) BY <4>1, FS_Interval
      <4> QED BY <4>1, <4>2, FS_Subset, FS_CardinalityType DEF Odd
    <3> HIDE DEF SupervisorInv
    <3>4. CASE slot[i].started
      <4>1. /\ restarts'[1] = restarts[1] + 1 /\ Cardinality(Owed') + 1 <= Cardinality(Owed)
            /\ Begun' = Begun
        BY <3>4, <2>2, <2>11, <2>14, <2>15
      <4>2. restarts'[1] + Cardinality(Owed') <= deaths /\ restarts'[1] <= deaths
        BY <4>1, <2>8, <2>9, <2>11
      <4>3. restarts'[2] + Cardinality(Broken') <= restarts[2] + Cardinality(Broken)
        BY <3>4, <2>8, <2>9, <2>13, <2>14, <2>16
      <4>4. /\ restarts'[2] \in Nat /\ restarts'[2] <= restarts[2] + 1
            /\ restarts'[1] \in Nat /\ restarts'[2] <= restarts'[1]
        BY <4>1, <2>8, <2>14
      <4>5. restarts'[2] + Cardinality(Broken') <= Cardinality(Odd)
        BY <4>3, <4>4, <2>8, <2>9, <2>13, <3>3
      <4>6. restarts'[1] + Cardinality(Begun') = nextPid' - 1
        <5>1. Cardinality(Begun') = Cardinality(Begun) BY <4>1
        <5>2. nextPid' - 1 = nextPid BY <3>1
        <5>3. restarts[1] + 1 + Cardinality(Begun) = nextPid BY <3>1, <3>2, <2>8, <2>9
        <5> QED BY <4>1, <5>1, <5>2, <5>3
      <4> QED BY <4>2, <4>4, <4>5, <4>6
    <3>5. CASE ~slot[i].started
      BY <3>1, <3>2, <3>3, <3>5, <2>2, <2>8, <2>9, <2>11, <2>13, <2>14, <2>15
    <3> QED BY <3>4, <3>5
  <2>18. /\ phase' = phase /\ deadline' = deadline /\ forced' = forced /\ raised' = raised
         /\ result' = result /\ requests' = requests /\ scaled' = scaled /\ pending' = pending
         /\ listed' = listed /\ nextIndex' = nextIndex /\ failing' = failing
         /\ history' = history /\ deaths' = deaths /\ exitCodes' = exitCodes
         /\ todo' = todo \ {i} /\ nextPid' = nextPid + 1
    BY <1>2, <1>7
  <2>19. TypeOK'
    <3>1. nextPid' \in 1 .. MaxPids + 1 BY <2>2, <2>18, SupervisorAssumption DEF Pid
    <3>2. restarts' \in (0 .. MaxDeaths) \X (0 .. MaxDeaths)
      <4>1. restarts'[1] \in 0 .. MaxDeaths /\ restarts'[2] \in 0 .. MaxDeaths
        <5> HIDE DEF SupervisorInv
        <5> QED BY <2>8, <2>17
      <4> QED BY <4>1, <2>14
    <3> QED BY <1>1, <2>3, <2>4, <2>18, <3>1, <3>2 DEF TypeOK, SetupKept
  <2>20. LoopInv'
    BY <1>1, <1>2, <2>18, CombinedSame
    DEF LoopInv, Passes, Late, Final, ShutdownSet, SetupKept
  <2>21. SlotInv'
    <3>1. \A j \in Index : j >= nextIndex => slot'[j] = NewSlot
      <4>1. \A j \in Index : j >= nextIndex => j # i
        <5>1. nextIndex \in Nat BY DEF TypeOK
        <5> HIDE DEF SupervisorInv
        <5> QED BY <5>1, <1>3, <2>2 DEF Index
      <4> QED BY <4>1, <2>3 DEF SlotInv
    <3>2. \A j \in Index : Running(j)' => /\ j \in listed' /\ slot'[j].started
                                          /\ slot'[j].pid < nextPid'
                                          /\ child'[slot'[j].pid].st # "unborn"
      <4> TAKE j \in Index
      <4> HAVE Running(j)'
      <4>1. nextPid < nextPid + 1 BY DEF TypeOK
      <4>2. CASE j = i BY <4>1, <4>2, <1>3, <2>3, <2>4, <2>18
      <4>3. CASE j # i
        <5>1. Running(j) BY <4>3, <2>5
        <5>2. slot[j].pid < nextPid + 1
          <6>1. slot[j].pid \in Nat /\ nextPid \in Nat /\ slot[j].pid < nextPid
            BY <5>1, <2>6 DEF Pid, TypeOK
          <6> HIDE DEF SupervisorInv
          <6> QED BY <6>1
        <5> QED BY <5>1, <5>2, <2>6, <2>18 DEF SlotInv
      <4> QED BY <4>2, <4>3
    <3>3. \A j, k \in Index : (Running(j)' /\ slot'[j].pid = slot'[k].pid) => j = k
      <4> TAKE j, k \in Index
      <4> HAVE Running(j)' /\ slot'[j].pid = slot'[k].pid
      <4>1. Running(k)' BY DEF Running
      <4>2. j = i \/ Running(j) BY <2>5
      <4>3. k = i \/ Running(k) BY <2>5, <4>1
      <4>4. CASE j = i /\ k # i BY <4>3, <4>4, <2>3, <2>6
      <4>5. CASE j # i /\ k = i BY <4>2, <4>5, <2>3, <2>6
      <4>6. CASE j # i /\ k # i BY <4>2, <4>6, <2>3 DEF SlotInv
      <4> QED BY <4>4, <4>5, <4>6
    <3>4. \A p \in Pid : p >= nextPid' => child'[p].st = "unborn"
      <4>1. \A p \in Pid : p >= nextPid + 1 => p >= nextPid /\ p # nextPid
        <5>1. nextPid \in Nat BY DEF TypeOK
        <5> HIDE DEF SupervisorInv
        <5> QED BY <5>1 DEF Pid
      <4> QED BY <4>1, <2>4, <2>18 DEF SlotInv
    <3>5. \A p \in Pid : Alive(p)' => \E j \in listed' : slot'[j].pid = p
      <4> TAKE p \in Pid
      <4> HAVE Alive(p)'
      <4>1. CASE p = nextPid BY <4>1, <1>3, <2>3, <2>18
      <4>2. CASE p # nextPid
        <5>1. Alive(p) BY <4>2, <2>7
        <5>2. PICK j \in listed : slot[j].pid = p BY <5>1 DEF SlotInv
        <5>3. j \in Index /\ Running(j) BY <5>2 DEF TypeOK, Running, Pid
        <5> QED BY <5>2, <5>3, <2>6, <2>18
      <4> QED BY <4>1, <4>2
    <3>6. \A j \in listed' : slot'[j].retiring => Running(j)'
      <4> TAKE j \in listed'
      <4>1. j \in listed /\ j \in Index BY <2>18 DEF TypeOK
      <4>2. CASE j = i BY <4>2, <2>5, <4>1
      <4>3. CASE j # i BY <4>1, <4>3, <1>2, <2>3, <2>5 DEF SlotInv, Final
      <4> QED BY <4>2, <4>3
    <3>7. listed' \subseteq 1 .. nextIndex' - 1 BY <2>18 DEF SlotInv
    <3>8. phase' \notin Final \cup {"bury"} BY <1>2, <2>18 DEF Final
    <3> QED BY <2>18, <3>1, <3>2, <3>3, <3>4, <3>5, <3>6, <3>7, <3>8 DEF SlotInv, Final
  <2>22. AskedInv'
    <3>1. \A j \in Index : (Running(j)' /\ ~slot'[j].retiring) => child'[slot'[j].pid].hits = 0
      BY <1>2, <2>3, <2>4, <2>5, <2>6 DEF AskedInv
    <3>2. \A j \in Index : slot'[j].retiring = slot[j].retiring BY <2>3
    <3> QED BY <1>1, <1>2, <2>18, <3>1, <3>2 DEF AskedInv, Forwarded, SetupKept
  <2>23. CountInv'
    <3>1. \A j \in Index :
              (Running(j)' /\ ~slot'[j].retiring /\ child'[slot'[j].pid].st \in Out)
                    => slot'[j].failures < deaths
      BY <1>2, <2>3, <2>4, <2>5, <2>6 DEF CountInv, Out
    <3>2. \A j \in Index : slot'[j].failures <= deaths BY <2>3 DEF CountInv
    <3> QED BY <1>1, <2>17, <2>18, <3>1, <3>2 DEF CountInv, SetupKept
  <2>24. AbnormalInv'
    <3>1. Odd' = Odd BY <1>1, <2>18 DEF Odd, SetupKept
    <3>2. restarts[2] \in Nat BY <2>8
    <3>3. Cardinality(Odd) \in Nat
      <4>1. DOMAIN exitCodes = 1 .. Len(exitCodes) /\ Len(exitCodes) \in Nat BY DEF TypeOK
      <4>2. IsFiniteSet(1 .. Len(exitCodes)) BY <4>1, FS_Interval
      <4> QED BY <4>1, <4>2, FS_Subset, FS_CardinalityType DEF Odd
    <3> HIDE DEF SupervisorInv
    <3>4. restarts'[2] <= Cardinality(Odd) BY <2>13, <2>17, <3>3
    <3> QED BY <2>17, <3>1, <3>4 DEF AbnormalInv
  <2>25. CapacityInv'
    <3>1. Active' = Active
      <4>1. listed \subseteq Index BY DEF TypeOK
      <4>2. \A j \in Index : slot'[j].retiring = slot[j].retiring BY <2>3
      <4> QED BY <2>18, <4>1, <4>2 DEF Active
    <3>2. ASSUME Restart, ~ShutdownSet, NEW j \in Active
          PROVE  Running(j)' \/ slot'[j].wait # Never
      <4>1. j \in Index BY DEF Active, TypeOK
      <4> QED BY <3>2, <4>1, <1>2, <2>3, <2>5 DEF CapacityInv
    <3> QED BY <1>1, <2>18, <3>1, <3>2 DEF CapacityInv, SetupKept, ShutdownSet
  <2>26. HistoryInv'
    <3>1. \A codes, S : Seen(codes, S) => Seen(codes, S)' BY <2>5, <2>6, <2>18 DEF Seen
    <3>2. \A o : Seen(Tells(o), Out) => Seen(Tells(o), Out)'
      BY <1>1, <2>5, <2>6, <2>18 DEF Seen, SetupKept
    <3> QED BY <1>1, <2>18, <3>1, <3>2 DEF HistoryInv, SetupKept
  <2>27. InterruptsNothing'
    BY <1>1, <2>18 DEF InterruptsNothing, SetupKept
  <2> QED BY <2>19, <2>20, <2>21, <2>22, <2>23, <2>24, <2>25, <2>26, <2>27
<1> QED BY <1>4, <1>5, <1>6, <1>7

-----------------------------------------------------------------------------
(* The invariant                                                           *)

LEMMA InitHolds == Init => SupervisorInv
<1> SUFFICES ASSUME Init PROVE SupervisorInv OBVIOUS
<1> USE DEF Init
<1>1. /\ Workers \in Nat \ {0} /\ ShutdownTimeout \in Nat /\ MaxDeaths \in Nat
      /\ MaxScale \in Nat /\ MaxRequests \in Nat /\ Workers + MaxScale <= MaxSlots
      /\ MaxSlots \in Nat /\ MaxPids \in Nat /\ Grace \in Nat /\ StableAfter \in Nat
      /\ BackoffMax \in Nat
  BY SetupTypes, SupervisorAssumption
<1>2. Workers \in 1 .. MaxSlots /\ Workers + 1 \in 1 .. MaxSlots + 1 BY <1>1
<1>3. \A i \in Index : slot[i] = NewSlot OBVIOUS
<1>4. \A p \in Pid : child[p] = Unborn OBVIOUS
<1>5. NewSlot \in Slot BY <1>1 DEF NewSlot, Slot
<1>6. Unborn \in Child BY <1>1 DEF Unborn, Child, Codes
<1>7. /\ \A i \in Index : /\ ~Running(i) /\ ~slot[i].retiring /\ ~slot[i].started
                          /\ ~slot[i].abnormal /\ slot[i].failures = 0 /\ slot[i].wait = 0
      /\ \A p \in Pid : ~Alive(p) /\ child[p].st = "unborn"
  BY <1>3, <1>4 DEF NewSlot, Unborn, Running, Alive
<1>8. listed \subseteq Index BY <1>1 DEF Index
<1>9. TypeOK
  <2>1. slot \in [Index -> Slot] /\ child \in [Pid -> Child] BY <1>5, <1>6
  <2>2. /\ requests \in 0 .. MaxRequests + 1 /\ pending \in -MaxScale .. MaxScale
        /\ restarts \in (0 .. MaxDeaths) \X (0 .. MaxDeaths) /\ deaths \in 0 .. MaxDeaths
        /\ scaled \in 0 .. MaxScale /\ nextPid \in 1 .. MaxPids + 1
        /\ nextIndex \in 1 .. MaxSlots + 1
    BY <1>1, <1>2
  <2>3. exitCodes \in Seq(Codes) OBVIOUS
  <2> QED BY <1>8, <2>1, <2>2, <2>3 DEF TypeOK, Phases
<1>10. LoopInv BY <1>1 DEF LoopInv, Late, Passes, Final
<1>11. SlotInv
  <2>1. listed \subseteq 1 .. nextIndex - 1
    <3>1. nextIndex - 1 = Workers BY <1>1
    <3> QED BY <3>1
  <2> QED BY <1>3, <1>7, <1>8, <2>1 DEF SlotInv, Final
<1>12. AskedInv BY <1>7 DEF AskedInv, Forwarded
<1>13. CountInv
  <2>1. Owed = {} /\ Begun = {} BY <1>7 DEF Owed, Begun
  <2>2. Cardinality(Owed) = 0 /\ Cardinality(Begun) = 0 BY <2>1, FS_EmptySet
  <2>3. /\ nextIndex >= Workers + 1
        /\ nextIndex - (Workers + 1) + pending <= scaled
        /\ nextIndex - (Workers + 1) - pending <= scaled
    BY <1>1
  <2> QED BY <1>7, <2>2, <2>3 DEF CountInv
<1>14. AbnormalInv
  <2>1. Odd = {} BY DEF Odd
  <2>2. Cardinality(Odd) = 0 BY <2>1, FS_EmptySet
  <2>3. phase = "top" => Broken = {} BY <1>7 DEF Broken
  <2>4. Cardinality(Broken) = 0 BY <2>3, FS_EmptySet
  <2> QED BY <2>2, <2>4 DEF AbnormalInv
<1>15. CapacityInv
  <2>1. 1 \in 1 .. Workers BY <1>1
  <2>2. Active = listed BY <1>7, <1>8 DEF Active
  <2>3. \A i \in Active : slot[i].wait # Never BY <1>7, <1>8, <2>2 DEF Never
  <2> QED BY <2>1, <2>2, <2>3 DEF CapacityInv
<1>16. HistoryInv BY DEF HistoryInv
<1>17. InterruptsNothing BY DEF InterruptsNothing
<1> QED BY <1>9, <1>10, <1>11, <1>12, <1>13, <1>14, <1>15, <1>16, <1>17 DEF SupervisorInv

LEMMA StepHolds == SupervisorInv /\ [Next]_vars => SupervisorInv'
<1> SUFFICES ASSUME SupervisorInv, [Next]_vars PROVE SupervisorInv' OBVIOUS
<1>1. CASE LoopStep
  <2>1. setup' = setup BY <1>1 DEF LoopStep
  <2>2. CASE Top BY <2>1, <2>2, TopActs
  <2>3. CASE AddSlot BY <2>1, <2>3, AddSlotActs
  <2>4. CASE RetireNewest BY <2>1, <2>4, RetireNewestActs
  <2>5. CASE ReapOne BY <2>1, <2>5, ReapOneActs
  <2>6. CASE CheckFailing BY <2>1, <2>6, CheckFailingActs
  <2>7. CASE StartOne BY <2>1, <2>7, StartOneActs
  <2>8. CASE StartDone BY <2>1, <2>8, StartDoneActs
  <2>9. CASE Wait BY <2>1, <2>9, WaitActs
  <2>10. CASE Forward BY <2>1, <2>10, ForwardActs
  <2>11. CASE Look BY <2>1, <2>11, LookActs
  <2>12. CASE Nap BY <2>1, <2>12, NapActs
  <2>13. CASE Kill BY <2>1, <2>13, KillActs
  <2>14. CASE Bury BY <2>1, <2>14, BuryActs
  <2>15. CASE Finish BY <2>1, <2>15, FinishActs
  <2> QED BY <1>1, <2>2, <2>3, <2>4, <2>5, <2>6, <2>7, <2>8, <2>9, <2>10, <2>11, <2>12,
             <2>13, <2>14, <2>15 DEF LoopStep
<1>2. CASE ChildStep BY <1>2, ChildActs
<1>3. CASE RequestShutdown BY <1>3, RequestActs
<1>4. CASE Scale BY <1>4, ScaleActs
<1>5. CASE Ended \/ UNCHANGED vars BY <1>5, StutterActs DEF Ended
<1> QED BY <1>1, <1>2, <1>3, <1>4, <1>5 DEF Next

THEOREM SupervisorInvariant == Spec => []SupervisorInv
BY InitHolds, StepHolds, PTL DEF Spec

(* Every variable keeps its type whatever the workers, signals and exit    *)
(* codes do: no bound of the model cuts a spawn or a slot short, and what  *)
(* run() returns is an exit status (TypeOK of WorkerSupervisor's state).   *)
THEOREM TypesKept == Spec => []TypeOK
<1>1. SupervisorInv => TypeOK BY DEF SupervisorInv
<1> QED BY <1>1, SupervisorInvariant, PTL

(* No process is left behind: each belongs to a slot of the list until     *)
(* run() is over, and once the shutdown was forwarded each was asked to    *)
(* stop (_stop_workers, _kill_workers, _spawn, _retire_newest).            *)
THEOREM NoneIsLeftBehind == Spec => []NoneLeftBehind
<1>1. SupervisorInv => NoneLeftBehind
  <2> SUFFICES ASSUME SupervisorInv, NEW p \in Pid, Alive(p)
               PROVE  /\ ~Over
                      /\ \E i \in listed : slot[i].pid = p
                      /\ Graceful /\ Forwarded
                            => child[p].hits > 0 \/ child[p].st = "leaving"
    BY DEF NoneLeftBehind
  <2>1. ~Over /\ \E i \in listed : slot[i].pid = p
    BY DEF SupervisorInv, SlotInv, Over, Final
  <2>2. Graceful /\ Forwarded => child[p].hits > 0 \/ child[p].st = "leaving"
    BY DEF SupervisorInv, AskedInv
  <2> QED BY <2>1, <2>2
<1> QED BY <1>1, SupervisorInvariant, PTL

(* A supervisor that restarts its workers never loses a slot, and every    *)
(* process it started is accounted for: a first start, or a restart that   *)
(* some exit code it collected answers for (_reap, _start_due, _spawn).    *)
THEOREM CapacityIsKept == Spec => []CapacityKept
<1>1. SupervisorInv => CapacityKept
  <2> SUFFICES ASSUME SupervisorInv PROVE CapacityKept OBVIOUS
  <2>1. /\ Active # {}
        /\ (Restart /\ phase = "wait" /\ ~ShutdownSet)
              => \A i \in Active : Running(i) \/ slot[i].wait # Never
    BY DEF SupervisorInv, CapacityInv, Early
  <2>2. restarts[1] + Cardinality({i \in Index : slot[i].started}) = nextPid - 1
    BY DEF SupervisorInv, CountInv, Begun
  <2>3. restarts[2] <= Cardinality({k \in DOMAIN exitCodes :
                                      exitCodes[k] \notin {0, EmptyCode}})
    BY DEF SupervisorInv, AbnormalInv, Odd
  <2> QED BY <2>1, <2>2, <2>3 DEF CapacityKept
<1> QED BY <1>1, SupervisorInvariant, PTL

(* One shutdown request and no timeout: no worker is interrupted, however  *)
(* the request falls among the starts, exits and additions (_stop_workers, *)
(* _signal_worker).                                                        *)
THEOREM NothingIsInterrupted == Spec => []InterruptsNothing
<1>1. SupervisorInv => InterruptsNothing BY DEF SupervisorInv
<1> QED BY <1>1, SupervisorInvariant, PTL

(* The exit code of run() tells what its workers ran, for every number of  *)
(* workers and every two codes the command is given, in every order their  *)
(* processes exit (combine_exit_codes, _exited_on_signal, _finish).       *)
THEOREM CodeTells == Spec => []CodeTellsTheRun
<1>1. SupervisorInv => CodeTellsTheRun
  <2> SUFFICES ASSUME SupervisorInv, phase = "done" PROVE CodeTellsTheRun
    BY DEF CodeTellsTheRun
  <2> USE DEF SupervisorInv
  <2>1. result = IF forced THEN ForcedExit ELSE Combined BY DEF LoopInv
  <2>2. \A i \in Index : ~Running(i) BY DEF SlotInv, Final, AnyRunning
  <2>3. \A codes, S : Seen(codes, S) => \E k \in DOMAIN exitCodes : exitCodes[k] \in codes
    BY <2>2 DEF Seen
  <2>4. /\ Combined = 0
              => \A k \in DOMAIN exitCodes :
                    /\ exitCodes[k] \in {0, EmptyCode, FailedCode}
                    /\ FailedCode # 0 => exitCodes[k] # FailedCode
        /\ (Combined = EmptyCode /\ EmptyIsTold /\ EmptyCode \notin {0, FailedCode})
              => \A k \in DOMAIN exitCodes : exitCodes[k] = EmptyCode
    BY CombinedCode
  <2>5. Outcomes \subseteq {"idle", "ok", "failed", "unable"} /\ requests \in Nat
    BY SetupTypes DEF TypeOK
  <2>6. history \subseteq Endings \cup Outcomes BY DEF TypeOK
  <2>7. ASSUME Graceful, EmptyIsTold, result = 0 PROVE history \cap Endings = {}
    <3>1. ~forced /\ Combined = 0 BY <2>1, <2>7 DEF ForcedExit
    <3>2. "killed" \notin history /\ "stopped" \notin history BY <3>1, <2>7 DEF HistoryInv
    <3>3. ASSUME history \cap {"crash", "forced"} # {} PROVE FALSE
      <4>1. PICK k \in DOMAIN exitCodes : exitCodes[k] \in CrashCodes \cup {ForcedExit}
        BY <2>3, <2>7, <3>3 DEF HistoryInv
      <4>2. exitCodes[k] \notin {0, EmptyCode}
        BY <4>1, <2>7, SupervisorAssumption DEF EmptyIsTold, ForcedExit
      <4>3. exitCodes[k] = FailedCode /\ FailedCode # 0 BY <4>2, <3>1, <2>4
      <4> QED BY <4>3, <3>1, <2>4
    <3> QED BY <3>2, <3>3 DEF Endings
  <2>8. ASSUME requests = 0, -1 \notin ScaleSteps, result = 0, FailedCode # 0,
               NEW o \in history
        PROVE  ~Failed(o)
    <3>1. SUFFICES ASSUME Failed(o) PROVE FALSE OBVIOUS
    <3>2. o \in history \cap Outcomes BY <3>1, <2>6 DEF Failed, Endings
    <3>3. Combined = 0 BY <2>1, <2>8 DEF ForcedExit
    <3>4. Tells(o) = {FailedCode} BY <3>1, <2>8 DEF Tells, WorkerExitCode
    <3>5. PICK k \in DOMAIN exitCodes : exitCodes[k] \in Tells(o)
      BY <2>3, <2>8, <3>2 DEF HistoryInv
    <3> QED BY <3>3, <3>4, <3>5, <2>4, <2>8
  <2>9. ASSUME requests = 0, EmptyIsTold, result = EmptyCode, EmptyCode \notin {0, FailedCode},
               NEW o \in history
        PROVE  ~Processed(o)
    <3>1. SUFFICES ASSUME Processed(o) PROVE FALSE OBVIOUS
    <3>2. o \in history \cap Outcomes BY <3>1, <2>6 DEF Processed, Endings
    <3>3. ~forced BY <2>9 DEF LoopInv, ShutdownSet
    <3>4. \A k \in DOMAIN exitCodes : exitCodes[k] = EmptyCode BY <2>1, <2>4, <2>9, <3>3
    <3>5. PICK k \in DOMAIN exitCodes : exitCodes[k] \in Tells(o)
      BY <2>3, <2>9, <3>2 DEF HistoryInv
    <3>6. WorkerExitCode(o) \in {0, FailedCode} BY <3>1 DEF WorkerExitCode
    <3>7. EmptyCode # -Sigterm
      <4>1. EmptyCode \in 0 .. 255 BY SetupTypes DEF TypeOK
      <4> HIDE DEF SupervisorInv
      <4> QED BY <4>1 DEF Sigterm
    <3> QED BY <3>4, <3>5, <3>6, <3>7, <2>9 DEF Tells
  <2> QED BY <2>7, <2>8, <2>9 DEF CodeTellsTheRun
<1> QED BY <1>1, SupervisorInvariant, PTL
=============================================================================
