---------------------------- MODULE QueueProofs -----------------------------
(***************************************************************************)
(* Queues that are served to the end.  The client of the virtual machine   *)
(* serves its queues fairly, ends observations only after their own time   *)
(* and publishes finished outcomes only, for every number of queues, every *)
(* capacity and every limit.  The synthesize command loses no encoding,    *)
(* hands none to two workers and saves its whole queue when it is stopped, *)
(* for every number of encodings, outputs, threads, commands and restarts. *)
(***************************************************************************)
EXTENDS VmClient, SynthesisRun, WellFoundedInduction, TLAPS

Resting == {"poll", "halt"}

(* How many turns queue q has to wait when it is the turn of queue c. *)
Dist(c, q) == IF q >= c THEN q - c ELSE q - c + NumQueues

(* RESTORE_STATE is set between SaveRegisters and Return, and the way back *)
(* runs with interrupts disabled.                                          *)
ModeInv == /\ restore <=> pc \in {"iretq", "user", "return"}
           /\ pc = "return" => ~iflag

(* From the reset of the timer to the end of the observation, HANG_COUNTER *)
(* counts exactly the ticks of this observation.                           *)
TimerInv == /\ pc \in {"prepare", "switch", "iretq", "user"} => hang = ticks
            /\ TimeoutIsEarned

(* A command is owed only to the queue whose turn it is, and it carries an *)
(* outcome by the time it is marked.                                       *)
OwedInv == /\ \A q \in Queue : unmarked[q] = IF pc \notin Resting /\ q = current_queue THEN 1 ELSE 0
           /\ pc \notin Resting => target = current_queue
           /\ pc \in {"return", "mark"} => outcome[target].what # "none"

(* The commands served before the one that waits, and the turns before its *)
(* own, are together fewer than the queues there are; during a command its *)
(* queue still counts.                                                     *)
FairInv == /\ \A q \in Queue : published[q] > 0 /\ (pc \in Resting \/ q # current_queue) =>
                  bypass[q] + Dist(current_queue, q) <= IF pc \in Resting THEN NumQueues - 1 ELSE NumQueues
           /\ pc \notin Resting => bypass[current_queue] = 0

ClientInv == TypeOK /\ ModeInv /\ TimerInv /\ OwedInv /\ FairInv

-----------------------------------------------------------------------------
(* Arithmetic of the turns.                                                *)

(* Every nonempty set of numbers has a smallest one, which Min returns. *)
LEMMA MinIsLeast ==
    ASSUME NEW S \in SUBSET Nat, S # {}
    PROVE  Min(S) \in S /\ \A j \in S : Min(S) <= j
<1>1. PICK x \in S : \A y \in S : ~(<<y, x>> \in OpToRel(<, Nat))
  BY WFMin, NatLessThanWellFounded, Zenon
<1>2. \A y \in S : ~(y < x)
  BY Zenon, <1>1 DEF OpToRel
<1>3. \A y \in S : x <= y
  BY <1>2
<1> QED BY Zenon, <1>3 DEF Min

(* The turn s places after that of queue c. *)
LEMMA TurnValue ==
    ASSUME NEW c \in Queue, NEW s \in 0 .. NumQueues - 1
    PROVE  /\ (c + s) % NumQueues = IF c + s < NumQueues THEN c + s ELSE c + s - NumQueues
           /\ (c + s) % NumQueues \in Queue
<1>1. (c + s) % NumQueues = IF c + s < NumQueues THEN c + s ELSE c + s - NumQueues
  BY ClientAssumption DEF Queue
<1> QED BY <1>1, ClientAssumption DEF Queue

(* A queue has its turn after as many turns as it is away. *)
LEMMA DistTurn ==
    ASSUME NEW c \in Queue, NEW q \in Queue
    PROVE  /\ Dist(c, q) \in 0 .. NumQueues - 1
           /\ (c + Dist(c, q)) % NumQueues = q
           /\ \A s \in 0 .. Dist(c, q) : Dist((c + s) % NumQueues, q) = Dist(c, q) - s
<1>1. Dist(c, q) \in 0 .. NumQueues - 1
  BY ClientAssumption DEF Dist, Queue
<1>2. (c + Dist(c, q)) % NumQueues = q
  <2>1. (c + Dist(c, q)) % NumQueues
            = IF c + Dist(c, q) < NumQueues THEN c + Dist(c, q) ELSE c + Dist(c, q) - NumQueues
    BY <1>1, TurnValue
  <2> QED BY <2>1, ClientAssumption DEF Dist, Queue
<1>3. ASSUME NEW s \in 0 .. Dist(c, q)
      PROVE  Dist((c + s) % NumQueues, q) = Dist(c, q) - s
  <2>1. s \in 0 .. NumQueues - 1
    BY <1>1, ClientAssumption
  <2>2. (c + s) % NumQueues = IF c + s < NumQueues THEN c + s ELSE c + s - NumQueues
    BY <2>1, TurnValue
  <2> QED BY <2>1, <2>2, ClientAssumption DEF Dist, Queue
<1> QED BY <1>1, <1>2, <1>3

(* When a turn is over, every other queue is one turn nearer, and the one  *)
(* that was served is last.                                                *)
LEMMA NextTurn ==
    ASSUME NEW c \in Queue, NEW q \in Queue
    PROVE  /\ (c + 1) % NumQueues \in Queue
           /\ q # c => Dist((c + 1) % NumQueues, q) = Dist(c, q) - 1
           /\ Dist((c + 1) % NumQueues, c) = NumQueues - 1
<1>1. CASE NumQueues = 1
  BY <1>1 DEF Queue, Dist
<1>2. CASE NumQueues # 1
  <2>1. (c + 1) % NumQueues = IF c + 1 < NumQueues THEN c + 1 ELSE c + 1 - NumQueues
    BY <1>2, TurnValue, ClientAssumption
  <2> QED BY <2>1, <1>2, ClientAssumption DEF Queue, Dist
<1> QED BY <1>1, <1>2

(* receive_request settles on a queue with a command, at most as many      *)
(* turns away as any other.                                                *)
LEMMA FirstShiftFacts ==
    ASSUME TypeOK, \E s \in Queue : published[s] > 0
    PROVE  /\ FirstShift \in 0 .. NumQueues - 1
           /\ Turn(FirstShift) \in Queue
           /\ published[Turn(FirstShift)] > 0
           /\ \A q \in Queue : published[q] > 0 => FirstShift <= Dist(current_queue, q)
<1> DEFINE S == {s \in 0 .. NumQueues - 1 : published[Turn(s)] > 0}
<1>1. current_queue \in Queue
  BY DEF TypeOK
<1>2. \A q \in Queue : published[q] > 0 => Dist(current_queue, q) \in S
  BY <1>1, DistTurn DEF Turn
<1>3. S # {} /\ S \in SUBSET Nat
  BY <1>2
<1>4. FirstShift = Min(S)
  BY DEF FirstShift
<1> HIDE DEF S
<1>5. FirstShift \in S /\ \A j \in S : FirstShift <= j
  BY <1>3, <1>4, MinIsLeast
<1>6. FirstShift \in 0 .. NumQueues - 1 /\ published[Turn(FirstShift)] > 0
  BY <1>5 DEF S
<1> QED BY Zenon, <1>1, <1>2, <1>5, <1>6, TurnValue DEF Turn

-----------------------------------------------------------------------------
(* The invariant holds initially and is kept by every action.              *)

(* At the start no command waits and none is owed. *)
LEMMA ClientInitInv == ClientInit => ClientInv
<1> SUFFICES ASSUME ClientInit PROVE ClientInv
  OBVIOUS
<1> USE ClientAssumption DEF ClientInit
<1>1. TypeOK
  <2>1. 0 \in Queue /\ "none" \in Outcome
    BY DEF Queue, Outcome
  <2>2. 0 \in 0 .. Capacity /\ 0 \in 0 .. HangLimit + 1 /\ 0 \in 0 .. WaitLimit + 1
    OBVIOUS
  <2> QED BY Zenon, <2>1, <2>2 DEF TypeOK
<1>2. ModeInv /\ TimerInv
  BY DEF ModeInv, TimerInv, TimeoutIsEarned
<1>3. OwedInv
  BY DEF OwedInv, Resting
<1>4. FairInv
  BY DEF FairInv, Resting
<1> QED BY <1>1, <1>2, <1>3, <1>4 DEF ClientInv

(* Steps of others change nothing. *)
LEMMA StutterInv == ClientInv /\ UNCHANGED clientVars => ClientInv'
  BY DEF ClientInv, TypeOK, ModeInv, TimerInv, TimeoutIsEarned, OwedInv, FairInv, clientVars, queueVars, loopVars,
         modeVars, timerVars

(* A command that is published joins those that wait; a queue that had     *)
(* none starts waiting with the turns of the others before it.             *)
LEMMA PublishInv == ASSUME ClientInv, NEW q \in Queue, Publish(q) PROVE ClientInv'
<1> USE ClientAssumption DEF ClientInv, Publish, loopVars, modeVars, timerVars
<1>1. TypeOK'
  BY DEF TypeOK
<1>2. ModeInv' /\ TimerInv'
  BY DEF ModeInv, TimerInv, TimeoutIsEarned
<1>3. OwedInv'
  BY DEF OwedInv
<1>4. FairInv'
  <2>1. current_queue \in Queue /\ bypass \in [Queue -> Nat] /\ published \in [Queue -> 0 .. Capacity]
    BY DEF TypeOK
  <2>2. Dist(current_queue, q) \in 0 .. NumQueues - 1
    BY <2>1, DistTurn
  <2>3. bypass'[q] = (IF published[q] = 0 THEN 0 ELSE bypass[q]) /\ \A o \in Queue \ {q} : bypass'[o] = bypass[o] /\ published'[o] = published[o]
    BY <2>1
  <2> QED BY <2>1, <2>2, <2>3 DEF FairInv
<1> QED BY <1>1, <1>2, <1>3, <1>4

(* The queue that is served stops waiting; every other one with a command  *)
(* is passed over once and is at least one turn nearer.                    *)
LEMMA ReceiveInv == ClientInv /\ Receive => ClientInv'
<1> SUFFICES ASSUME ClientInv, Receive PROVE ClientInv'
  OBVIOUS
<1> DEFINE c == Turn(FirstShift)
<1>1. TypeOK /\ current_queue \in Queue /\ pc = "poll" /\ bypass \in [Queue -> Nat]
  BY DEF ClientInv, TypeOK, Receive
<1>2. /\ c \in Queue /\ published[c] > 0 /\ FirstShift \in 0 .. NumQueues - 1
      /\ \A q \in Queue : published[q] > 0 => FirstShift <= Dist(current_queue, q)
  BY FirstShiftFacts, <1>1 DEF Receive
<1>3. /\ current_queue' = c /\ target' = c /\ num_waiting' = 0 /\ pc' = "received"
      /\ published' = [published EXCEPT ![c] = @ - 1] /\ unmarked' = [unmarked EXCEPT ![c] = @ + 1]
      /\ outcome' = [outcome EXCEPT ![c] = [what |-> "none", ticks |-> 0]]
      /\ bypass' = [o \in Queue |-> IF o # c /\ published[o] > 0 THEN bypass[o] + 1 ELSE 0]
      /\ UNCHANGED <<restore, hang, ticks, iflag, irq>>
  BY DEF Receive, timerVars
<1>4. \A q \in Queue : unmarked[q] = 0
  BY <1>1 DEF ClientInv, OwedInv, Resting
<1>5. \A q \in Queue : published[q] > 0 => Dist(c, q) = Dist(current_queue, q) - FirstShift
  BY <1>1, <1>2, DistTurn DEF Turn
<1> HIDE DEF c
<1>6. TypeOK'
  BY <1>1, <1>2, <1>3, <1>4, ClientAssumption DEF TypeOK, Outcome
<1>7. ModeInv' /\ TimerInv'
  BY <1>1, <1>2, <1>3 DEF ClientInv, TypeOK, ModeInv, TimerInv, TimeoutIsEarned
<1>8. OwedInv'
  BY <1>1, <1>2, <1>3, <1>4 DEF TypeOK, OwedInv, Resting
<1>9. FairInv'
  <2>1. ASSUME NEW q \in Queue, published'[q] > 0, q # c
        PROVE  bypass'[q] + Dist(c, q) <= NumQueues
    <3>1. published[q] > 0 /\ bypass'[q] = bypass[q] + 1
      BY <1>1, <1>3, <2>1 DEF TypeOK
    <3>2. bypass[q] + Dist(current_queue, q) <= NumQueues - 1
      BY <1>1, <3>1 DEF ClientInv, FairInv, Resting
    <3>3. Dist(current_queue, q) \in 0 .. NumQueues - 1 /\ Dist(c, q) = Dist(current_queue, q) - FirstShift
      BY <1>1, <1>5, <3>1, DistTurn
    <3> QED BY <1>1, <1>2, <3>1, <3>2, <3>3, ClientAssumption
  <2> QED BY <1>2, <1>3, <2>1 DEF FairInv, Resting
<1> QED BY <1>6, <1>7, <1>8, <1>9 DEF ClientInv

(* The polls, the reset of the timer, the switch and the return touch no   *)
(* queue.                                                                  *)
LEMMA IdleInv == ClientInv /\ Idle => ClientInv'
<1> SUFFICES ASSUME ClientInv, Idle PROVE ClientInv'
  OBVIOUS
<1> USE ClientAssumption DEF ClientInv, Idle, queueVars, modeVars
<1>1. TypeOK'
  <2>1. CASE num_waiting > WaitLimit
    BY <2>1 DEF TypeOK
  <2>2. CASE ~(num_waiting > WaitLimit)
    BY <2>2 DEF TypeOK
  <2> QED BY <2>1, <2>2
<1>2. ModeInv' /\ TimerInv'
  BY DEF ModeInv, TimerInv, TimeoutIsEarned
<1>3. OwedInv' /\ FairInv'
  BY DEF OwedInv, FairInv, Resting
<1> QED BY <1>1, <1>2, <1>3

(* Both counters start at zero. *)
LEMMA ResetTimerInv == ClientInv /\ ResetTimer => ClientInv'
<1> SUFFICES ASSUME ClientInv, ResetTimer PROVE ClientInv'
  OBVIOUS
<1> USE ClientAssumption DEF ClientInv, ResetTimer, queueVars, modeVars
<1>1. TypeOK'
  BY DEF TypeOK
<1>2. ModeInv' /\ TimerInv'
  BY DEF ModeInv, TimerInv, TimeoutIsEarned
<1>3. OwedInv' /\ FairInv'
  BY DEF OwedInv, FairInv, Resting
<1> QED BY <1>1, <1>2, <1>3

(* An invalid segment base is an outcome of the command in hand. *)
LEMMA PrepareInv == ClientInv /\ Prepare => ClientInv'
<1> SUFFICES ASSUME ClientInv, Prepare PROVE ClientInv'
  OBVIOUS
<1> USE ClientAssumption DEF ClientInv, Prepare, modeVars, timerVars
<1>1. TypeOK'
  BY DEF TypeOK, Outcome
<1>2. ModeInv' /\ TimerInv'
  BY DEF TypeOK, ModeInv, TimerInv, TimeoutIsEarned
<1>3. OwedInv' /\ FairInv'
  BY DEF TypeOK, OwedInv, FairInv, Resting
<1> QED BY <1>1, <1>2, <1>3

(* RESTORE_STATE follows the program counter. *)
LEMMA SwitchInv == ClientInv /\ (SaveRegisters \/ EnterUser \/ Return) => ClientInv'
<1> SUFFICES ASSUME ClientInv, SaveRegisters \/ EnterUser \/ Return PROVE ClientInv'
  OBVIOUS
<1> USE ClientAssumption DEF ClientInv, SaveRegisters, EnterUser, Return, queueVars, modeVars, timerVars
<1>1. TypeOK'
  BY Zenon DEF TypeOK
<1>2. ModeInv' /\ TimerInv'
  BY DEF ModeInv, TimerInv, TimeoutIsEarned
<1>3. OwedInv' /\ FairInv'
  BY DEF OwedInv, FairInv, Resting
<1> QED BY <1>1, <1>2, <1>3

(* The exception is written to the command in hand. *)
LEMMA UserExitInv == ClientInv /\ UserExit => ClientInv'
<1> SUFFICES ASSUME ClientInv, UserExit PROVE ClientInv'
  OBVIOUS
<1> USE ClientAssumption DEF ClientInv, UserExit, HandleInterrupt, modeVars
<1>1. TypeOK'
  BY Zenon DEF TypeOK, Outcome
<1>2. ModeInv' /\ TimerInv'
  BY DEF TypeOK, ModeInv, TimerInv, TimeoutIsEarned
<1>3. OwedInv' /\ FairInv'
  BY DEF TypeOK, OwedInv, FairInv, Resting
<1> QED BY <1>1, <1>2, <1>3

(* The turn passes on: the queue that was served becomes the last one, and *)
(* every other one a turn nearer.                                          *)
LEMMA MarkProcessedInv == ClientInv /\ MarkProcessed => ClientInv'
<1> SUFFICES ASSUME ClientInv, MarkProcessed PROVE ClientInv'
  OBVIOUS
<1> DEFINE d == (current_queue + 1) % NumQueues
<1>1. current_queue \in Queue /\ pc = "mark" /\ pc' = "poll" /\ current_queue' = d
  BY DEF ClientInv, TypeOK, MarkProcessed
<1>2. /\ d \in Queue /\ Dist(d, current_queue) = NumQueues - 1
      /\ \A q \in Queue : q # current_queue => Dist(d, q) = Dist(current_queue, q) - 1
  BY <1>1, NextTurn
<1> HIDE DEF d
<1>3. TypeOK'
  BY <1>1, <1>2, ClientAssumption DEF ClientInv, TypeOK, MarkProcessed, modeVars, timerVars
<1>4. ModeInv' /\ TimerInv'
  BY <1>1 DEF ClientInv, ModeInv, TimerInv, TimeoutIsEarned, MarkProcessed, modeVars, timerVars
<1>5. OwedInv'
  BY <1>1 DEF ClientInv, TypeOK, OwedInv, MarkProcessed, modeVars, Resting
<1>6. FairInv'
  <2>1. ASSUME NEW q \in Queue, published[q] > 0
        PROVE  bypass[q] + Dist(d, q) <= NumQueues - 1
    <3>1. bypass[q] \in Nat /\ Dist(current_queue, q) \in 0 .. NumQueues - 1
      BY <1>1, DistTurn DEF ClientInv, TypeOK
    <3>2. CASE q = current_queue
      BY <1>1, <1>2, <3>2, ClientAssumption DEF ClientInv, FairInv, Resting
    <3>3. CASE q # current_queue
      BY <1>1, <1>2, <2>1, <3>1, <3>3, ClientAssumption DEF ClientInv, FairInv, Resting
    <3> QED BY <3>2, <3>3
  <2> QED BY <1>1, <2>1 DEF FairInv, MarkProcessed, Resting
<1> QED BY <1>3, <1>4, <1>5, <1>6 DEF ClientInv

(* A tick counts in both counters, whichever handler runs. *)
LEMMA TimerFiresInv == ClientInv /\ TimerFires => ClientInv'
  BY DEF ClientInv, TypeOK, ModeInv, TimerInv, TimeoutIsEarned, OwedInv, FairInv, TimerFires, queueVars,
         loopVars, modeVars

(* The counters stay within the range that is told apart. *)
LEMMA CountedType == ASSUME NEW n \in 0 .. HangLimit + 1 PROVE Counted(n) \in 0 .. HangLimit + 1
  BY ClientAssumption DEF Counted

(* A tick outside user mode ends at most a halt. *)
LEMMA KernelTickInv == ClientInv /\ KernelTick => ClientInv'
<1> SUFFICES ASSUME ClientInv, KernelTick PROVE ClientInv'
  OBVIOUS
<1> USE DEF ClientInv, KernelTick, queueVars, modeVars
<1>1. TypeOK'
  BY Zenon, CountedType DEF TypeOK
<1>2. ModeInv' /\ TimerInv'
  BY DEF ModeInv, TimerInv, TimeoutIsEarned
<1>3. OwedInv' /\ FairInv'
  BY DEF OwedInv, FairInv, Resting
<1> QED BY <1>1, <1>2, <1>3

(* The tick that ends an observation finds as many ticks of its own as the *)
(* counter that is compared.                                               *)
LEMMA UserTickInv == ClientInv /\ UserTick => ClientInv'
<1> SUFFICES ASSUME ClientInv, UserTick PROVE ClientInv'
  OBVIOUS
<1>1. pc \in {"iretq", "user"} /\ hang = ticks /\ ticks \in 0 .. HangLimit + 1 /\ target \in Queue
  BY DEF ClientInv, TypeOK, ModeInv, TimerInv, UserTick
<1>2. Counted(ticks) \in 0 .. HangLimit + 1 /\ (ticks >= HangLimit => Counted(ticks) > HangLimit)
  BY <1>1, ClientAssumption DEF Counted
<1>3. /\ hang' = Counted(ticks) /\ ticks' = Counted(ticks) /\ irq' = FALSE
      /\ UNCHANGED <<published, unmarked, bypass, current_queue, num_waiting, restore, target>>
  BY <1>1 DEF UserTick, modeVars
<1>4. CASE ticks >= HangLimit
  <2>1. /\ outcome' = [outcome EXCEPT ![target] = [what |-> "timeout", ticks |-> Counted(ticks)]]
        /\ iflag' = FALSE /\ pc' = "return"
    BY <1>1, <1>4 DEF UserTick, HandleInterrupt
  <2> USE <1>1, <1>2, <1>3, <1>4, <2>1, ClientAssumption DEF ClientInv
  <2>2. TypeOK'
    BY Zenon DEF TypeOK, Outcome
  <2>3. ModeInv' /\ TimerInv'
    BY DEF TypeOK, ModeInv, TimerInv, TimeoutIsEarned
  <2>4. OwedInv' /\ FairInv'
    BY DEF TypeOK, OwedInv, FairInv, Resting
  <2> QED BY <2>2, <2>3, <2>4
<1>5. CASE ~(ticks >= HangLimit)
  <2>1. UNCHANGED <<outcome, iflag, pc>>
    BY <1>1, <1>5 DEF UserTick
  <2> USE <1>1, <1>2, <1>3, <2>1 DEF ClientInv
  <2>2. TypeOK' /\ ModeInv' /\ TimerInv'
    BY Zenon DEF TypeOK, ModeInv, TimerInv, TimeoutIsEarned
  <2>3. OwedInv' /\ FairInv'
    BY DEF OwedInv, FairInv, Resting
  <2> QED BY <2>2, <2>3
<1> QED BY <1>4, <1>5

(* The strengthened invariant holds in every reachable state. *)
THEOREM ClientInvariance == ClientSpec => []ClientInv
<1>1. ClientInv /\ [ClientNext]_clientVars => ClientInv'
  BY StutterInv, PublishInv, ReceiveInv, IdleInv, ResetTimerInv, PrepareInv, SwitchInv, UserExitInv,
     MarkProcessedInv, TimerFiresInv, KernelTickInv, UserTickInv DEF ClientNext, LoopStep, Interrupt
<1> QED BY <1>1, ClientInitInv, PTL DEF ClientSpec

(* A command that waits is passed over by at most one command of every     *)
(* other queue: receive_request goes round the queues, mark_processed      *)
(* passes the turn on, whatever the number of queues and however fast the  *)
(* hosts publish.                                                          *)
THEOREM ServedInTurn == ClientSpec => []BoundedBypass
<1>1. ClientInv => BoundedBypass
  <2> SUFFICES ASSUME ClientInv, NEW q \in Queue, published[q] > 0 PROVE bypass[q] <= NumQueues - 1
    BY DEF BoundedBypass
  <2>1. bypass[q] \in Nat /\ current_queue \in Queue
    BY DEF ClientInv, TypeOK
  <2>2. Dist(current_queue, q) \in 0 .. NumQueues - 1 /\ (q # current_queue => Dist(current_queue, q) > 0)
    BY <2>1, DistTurn, ClientAssumption DEF Dist, Queue
  <2> QED BY <2>1, <2>2, ClientAssumption DEF ClientInv, FairInv
<1> QED BY <1>1, ClientInvariance, PTL

(* handle_interrupt reports a timeout only after more than HangLimit timer *)
(* interrupts of the observation itself.                                   *)
THEOREM TimeoutsAreEarned == ClientSpec => []TimeoutIsEarned
<1>1. ClientInv => TimeoutIsEarned
  BY DEF ClientInv, TimerInv
<1> QED BY <1>1, ClientInvariance, PTL

(* Between two commands nothing that was taken is left unmarked. *)
THEOREM NothingOwed == ClientSpec => []AnswersItsQueue
<1>1. ClientInv => AnswersItsQueue
  BY DEF ClientInv, OwedInv, AnswersItsQueue, Resting
<1> QED BY <1>1, ClientInvariance, PTL

(* mark_processed publishes commands with an outcome only, and what it has *)
(* published no interrupt handler writes to.                               *)
THEOREM OutcomesPublished == ClientSpec => PublishedOutcomeStable
<1> DEFINE Kept == \A q \in Queue :
             /\ unmarked[q] = 1 /\ unmarked'[q] = 0 => outcome[q].what # "none"
             /\ unmarked[q] = 0 /\ unmarked'[q] = 0 => outcome'[q] = outcome[q]
<1>1. ASSUME ClientInv, ClientNext PROVE Kept
  <2>1. ASSUME MarkProcessed PROVE Kept
    BY <1>1, <2>1 DEF ClientInv, TypeOK, OwedInv, MarkProcessed, Resting
  <2>2. ASSUME Receive PROVE Kept
    <3>1. Turn(FirstShift) \in Queue
      BY <1>1, <2>2, FirstShiftFacts DEF ClientInv, Receive
    <3>2. pc \in Resting
      BY <2>2 DEF Receive, Resting
    <3> QED BY <1>1, <2>2, <3>1, <3>2 DEF ClientInv, TypeOK, OwedInv, Receive
  <2>3. ASSUME Prepare \/ UserExit \/ UserTick PROVE Kept
    <3>1. pc \notin Resting
      BY <1>1, <2>3 DEF ClientInv, ModeInv, Prepare, UserExit, UserTick, Resting
    <3>2. unmarked[target] = 1 /\ UNCHANGED unmarked
      BY <1>1, <2>3, <3>1 DEF ClientInv, TypeOK, OwedInv, Prepare, UserExit, UserTick
    <3>3. \A q \in Queue : q # target => outcome'[q] = outcome[q]
      BY <1>1, <2>3 DEF ClientInv, TypeOK, Prepare, UserExit, UserTick, HandleInterrupt
    <3> QED BY <3>2, <3>3
  <2>4. ASSUME UNCHANGED <<unmarked, outcome>> PROVE Kept
    BY <2>4
  <2> QED BY <1>1, <2>1, <2>2, <2>3, <2>4
          DEF ClientNext, LoopStep, Interrupt, Publish, Idle, ResetTimer, SaveRegisters, EnterUser, Return,
              TimerFires, KernelTick, queueVars
<1>2. ClientInv /\ [ClientNext]_clientVars => [Kept]_clientVars
  BY <1>1
<1> QED BY <1>2, ClientInvariance, PTL DEF ClientSpec, PublishedOutcomeStable

-----------------------------------------------------------------------------
(* The synthesize command.                                                 *)

TypeInv == /\ remaining_entries \in Seq(Encodings) /\ state_json \in Seq(Encodings)
           /\ artifacts \in [Encodings -> Seq(0 .. Outputs)]
           /\ pending \subseteq Encodings /\ second_chances \subseteq Encodings
           /\ working \in [Workers -> Encodings \cup {None}]
           /\ threads \in Nat

(* An encoding that is finished with: it has all its outputs, or it had    *)
(* its two chances.                                                        *)
Recorded(e) == Len(artifacts[e]) >= 2 \/ Outputs \in Range(artifacts[e])

(* What has left the queue is finished with, in memory and on file; a      *)
(* second chance is given to an encoding that has an artifact.             *)
RecordInv == /\ \A e \in Encodings : e \notin Range(remaining_entries) => Recorded(e)
             /\ \A e \in Encodings : e \notin Range(state_json) => Recorded(e)
             /\ \A e \in second_chances : Len(artifacts[e]) >= 1

(* The pending encodings are the ones the workers have. *)
WorkInv == /\ TakenIsQueued
           /\ \A e \in pending : \E w \in Workers : working[w] = e

(* From stop on no worker starts, from join on none works, and the last    *)
(* save comes after the saver thread's.                                    *)
StopInv == /\ main \in {"stop", "join", "save", "done"} => threads = 0
           /\ main \in {"join", "save", "done"} => \A w \in Workers : working[w] = None
           /\ main \in {"save", "done"} => saver = "exit"
           /\ main = "done" => state_json = remaining_entries

SynthesisInv == TypeInv /\ RecordInv /\ WorkInv /\ StopInv

-----------------------------------------------------------------------------
(* Sequences and the queue.                                                *)

(* The elements of two sequences, one after the other. *)
LEMMA Joined ==
    ASSUME NEW S, NEW a \in Seq(S), NEW b \in Seq(S)
    PROVE  /\ a \o b \in Seq(S) /\ Len(a \o b) = Len(a) + Len(b)
           /\ \A k \in 1 .. Len(a) + Len(b) : (a \o b)[k] = IF k <= Len(a) THEN a[k] ELSE b[k - Len(a)]
  OBVIOUS

(* Vec::remove keeps every element but the one at the given place. *)
LEMMA RemoveKeeps ==
    ASSUME NEW S, NEW s \in Seq(S), NEW i \in DOMAIN s
    PROVE  /\ Without(s, i) \in Seq(S)
           /\ \A x \in Range(s) : x # s[i] => x \in Range(Without(s, i))
<1> DEFINE a == SubSeq(s, 1, i - 1)
           b == SubSeq(s, i + 1, Len(s))
<1>1. i \in 1 .. Len(s) /\ Len(s) \in Nat
  OBVIOUS
<1>2. /\ a \in Seq(S) /\ Len(a) = i - 1
      /\ \A k \in 1 .. i - 1 : a[k] = s[k]
  BY <1>1
<1>3. /\ b \in Seq(S) /\ Len(b) = Len(s) - i
      /\ \A k \in 1 .. Len(s) - i : b[k] = s[k + i]
  BY <1>1
<1>4. Without(s, i) = a \o b
  BY DEF Without
<1> HIDE DEF a, b
<1>5. /\ a \o b \in Seq(S) /\ Len(a \o b) = Len(s) - 1
      /\ \A k \in 1 .. Len(s) - 1 : (a \o b)[k] = IF k <= i - 1 THEN a[k] ELSE b[k - (i - 1)]
  <2>1. /\ a \o b \in Seq(S) /\ Len(a \o b) = Len(a) + Len(b)
        /\ \A k \in 1 .. Len(a) + Len(b) : (a \o b)[k] = IF k <= Len(a) THEN a[k] ELSE b[k - Len(a)]
    BY <1>2, <1>3, Joined
  <2>2. Len(a) + Len(b) = Len(s) - 1
    BY <1>1, <1>2, <1>3
  <2> QED BY <1>2, <2>1, <2>2
<1>6. ASSUME NEW x \in Range(s), x # s[i]
      PROVE  x \in Range(a \o b)
  <2>1. PICK k \in 1 .. Len(s) : x = s[k]
    BY DEF Range
  <2>2. CASE k < i
    <3>1. k \in 1 .. Len(s) - 1 /\ (a \o b)[k] = x
      BY <1>1, <1>2, <1>5, <2>1, <2>2
    <3> QED BY <1>5, <3>1 DEF Range
  <2>3. CASE k > i
    <3> DEFINE j == k - 1
    <3>1. j \in 1 .. Len(s) - 1 /\ ~(j <= i - 1) /\ j - (i - 1) \in 1 .. Len(s) - i /\ j - (i - 1) + i = k
      BY <1>1, <2>3
    <3> HIDE DEF j
    <3>2. (a \o b)[j] = b[j - (i - 1)]
      BY <1>5, <3>1
    <3>3. b[j - (i - 1)] = s[k]
      BY <1>3, <3>1
    <3>4. DOMAIN (a \o b) = 1 .. Len(s) - 1
      BY <1>5
    <3> QED BY Zenon, <2>1, <3>1, <3>2, <3>3, <3>4 DEF Range
  <2> QED BY <1>1, <1>6, <2>1, <2>2, <2>3
<1> QED BY <1>4, <1>5, <1>6

(* Append keeps the elements and adds one. *)
LEMMA AppendKeeps ==
    ASSUME NEW S, NEW s \in Seq(S), NEW x \in S
    PROVE  /\ Append(s, x) \in Seq(S) /\ Len(Append(s, x)) = Len(s) + 1
           /\ x \in Range(Append(s, x))
           /\ \A y \in Range(s) : y \in Range(Append(s, x))
<1>1. /\ Append(s, x) \in Seq(S) /\ Len(Append(s, x)) = Len(s) + 1
      /\ Append(s, x)[Len(s) + 1] = x
      /\ \A k \in 1 .. Len(s) : Append(s, x)[k] = s[k]
  OBVIOUS
<1> QED BY <1>1 DEF Range

(* The shuffled queue of create holds every encoding. *)
LEMMA ShuffleHasAll ==
    ASSUME NEW s \in Bijection(1 .. NumEncodings, Encodings)
    PROVE  s \in Seq(Encodings) /\ Range(s) = Encodings
<1>1. s \in [1 .. NumEncodings -> Encodings] /\ \A e \in Encodings : \E k \in 1 .. NumEncodings : s[k] = e
  BY DEF Bijection, Injection, Surjection
<1>2. s \in Seq(Encodings)
  BY <1>1, SynthesisAssumption
<1> QED BY <1>1, <1>2 DEF Range

(* next returns an entry of the queue that is not pending, or None. *)
LEMMA NextIsFree ==
    ASSUME TypeInv, NextEntry # None
    PROVE  NextEntry \in Encodings /\ NextEntry \in Range(remaining_entries) /\ NextEntry \notin pending
<1>1. Ready # {} /\ NextEntry = remaining_entries[Min(Ready)]
  BY DEF NextEntry
<1>2. Ready \in SUBSET Nat
  BY DEF Ready, TypeInv
<1>3. Min(Ready) \in Ready
  BY <1>1, <1>2, MinIsLeast
<1>4. Min(Ready) \in DOMAIN remaining_entries /\ NextEntry \notin pending
  BY <1>1, <1>3 DEF Ready
<1>5. remaining_entries[Min(Ready)] \in Encodings
  BY <1>4 DEF TypeInv
<1> QED BY <1>1, <1>4, <1>5 DEF Range

(* The position that complete unwraps exists, and it is one of the entry. *)
LEMMA PositionFound ==
    ASSUME TypeInv, NEW e \in Range(remaining_entries)
    PROVE  Position(e) \in DOMAIN remaining_entries /\ remaining_entries[Position(e)] = e
<1> DEFINE P == {k \in DOMAIN remaining_entries : remaining_entries[k] = e}
<1>1. P \in SUBSET Nat /\ P # {}
  BY DEF TypeInv, Range
<1>2. Min(P) \in P
  BY <1>1, MinIsLeast
<1> QED BY <1>2 DEF Position

-----------------------------------------------------------------------------
(* The invariant holds initially and is kept by every action.              *)

(* At the start every encoding is in the queue. *)
LEMMA SynthesisInitInv == Init => SynthesisInv
<1> SUFFICES ASSUME Init PROVE SynthesisInv
  OBVIOUS
<1>1. /\ remaining_entries \in Seq(Encodings) /\ Range(remaining_entries) = Encodings
      /\ state_json = remaining_entries
  BY ShuffleHasAll DEF Init
<1>2. TypeInv
  BY <1>1, SynthesisAssumption DEF Init, TypeInv
<1>3. RecordInv
  BY <1>1 DEF Init, RecordInv
<1>4. WorkInv
  BY DEF Init, WorkInv, TakenIsQueued
<1>5. StopInv
  BY DEF Init, StopInv
<1> QED BY <1>2, <1>3, <1>4, <1>5 DEF SynthesisInv

(* next gives a worker an entry that no other worker has. *)
LEMMA TakeInv ==
    ASSUME SynthesisInv, NEW w \in Workers, Take(w)
    PROVE  SynthesisInv'
<1> DEFINE e == NextEntry
<1>1. TypeInv /\ WorkInv /\ StopInv /\ RecordInv
  BY DEF SynthesisInv
<1>2. e \in Encodings /\ e \in Range(remaining_entries) /\ e \notin pending
  BY <1>1, NextIsFree DEF Take
<1>3. /\ w <= threads /\ working[w] = None
      /\ working' = [working EXCEPT ![w] = e] /\ pending' = pending \cup {e}
      /\ UNCHANGED <<remaining_entries, second_chances, disk, threads, main, saver>>
  BY DEF Take
<1> HIDE DEF e
<1>4. TypeInv'
  BY <1>1, <1>2, <1>3 DEF TypeInv, disk
<1>5. RecordInv'
  BY <1>1, <1>3 DEF RecordInv, Recorded, disk
<1>6. working \in [Workers -> Encodings \cup {None}]
  BY <1>1 DEF TypeInv
<1>7. WorkInv'
  <2>1. /\ working'[w] = e
        /\ \A v \in Workers : v # w => working'[v] = working[v]
    BY <1>3, <1>6
  <2>2. \A v \in Workers : working[v] # e
    <3>1. \A v \in Workers : working[v] # None => working[v] \in pending
      BY <1>1 DEF WorkInv, TakenIsQueued
    <3>2. e # None
      BY <1>2, SynthesisAssumption DEF Encodings, None
    <3> QED BY <1>2, <3>1, <3>2
  <2>3. TakenIsQueued'
    <3> SUFFICES ASSUME NEW u \in Workers, working'[u] # None
                 PROVE  /\ working'[u] \in Range(remaining_entries) \cap pending'
                        /\ \A v \in Workers : v # u => working'[v] # working'[u]
      BY <1>3 DEF TakenIsQueued
    <3>1. CASE u = w
      BY <1>2, <1>3, <2>1, <2>2, <3>1
    <3>2. CASE u # w
      BY <1>1, <1>3, <2>1, <2>2, <3>2 DEF WorkInv, TakenIsQueued
    <3> QED BY <3>1, <3>2
  <2>4. \A f \in pending' : \E v \in Workers : working'[v] = f
    <3> SUFFICES ASSUME NEW f \in pending' PROVE \E v \in Workers : working'[v] = f
      OBVIOUS
    <3>1. CASE f = e
      BY <2>1, <3>1
    <3>2. CASE f # e
      <4>1. f \in pending
        BY <1>3, <3>2
      <4>2. PICK v \in Workers : working[v] = f
        BY <1>1, <4>1 DEF WorkInv
      <4>3. v # w
        BY <1>1, <1>3, <4>1, <4>2, SynthesisAssumption DEF TypeInv, Encodings, None
      <4> QED BY <2>1, <4>2, <4>3
    <3> QED BY <3>1, <3>2
  <2> QED BY <2>3, <2>4 DEF WorkInv
<1>8. StopInv'
  <2>1. main \notin {"stop", "join", "save", "done"}
    BY <1>1, <1>3, SynthesisAssumption DEF StopInv, Workers
  <2> QED BY <1>3, <2>1 DEF StopInv
<1> QED BY <1>4, <1>5, <1>7, <1>8 DEF SynthesisInv

(* complete removes an entry only when its encoding is finished with, and  *)
(* leaves the entries of the other workers in the queue.                   *)
LEMMA CompleteInv ==
    ASSUME SynthesisInv, NEW w \in Workers, Complete(w)
    PROVE  SynthesisInv'
<1> DEFINE e == working[w]
<1>1. TypeInv /\ WorkInv /\ StopInv /\ RecordInv
  BY DEF SynthesisInv
<1>2. PICK result \in 0 .. Outputs :
          /\ pending' = pending \ {e}
          /\ remaining_entries' = IF GivesUp(e, result) THEN Without(remaining_entries, Position(e))
                                  ELSE remaining_entries
          /\ second_chances' = IF result = Outputs THEN second_chances ELSE second_chances \cup {e}
          /\ artifacts' = [artifacts EXCEPT ![e] = Append(@, result)]
  BY Zenon DEF Complete
<1>3. /\ e # None /\ working' = [working EXCEPT ![w] = None]
      /\ UNCHANGED <<state_json, threads, main, saver>>
  BY DEF Complete
<1>4. /\ working \in [Workers -> Encodings \cup {None}] /\ artifacts \in [Encodings -> Seq(0 .. Outputs)]
      /\ remaining_entries \in Seq(Encodings)
  BY <1>1 DEF TypeInv
<1>5. /\ e \in Encodings /\ e \in Range(remaining_entries)
      /\ \A v \in Workers : v # w => working[v] # e
      /\ \A v \in Workers : v # w => working'[v] = working[v]
      /\ working'[w] = None
  BY <1>1, <1>3, <1>4 DEF WorkInv, TakenIsQueued
<1> HIDE DEF e
<1>6. /\ remaining_entries' \in Seq(Encodings)
      /\ \A f \in Range(remaining_entries) : f # e => f \in Range(remaining_entries')
      /\ ~GivesUp(e, result) => remaining_entries' = remaining_entries
  <2>1. CASE GivesUp(e, result)
    <3>1. Position(e) \in DOMAIN remaining_entries /\ remaining_entries[Position(e)] = e
      BY <1>1, <1>5, PositionFound
    <3>2. remaining_entries' = Without(remaining_entries, Position(e))
      BY <1>2, <2>1
    <3> QED BY <1>4, <2>1, <3>1, <3>2, RemoveKeeps
  <2> QED BY <1>2, <1>4, <2>1
<1>7. /\ artifacts' \in [Encodings -> Seq(0 .. Outputs)]
      /\ artifacts'[e] = Append(artifacts[e], result)
      /\ \A f \in Encodings : f # e => artifacts'[f] = artifacts[f]
  <2>1. Append(artifacts[e], result) \in Seq(0 .. Outputs)
    BY <1>4, <1>5
  <2> QED BY <1>2, <1>4, <1>5, <2>1
<1>8. /\ Len(artifacts[e]) \in Nat /\ Len(artifacts'[e]) = Len(artifacts[e]) + 1
      /\ result \in Range(artifacts'[e])
      /\ \A y \in Range(artifacts[e]) : y \in Range(artifacts'[e])
  BY <1>4, <1>5, <1>7, AppendKeeps
<1>9. TypeInv'
  <2>1. second_chances' \subseteq Encodings /\ pending' \subseteq Encodings
    BY <1>1, <1>2, <1>5 DEF TypeInv
  <2>2. working' \in [Workers -> Encodings \cup {None}]
    BY <1>3, <1>4
  <2> QED BY <1>1, <1>3, <1>6, <1>7, <2>1, <2>2 DEF TypeInv
<1>10. \A f \in Encodings : Recorded(f) => Recorded(f)'
  <2> SUFFICES ASSUME NEW f \in Encodings, Recorded(f) PROVE Recorded(f)'
    OBVIOUS
  <2>1. CASE f = e
    <3>1. CASE Outputs \in Range(artifacts[e])
      BY <1>8, <2>1, <3>1 DEF Recorded
    <3>2. CASE Len(artifacts[e]) >= 2
      <4>1. Len(artifacts'[e]) >= 2
        BY <1>8, <3>2
      <4> QED BY <2>1, <4>1 DEF Recorded
    <3> QED BY <2>1, <3>1, <3>2 DEF Recorded
  <2>2. CASE f # e
    BY <1>7, <2>2 DEF Recorded
  <2> QED BY <2>1, <2>2
<1>11. RecordInv'
  <2>1. \A f \in Encodings : f \notin Range(remaining_entries') => Recorded(f)'
    <3> SUFFICES ASSUME NEW f \in Encodings, f \notin Range(remaining_entries') PROVE Recorded(f)'
      OBVIOUS
    <3>1. CASE f \notin Range(remaining_entries)
      BY <1>1, <1>10, <3>1 DEF RecordInv
    <3>2. CASE f \in Range(remaining_entries)
      <4>1. f = e /\ GivesUp(e, result)
        BY <1>6, <3>2
      <4>2. result = Outputs \/ Len(artifacts[e]) >= 1
        BY <1>1, <4>1 DEF GivesUp, RecordInv
      <4> QED BY <1>8, <4>1, <4>2 DEF Recorded
    <3> QED BY <3>1, <3>2
  <2>2. \A f \in Encodings : f \notin Range(state_json') => Recorded(f)'
    BY <1>1, <1>3, <1>10 DEF RecordInv
  <2>3. \A f \in second_chances' : Len(artifacts'[f]) >= 1
    <3> SUFFICES ASSUME NEW f \in second_chances' PROVE Len(artifacts'[f]) >= 1
      OBVIOUS
    <3>1. CASE f = e
      BY <1>8, <3>1
    <3>2. CASE f # e
      <4>1. f \in second_chances /\ f \in Encodings
        BY <1>1, <1>2, <3>2 DEF TypeInv
      <4> QED BY <1>1, <1>7, <3>2, <4>1 DEF RecordInv
    <3> QED BY <3>1, <3>2
  <2> QED BY <2>1, <2>2, <2>3 DEF RecordInv
<1>12. WorkInv'
  <2>1. TakenIsQueued'
    <3> SUFFICES ASSUME NEW u \in Workers, working'[u] # None
                 PROVE  /\ working'[u] \in Range(remaining_entries') \cap pending'
                        /\ \A v \in Workers : v # u => working'[v] # working'[u]
      BY DEF TakenIsQueued, None
    <3>1. u # w /\ working'[u] = working[u] /\ working[u] # e
      BY <1>5
    <3>2. /\ working[u] \in Range(remaining_entries) \cap pending
          /\ \A v \in Workers : v # u => working[v] # working[u]
      BY <1>1, <3>1 DEF WorkInv, TakenIsQueued
    <3> QED BY <1>2, <1>5, <1>6, <3>1, <3>2
  <2>2. \A f \in pending' : \E v \in Workers : working'[v] = f
    <3> SUFFICES ASSUME NEW f \in pending' PROVE \E v \in Workers : working'[v] = f
      OBVIOUS
    <3>1. f \in pending /\ f # e
      BY <1>2
    <3>2. PICK v \in Workers : working[v] = f
      BY <1>1, <3>1 DEF WorkInv
    <3> QED BY <1>5, <3>1, <3>2 DEF e
  <2> QED BY <2>1, <2>2 DEF WorkInv
<1>13. StopInv'
  <2>1. main \notin {"join", "save", "done"}
    BY <1>1, <1>3 DEF StopInv, e
  <2> QED BY <1>1, <1>3, <2>1 DEF StopInv
<1> QED BY <1>9, <1>11, <1>12, <1>13 DEF SynthesisInv

(* The main thread's steps: resize, stop, join and the last save. *)
LEMMA MainInv ==
    ASSUME SynthesisInv,
           \/ \E n \in 0 .. MaxThreads : Threads(n)
           \/ RampUpStep \/ ResizeReturns \/ Stop \/ StopReturns \/ ScopeEnds \/ LastSave
    PROVE  SynthesisInv'
<1>1. TypeInv /\ WorkInv /\ StopInv /\ RecordInv
  BY DEF SynthesisInv
<1>2. /\ UNCHANGED <<queue, artifacts, working, saver>>
      /\ UNCHANGED state_json \/ state_json' = remaining_entries
  BY DEF Threads, RampUpStep, ResizeReturns, Stop, StopReturns, ScopeEnds, LastSave, disk
<1>3. RampTarget \in Nat
  <2>1. {threads + RampStep, RampUp} \in SUBSET Nat
    BY <1>1, SynthesisAssumption DEF TypeInv
  <2> QED BY <2>1, MinIsLeast DEF RampTarget
<1>4. threads' \in Nat
  BY <1>1, <1>3, SynthesisAssumption
     DEF Threads, RampUpStep, Resize, ResizeReturns, Stop, StopReturns, ScopeEnds, LastSave, TypeInv
<1>5. TypeInv'
  BY <1>1, <1>2, <1>4 DEF TypeInv, queue
<1>6. RecordInv'
  <2>1. UNCHANGED <<remaining_entries, second_chances, artifacts>>
    BY <1>2 DEF queue
  <2>2. \A f \in Encodings : f \notin Range(state_json') => Recorded(f)'
    BY <1>1, <1>2, <2>1 DEF RecordInv, Recorded
  <2> QED BY <1>1, <2>1, <2>2 DEF RecordInv, Recorded
<1>7. WorkInv'
  BY <1>1, <1>2 DEF WorkInv, TakenIsQueued, queue
<1>8. StopInv'
  <2>1. CASE \E n \in 0 .. MaxThreads : Threads(n)
    BY <2>1 DEF StopInv, Threads, Resize
  <2>2. CASE RampUpStep
    BY <2>2 DEF StopInv, RampUpStep, Resize
  <2>3. CASE ResizeReturns
    BY <2>3 DEF StopInv, ResizeReturns
  <2>4. CASE Stop
    BY <2>4 DEF StopInv, Stop
  <2>5. CASE StopReturns
    BY <1>1, <2>5, SynthesisAssumption DEF StopInv, StopReturns, Stopped, Workers
  <2>6. CASE ScopeEnds
    BY <1>1, <2>6 DEF StopInv, ScopeEnds, disk, queue
  <2>7. CASE LastSave
    BY <1>1, <2>7 DEF StopInv, LastSave, queue
  <2> QED BY <2>1, <2>2, <2>3, <2>4, <2>5, <2>6, <2>7
<1> QED BY <1>5, <1>6, <1>7, <1>8 DEF SynthesisInv

(* The saver thread writes the queue as it is, while the run goes on. *)
LEMMA SaverInv ==
    ASSUME SynthesisInv, Saver
    PROVE  SynthesisInv'
<1>1. TypeInv /\ WorkInv /\ StopInv /\ RecordInv
  BY DEF SynthesisInv
<1>2. /\ UNCHANGED <<queue, artifacts, working, threads, main>>
      /\ UNCHANGED state_json \/ state_json' = remaining_entries
      /\ saver # "exit"
  BY DEF Saver, SaverLooks, SaverWakes, SaveEnds, disk
<1>3. UNCHANGED <<remaining_entries, pending, second_chances, artifacts, working, threads, main>>
  BY <1>2 DEF queue
<1>4. TypeInv'
  BY <1>1, <1>2, <1>3 DEF TypeInv
<1>5. RecordInv'
  <2>1. \A f \in Encodings : f \notin Range(state_json') => Recorded(f)'
    BY <1>1, <1>2, <1>3 DEF RecordInv, Recorded
  <2> QED BY <1>1, <1>3, <2>1 DEF RecordInv, Recorded
<1>6. WorkInv'
  BY <1>1, <1>3 DEF WorkInv, TakenIsQueued
<1>7. StopInv'
  BY <1>1, <1>2, <1>3 DEF StopInv
<1> QED BY <1>4, <1>5, <1>6, <1>7 DEF SynthesisInv

(* A new process starts with the saved queue, whenever the old one ended. *)
LEMMA RestartInv ==
    ASSUME SynthesisInv, Restart
    PROVE  SynthesisInv'
<1>1. TypeInv /\ RecordInv
  BY DEF SynthesisInv
<1>2. /\ remaining_entries' = state_json /\ pending' = {} /\ second_chances' = {}
      /\ working' = [w \in Workers |-> None] /\ threads' = StartThreads /\ main' = "resize"
      /\ UNCHANGED <<state_json, artifacts>>
  BY DEF Restart, Loads, disk
<1>3. TypeInv'
  BY <1>1, <1>2, SynthesisAssumption DEF TypeInv
<1>4. RecordInv'
  BY <1>1, <1>2 DEF RecordInv, Recorded
<1>5. WorkInv' /\ StopInv'
  BY <1>2 DEF WorkInv, TakenIsQueued, StopInv, None
<1> QED BY <1>3, <1>4, <1>5 DEF SynthesisInv

(* SynthesisInv is an invariant of the command, crashes and restarts included. *)
THEOREM SynthesisInvariance == Spec => []SynthesisInv
<1>1. Init => SynthesisInv
  BY SynthesisInitInv
<1>2. SynthesisInv /\ [Next]_vars => SynthesisInv'
  <2> SUFFICES ASSUME SynthesisInv, [Next]_vars PROVE SynthesisInv'
    OBVIOUS
  <2>1. CASE \E w \in Workers : Take(w)
    BY <2>1, TakeInv
  <2>2. CASE \E w \in Workers : Complete(w)
    BY <2>2, CompleteInv
  <2>3. CASE \/ \E n \in 0 .. MaxThreads : Threads(n)
             \/ RampUpStep \/ ResizeReturns \/ Stop \/ StopReturns \/ ScopeEnds \/ LastSave
    BY <2>3, MainInv
  <2>4. CASE Saver
    BY <2>4, SaverInv
  <2>5. CASE Restart
    BY <2>5, RestartInv
  <2>6. CASE UNCHANGED vars
    BY <2>6 DEF vars, queue, disk, SynthesisInv, TypeInv, RecordInv, Recorded, WorkInv,
                TakenIsQueued, StopInv
  <2> QED BY <2>1, <2>2, <2>3, <2>4, <2>5, <2>6 DEF Next, Saver
<1> QED BY <1>1, <1>2, PTL DEF Spec

(* An encoding that has left the saved queue has all its outputs or two    *)
(* artifacts on file, whenever the process is killed: complete, save_state *)
(* and the restart lose no work.                                           *)
THEOREM NothingForgotten == Spec => []RemovedIsRecorded
<1>1. SynthesisInv => RemovedIsRecorded
  <2> SUFFICES ASSUME SynthesisInv, NEW e \in Encodings \ Range(state_json), ~(Len(artifacts[e]) >= 2)
               PROVE  Len(artifacts[e]) = 1 /\ Extracted(artifacts[e]) = Outputs
    BY DEF RemovedIsRecorded
  <2>1. artifacts[e] \in Seq(0 .. Outputs) /\ Outputs \in Range(artifacts[e])
    BY DEF SynthesisInv, TypeInv, RecordInv, Recorded
  <2>2. Len(artifacts[e]) = 1 /\ artifacts[e][1] = Outputs
    <3>1. PICK n : n = Len(artifacts[e])
      OBVIOUS
    <3>2. PICK k \in 1 .. n : artifacts[e][k] = Outputs
      BY <2>1, <3>1 DEF Range
    <3>3. n \in Nat /\ ~(n >= 2)
      BY <2>1, <3>1
    <3>4. k = 1 /\ n = 1
      BY <3>2, <3>3
    <3> QED BY <3>1, <3>2, <3>4
  <2>3. Range(artifacts[e]) = {Outputs}
    BY <2>1, <2>2 DEF Range
  <2>4. Max({Outputs}) = Outputs
    BY SynthesisAssumption DEF Max
  <2> QED BY <2>2, <2>3, <2>4 DEF Extracted
<1> QED BY <1>1, SynthesisInvariance, PTL

(* The positions that complete unwraps exist, and no encoding is in two    *)
(* workers' hands.                                                         *)
THEOREM CompleteFindsItsEntry == Spec => []TakenIsQueued
<1>1. SynthesisInv => TakenIsQueued
  BY DEF SynthesisInv, WorkInv
<1> QED BY <1>1, SynthesisInvariance, PTL

(* A run that was stopped has saved the queue as it is, with nothing in    *)
(* progress, although the saver thread saves at the same time.             *)
THEOREM StopIsComplete == Spec => []StopSavesAll
<1>1. SynthesisInv => StopSavesAll
  <2> SUFFICES ASSUME SynthesisInv, main = "done" PROVE state_json = remaining_entries /\ pending = {}
    BY DEF StopSavesAll
  <2>1. \A w \in Workers : working[w] = None
    BY DEF SynthesisInv, StopInv
  <2>2. None \notin pending
    BY SynthesisAssumption DEF SynthesisInv, TypeInv, Encodings, None
  <2> QED BY <2>1, <2>2 DEF SynthesisInv, WorkInv, StopInv
<1> QED BY <1>1, SynthesisInvariance, PTL
=============================================================================
