------------------------------ MODULE VmClient ------------------------------
(***************************************************************************)
(* The client inside the virtual machine (vmimage-x86-64): the main loop   *)
(* that serves the queues of all observers in turn, the switch to user     *)
(* mode for an observation, and the timer interrupt that ends observations *)
(* which do not end by themselves.                                         *)
(*                                                                         *)
(* Of a queue only the number of commands that wait, and whether one has   *)
(* been taken and not yet been marked as processed, is kept; the positions *)
(* in the rings are the subject of VmObserver.  The outcome field of a     *)
(* command stands for the registers written by handle_interrupt, together  *)
(* with the number of timer interrupts the observation has seen.           *)
(***************************************************************************)
EXTENDS Naturals, FiniteSets, FiniteSetsExt

CONSTANTS NumQueues,     \* control frames found by the client
          Capacity,      \* commands a queue can hold
          HangLimit,     \* timer interrupts before an observation is ended (100)
          WaitLimit      \* empty polls before the client halts (50_000)

ASSUME ClientAssumption == /\ NumQueues \in Nat \ {0} /\ Capacity \in Nat \ {0}
                           /\ HangLimit \in Nat /\ WaitLimit \in Nat

VARIABLES
    published,       \* commands published by the host and not yet taken
    unmarked,        \* commands taken and not yet marked as processed
    outcome,         \* the outcome in the command taken last
    bypass,          \* commands of other queues taken since this one had a command waiting
    pc, current_queue, num_waiting,
    restore,         \* RESTORE_STATE.rsp # 0
    target,          \* the queue of the command GPREGS_WRITE_TARGET points into
    hang,            \* HANG_COUNTER, up to HangLimit + 1
    ticks,           \* timer interrupts since the timer was reset, up to HangLimit + 1
    iflag, irq       \* the interrupt flag; a timer interrupt is pending

queueVars == <<published, unmarked, outcome, bypass>>
loopVars  == <<pc, current_queue, num_waiting>>
modeVars  == <<restore, target>>
timerVars == <<hang, ticks, iflag, irq>>
clientVars == <<queueVars, loopVars, modeVars, timerVars>>

Queue == 0 .. NumQueues - 1
Outcome == {"none", "done", "fault", "timeout"}

(* Counting up to the first value that HANG_COUNTER >= 100 cannot tell apart. *)
Counted(n) == IF n > HangLimit THEN n ELSE n + 1

-----------------------------------------------------------------------------
(* The host publishes a command in queue q. *)
Publish(q) == /\ published[q] + unmarked[q] < Capacity
              /\ published' = [published EXCEPT ![q] = @ + 1]
              /\ bypass' = [bypass EXCEPT ![q] = IF published[q] = 0 THEN 0 ELSE @]
              /\ UNCHANGED <<unmarked, outcome, loopVars, modeVars, timerVars>>

(* The queue receive_request settles on: the first one with a command,     *)
(* starting at current_queue.                                              *)
Turn(shift) == (current_queue + shift) % NumQueues
FirstShift  == Min({s \in 0 .. NumQueues - 1 : published[Turn(s)] > 0})

(* receive_request returns a command. *)
Receive ==
    LET q == Turn(FirstShift)
    IN  /\ pc = "poll"
        /\ \E s \in Queue : published[s] > 0
        /\ current_queue' = q
        /\ published' = [published EXCEPT ![q] = @ - 1]
        /\ unmarked' = [unmarked EXCEPT ![q] = @ + 1]
        /\ outcome' = [outcome EXCEPT ![q] = [what |-> "none", ticks |-> 0]]
        /\ bypass' = [o \in Queue |-> IF o # q /\ published[o] > 0 THEN bypass[o] + 1 ELSE 0]
        /\ target' = q
        /\ num_waiting' = 0
        /\ pc' = "received"
        /\ UNCHANGED <<restore, timerVars>>

(* receive_request returns nothing: the client spins, or halts until the   *)
(* next interrupt.                                                         *)
Idle == /\ pc = "poll"
        /\ \A q \in Queue : published[q] = 0
        /\ IF num_waiting > WaitLimit
           THEN pc' = "halt" /\ iflag' = TRUE /\ UNCHANGED num_waiting
           ELSE num_waiting' = num_waiting + 1 /\ UNCHANGED <<pc, iflag>>
        /\ UNCHANGED <<queueVars, current_queue, modeVars, hang, ticks, irq>>

(* Fault: the counter keeps what it counted while the client was idle. *)
ResetTimerForgotten == /\ pc = "received"
                       /\ ticks' = 0
                       /\ pc' = "prepare"
                       /\ UNCHANGED <<queueVars, current_queue, num_waiting, modeVars, hang, iflag, irq>>

ResetTimer == /\ pc = "received"
              /\ hang' = 0 /\ ticks' = 0
              /\ pc' = "prepare"
              /\ UNCHANGED <<queueVars, current_queue, num_waiting, modeVars, iflag, irq>>

(* observe up to the switch: an invalid segment base is answered at once.  *)
Prepare == /\ pc = "prepare"
           /\ \/ /\ outcome' = [outcome EXCEPT ![target] = [what |-> "fault", ticks |-> ticks]]
                 /\ pc' = "mark"
              \/ /\ pc' = "switch"
                 /\ UNCHANGED outcome
           /\ UNCHANGED <<published, unmarked, bypass, current_queue, num_waiting, modeVars, timerVars>>

(* jmp_to_usermode: the registers to return to are saved, then iretq. *)
SaveRegisters == /\ pc = "switch"
                 /\ restore' = TRUE
                 /\ pc' = "iretq"
                 /\ UNCHANGED <<queueVars, current_queue, num_waiting, target, timerVars>>

EnterUser == /\ pc = "iretq"
             /\ iflag' = TRUE
             /\ pc' = "user"
             /\ UNCHANGED <<queueVars, current_queue, num_waiting, modeVars, hang, ticks, irq>>

(* handle_interrupt: the registers are written to the command, and the     *)
(* client continues, with interrupts disabled, where it saved its own.     *)
HandleInterrupt(what, t) ==
    /\ outcome' = [outcome EXCEPT ![target] = [what |-> what, ticks |-> t]]
    /\ iflag' = FALSE
    /\ pc' = "return"

(* The instruction ends, with an exception that handle_interrupt records. *)
UserExit == /\ pc = "user"
            /\ HandleInterrupt("done", ticks)
            /\ UNCHANGED <<published, unmarked, bypass, current_queue, num_waiting, modeVars, hang, ticks, irq>>

(* Fault: the client still looks as if it were in user mode. *)
ReturnInUserMode == /\ pc = "return"
                    /\ pc' = "mark"
                    /\ UNCHANGED <<queueVars, current_queue, num_waiting, modeVars, timerVars>>

(* The rest of jmp_to_usermode and of observe. *)
Return == /\ pc = "return"
          /\ restore' = FALSE
          /\ pc' = "mark"
          /\ UNCHANGED <<queueVars, current_queue, num_waiting, target, timerVars>>

(* Fault: the queue keeps its turn. *)
MarkProcessedGreedy == /\ pc = "mark"
                       /\ unmarked' = [unmarked EXCEPT ![current_queue] = 0]
                       /\ pc' = "poll"
                       /\ UNCHANGED <<published, outcome, bypass, current_queue, num_waiting, modeVars, timerVars>>

(* mark_processed: the read index of current_queue is published as its     *)
(* `current`, and the turn goes to the next queue.                         *)
MarkProcessed == /\ pc = "mark"
                 /\ unmarked' = [unmarked EXCEPT ![current_queue] = 0]
                 /\ current_queue' = (current_queue + 1) % NumQueues
                 /\ pc' = "poll"
                 /\ UNCHANGED <<published, outcome, bypass, num_waiting, modeVars, timerVars>>

-----------------------------------------------------------------------------
(* The timer raises its interrupt line; it is delivered when interrupts    *)
(* are enabled.                                                            *)
TimerFires == /\ ~irq
              /\ irq' = TRUE
              /\ UNCHANGED <<queueVars, loopVars, modeVars, hang, ticks, iflag>>

(* kernel_timer_interrupt_handler; it also ends a halt. *)
KernelTick == /\ irq /\ iflag /\ ~restore
              /\ irq' = FALSE
              /\ hang' = Counted(hang) /\ ticks' = Counted(ticks)
              /\ pc' = IF pc = "halt" THEN "poll" ELSE pc
              /\ UNCHANGED <<queueVars, current_queue, num_waiting, modeVars, iflag>>

(* Fault: the counter is never compared. *)
UserTickPatient == /\ irq /\ iflag /\ restore
                   /\ irq' = FALSE
                   /\ hang' = Counted(hang) /\ ticks' = Counted(ticks)
                   /\ UNCHANGED <<queueVars, loopVars, modeVars, iflag>>

(* timer_interrupt_handler between SaveRegisters and Return. *)
UserTick == /\ irq /\ iflag /\ restore
            /\ irq' = FALSE
            /\ hang' = Counted(hang) /\ ticks' = Counted(ticks)
            /\ IF hang >= HangLimit THEN HandleInterrupt("timeout", Counted(ticks))
                                    ELSE UNCHANGED <<outcome, iflag, pc>>
            /\ UNCHANGED <<published, unmarked, bypass, current_queue, num_waiting, modeVars>>

-----------------------------------------------------------------------------
ClientInit == /\ published = [q \in Queue |-> 0] /\ unmarked = [q \in Queue |-> 0]
              /\ outcome = [q \in Queue |-> [what |-> "none", ticks |-> 0]]
              /\ bypass = [q \in Queue |-> 0]
              /\ pc = "poll" /\ current_queue = 0 /\ num_waiting = 0
              /\ restore = FALSE /\ target = 0
              /\ hang = 0 /\ ticks = 0 /\ iflag = TRUE /\ irq = FALSE

LoopStep == \/ Receive \/ Idle \/ ResetTimer \/ Prepare \/ SaveRegisters
            \/ EnterUser \/ Return \/ MarkProcessed
Interrupt == KernelTick \/ UserTick

ClientNext == \/ \E q \in Queue : Publish(q)
              \/ LoopStep \/ UserExit \/ TimerFires \/ Interrupt

ClientSpec == ClientInit /\ [][ClientNext]_clientVars

(* The client runs, the timer ticks and its interrupts are delivered.      *)
(* Nothing is assumed of the observed instruction or of the hosts.         *)
FairClientSpec == ClientSpec /\ WF_clientVars(LoopStep) /\ WF_clientVars(TimerFires) /\ WF_clientVars(Interrupt)

-----------------------------------------------------------------------------
TypeOK ==
    /\ published \in [Queue -> 0 .. Capacity] /\ unmarked \in [Queue -> 0 .. Capacity]
    /\ outcome \in [Queue -> [what : Outcome, ticks : 0 .. HangLimit + 1]]
    /\ bypass \in [Queue -> Nat]
    /\ pc \in {"poll", "halt", "received", "prepare", "switch", "iretq", "user", "return", "mark"}
    /\ current_queue \in Queue /\ num_waiting \in 0 .. WaitLimit + 1
    /\ restore \in BOOLEAN /\ target \in Queue
    /\ hang \in 0 .. HangLimit + 1 /\ ticks \in 0 .. HangLimit + 1
    /\ iflag \in BOOLEAN /\ irq \in BOOLEAN

(* Between two commands the client owes no answer: what it has taken it    *)
(* has marked as processed, in the queue it took it from.                  *)
AnswersItsQueue == pc \in {"poll", "halt"} => \A q \in Queue : unmarked[q] = 0

(* A command that waits sees at most one command of every other queue      *)
(* served before it, however busy the other observers keep the client.     *)
BoundedBypass == \A q \in Queue : published[q] > 0 => bypass[q] <= NumQueues - 1

(* An observation is reported to have timed out only after more than       *)
(* HangLimit timer interrupts of its own; time spent idle or in other      *)
(* observations does not count.                                            *)
TimeoutIsEarned == \A q \in Queue : outcome[q].what = "timeout" => outcome[q].ticks > HangLimit

(* A command is marked as processed with its outcome written, and an       *)
(* outcome that has been marked is not touched until the next command of   *)
(* that queue is taken.                                                    *)
PublishedOutcomeStable ==
    [][\A q \in Queue :
          /\ unmarked[q] = 1 /\ unmarked'[q] = 0 => outcome[q].what # "none"
          /\ unmarked[q] = 0 /\ unmarked'[q] = 0 => outcome'[q] = outcome[q]]_clientVars

(* Every command is answered, also one whose instruction never ends and    *)
(* whatever the other observers do.                                        *)
EveryCommandAnswered ==
    \A q \in Queue : (published[q] + unmarked[q] > 0) ~> (unmarked[q] = 1 /\ pc = "mark")
=============================================================================
