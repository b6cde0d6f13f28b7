----------------------------- MODULE ShmLayout -----------------------------
(***************************************************************************)
(* How the shared memory of a virtual machine is divided between the       *)
(* observers: VmOptions::start and Vm::observers on the host               *)
(* (liblisa-x64-observer/src/vm.rs) and the walk over the control frames   *)
(* with which the client recovers the layout (vmimage-x86-64).             *)
(*                                                                         *)
(* All offsets are counted in frames of FRAME_SIZE bytes.  The memory      *)
(* starts with one queue per observer (a control frame followed by its     *)
(* command frames); the page frames of all observers follow.               *)
(***************************************************************************)
EXTENDS Naturals

CONSTANT ShmemFrames     \* SHMEM_SIZE / FRAME_SIZE

ASSUME ShmemAssumption == ShmemFrames \in Nat

(* The frames left for commands and pages when there are num queues. *)
FramesAvailable(num) == ShmemFrames - num

TotalFramesPerQueue(num)   == FramesAvailable(num) \div num
CommandFramesPerQueue(num) == TotalFramesPerQueue(num) \div 4

PageFramesPerQueue(num) == TotalFramesPerQueue(num) - CommandFramesPerQueue(num)

(* The size of a queue, and where queue i starts. *)
QueueSize(num)      == 1 + CommandFramesPerQueue(num)
QueueStart(num, i)  == i * QueueSize(num)

(* The next_control_frame field of control frame i; 0 ends the chain. *)
NextControlFrame(num, i) == IF i = num - 1 THEN 0 ELSE (i + 1) * QueueSize(num)

(* PageMapper of observer i: page frames are numbered over all observers,  *)
(* counting from page_base; observer i uses a stretch of its own.          *)
PageBase(num)      == QueueSize(num) * num
MinIndex(num, i)   == PageFramesPerQueue(num) * i
PageAt(num, index) == PageBase(num) + index

(* The frames of queue i, and the frames that hold the pages of observer i. *)
QueueFrames(num, i) == {QueueStart(num, i) + k : k \in 0 .. QueueSize(num) - 1}
PageFrames(num, i)  == {PageAt(num, MinIndex(num, i) + k) : k \in 0 .. PageFramesPerQueue(num) - 1}

(* A number of queues for which every queue can hold a command. *)
Usable(num) == num \in Nat \ {0} /\ num <= ShmemFrames /\ CommandFramesPerQueue(num) >= 2
=============================================================================
