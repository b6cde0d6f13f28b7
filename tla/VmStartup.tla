----------------------------- MODULE VmStartup -----------------------------
(***************************************************************************)
(* Starting and stopping a virtual machine: VmOptions::start writes the    *)
(* control frames and launches QEMU, launch_vm_process polls the first     *)
(* control frame until the client has released it, the client (kernel_main *)
(* of vmimage-x86-64) walks the chain of control frames, fills in its part *)
(* of each and then releases them, and the oracles made from the observers *)
(* share the machine until the last of them is dropped.                    *)
(*                                                                         *)
(* Of a control frame only the fields of this handshake are kept: whether  *)
(* `current` still holds u32::MAX, the number of command frames, the link  *)
(* to the next control frame, and whether the client has written           *)
(* client_info and xsave_layout.                                           *)
(***************************************************************************)
EXTENDS ShmLayout, Sequences, Functions

CONSTANT Nums            \* the numbers of queues a machine is started with

ASSUME NumsAssumption == Nums # {} /\ \A n \in Nums : Usable(n)

VARIABLES num, mem,                    \* the queues and the shared memory
          hostPc, hostIdx, nocapture,  \* VmOptions::start
          observers, live, killed,     \* Vm::observers, the oracles, Drop for Vm
          proc,                        \* the QEMU process
          clientPc, clientAddr, controlFrames, toRelease, pageOffset

hostVars   == <<num, hostPc, hostIdx, nocapture, observers, live, killed>>
clientVars == <<clientPc, clientAddr, controlFrames, toRelease, pageOffset>>
vars       == <<hostVars, mem, proc, clientVars>>

Frame  == 0 .. ShmemFrames - 1
Zeroed == [current |-> "zero", num_command_frames |-> 0, next_control_frame |-> 0, info |-> FALSE]

-----------------------------------------------------------------------------
(* VmOptions::start(n): the shared memory is created and zeroed. *)
Start(n) == /\ hostPc = "idle"
            /\ num' = n
            /\ mem' = [f \in Frame |-> Zeroed]
            /\ hostPc' = "setup" /\ hostIdx' = 0
            /\ UNCHANGED <<nocapture, observers, live, killed, proc, clientVars>>

(* The loop that sets up the control frames. *)
SetupControlFrame ==
    /\ hostPc = "setup"
    /\ mem' = [mem EXCEPT ![QueueStart(num, hostIdx)] =
                 [current |-> "max",
                  num_command_frames |-> CommandFramesPerQueue(num),
                  next_control_frame |-> NextControlFrame(num, hostIdx),
                  info |-> @.info]]
    /\ hostIdx' = hostIdx + 1
    /\ hostPc' = IF hostIdx + 1 = num THEN "spawn" ELSE "setup"
    /\ UNCHANGED <<num, nocapture, observers, live, killed, proc, clientVars>>

(* QEMU is spawned, or cannot be. *)
Spawn == /\ hostPc = "spawn"
         /\ \/ /\ proc' = "running" /\ clientPc' = "boot" /\ hostPc' = "poll"
            \/ /\ hostPc' = "failed" /\ UNCHANGED <<proc, clientPc>>
         /\ UNCHANGED <<num, mem, hostIdx, nocapture, observers, live, killed,
                        clientAddr, controlFrames, toRelease, pageOffset>>

(* The loop of launch_vm_process: `current` of the first control frame is  *)
(* loaded; while it is u32::MAX the process is asked whether it exited.    *)
PollCurrent == /\ hostPc = "poll"
               /\ hostPc' = IF mem[0].current = "max" THEN "wait" ELSE "ready"
               /\ UNCHANGED <<num, mem, hostIdx, nocapture, observers, live, killed, proc, clientVars>>

(* Fault: the loop does not look at the process. *)
PollProcessBlind == /\ hostPc = "wait"
                    /\ hostPc' = "poll"
                    /\ UNCHANGED <<num, mem, hostIdx, nocapture, observers, live, killed, proc, clientVars>>

(* Without a pipe (LIBLISA_NOCAPTURE) reading stdout panics instead of     *)
(* returning the error.                                                    *)
PollProcess == /\ hostPc = "wait"
               /\ hostPc' = IF proc = "running" THEN "poll"
                            ELSE IF nocapture THEN "panicked" ELSE "failed"
               /\ UNCHANGED <<num, mem, hostIdx, nocapture, observers, live, killed, proc, clientVars>>

(* VmOracleSource::start: the observers are created, each with a handle on *)
(* the machine.                                                            *)
Observers == /\ hostPc = "ready"
             /\ observers' = [i \in 0 .. num - 1 |->
                                [queue    |-> QueueStart(num, i),
                                 max_len  |-> mem[QueueStart(num, i)].num_command_frames - 1,
                                 pageBase |-> PageBase(num),
                                 minIndex |-> MinIndex(num, i)]]
             /\ live' = 0 .. num - 1
             /\ hostPc' = "running"
             /\ UNCHANGED <<num, mem, hostIdx, nocapture, killed, proc, clientVars>>

(* An oracle is dropped; the last one drops the Vm, which kills the process. *)
DropOracle(i) == /\ hostPc = "running" /\ i \in live
                 /\ live' = live \ {i}
                 /\ IF live = {i}
                    THEN proc' = "exited" /\ killed' = TRUE /\ hostPc' = "gone"
                    ELSE UNCHANGED <<proc, killed, hostPc>>
                 /\ UNCHANGED <<num, mem, hostIdx, nocapture, observers, clientVars>>

-----------------------------------------------------------------------------
(* The client: the loop that initialises the control frames. *)
InitControlFrame ==
    /\ proc = "running" /\ clientPc = "boot"
    /\ mem' = [mem EXCEPT ![clientAddr].info = TRUE]
    /\ controlFrames' = Append(controlFrames,
                               [addr |-> clientAddr, size |-> mem[clientAddr].num_command_frames + 1])
    /\ IF mem[clientAddr].next_control_frame = 0
       THEN clientPc' = "release" /\ toRelease' = Len(controlFrames) + 1 /\ UNCHANGED clientAddr
       ELSE clientAddr' = mem[clientAddr].next_control_frame /\ UNCHANGED <<clientPc, toRelease>>
    /\ UNCHANGED <<hostVars, proc, pageOffset>>

(* Fault: the control frames are released first to last. *)
ReleaseForward ==
    /\ proc = "running" /\ clientPc = "release"
    /\ mem' = [mem EXCEPT ![controlFrames[Len(controlFrames) + 1 - toRelease].addr].current = "zero"]
    /\ toRelease' = toRelease - 1
    /\ clientPc' = IF toRelease = 1 THEN "incoming" ELSE "release"
    /\ UNCHANGED <<hostVars, proc, clientAddr, controlFrames, pageOffset>>

(* The control frames are released last to first. *)
Release ==
    /\ proc = "running" /\ clientPc = "release"
    /\ mem' = [mem EXCEPT ![controlFrames[toRelease].addr].current = "zero"]
    /\ toRelease' = toRelease - 1
    /\ clientPc' = IF toRelease = 1 THEN "incoming" ELSE "release"
    /\ UNCHANGED <<hostVars, proc, clientAddr, controlFrames, pageOffset>>

(* Incoming::new and offset_translator; a queue without command frames     *)
(* makes the client run its benchmark and exit.                            *)
NewIncoming ==
    /\ proc = "running" /\ clientPc = "incoming"
    /\ LET ok == \A k \in 1 .. Len(controlFrames) : controlFrames[k].size > 1
       IN  /\ clientPc' = IF ok THEN "serve" ELSE "benchmark"
           /\ proc' = IF ok THEN proc ELSE "exited"
    /\ pageOffset' = FoldFunction(LAMBDA c, sum : c.size + sum, 0, controlFrames)
    /\ UNCHANGED <<hostVars, mem, clientAddr, controlFrames, toRelease>>

(* QEMU exits: the client panics, or the process ends for another reason. *)
ProcessDies == /\ proc = "running"
               /\ proc' = "exited"
               /\ UNCHANGED <<hostVars, mem, clientVars>>

-----------------------------------------------------------------------------
Init == /\ num = 0 /\ mem = [f \in Frame |-> Zeroed]
        /\ hostPc = "idle" /\ hostIdx = 0 /\ nocapture \in BOOLEAN
        /\ observers = << >> /\ live = {} /\ killed = FALSE
        /\ proc = "none"
        /\ clientPc = "off" /\ clientAddr = 0 /\ controlFrames = << >>
        /\ toRelease = 0 /\ pageOffset = 0

HostStep   == SetupControlFrame \/ Spawn \/ PollCurrent \/ PollProcess \/ Observers
ClientStep == InitControlFrame \/ Release \/ NewIncoming

Next == \/ \E n \in Nums : Start(n)
        \/ HostStep
        \/ \E i \in live : DropOracle(i)
        \/ ClientStep
        \/ ProcessDies

Spec == Init /\ [][Next]_vars

(* The calling thread runs, and so does the machine as long as it lives. *)
FairSpec == Spec /\ WF_vars(HostStep) /\ WF_vars(ClientStep)

-----------------------------------------------------------------------------
(* The queues and the page frames of all observers share no frame, and     *)
(* none lies outside the shared memory.                                    *)
RegionsDisjoint ==
    /\ \A i \in 0 .. num - 1 : QueueFrames(num, i) \cup PageFrames(num, i) \subseteq Frame
    /\ \A i, j \in 0 .. num - 1 :
          /\ i # j => QueueFrames(num, i) \cap QueueFrames(num, j) = {}
          /\ i # j => PageFrames(num, i) \cap PageFrames(num, j) = {}
          /\ QueueFrames(num, i) \cap PageFrames(num, j) = {}

(* Once start has returned, every control frame has been filled in and     *)
(* released by the client, although the host polls only the first one:     *)
(* `current` of no queue can still hold u32::MAX, which the host would take *)
(* for a position in the ring.                                             *)
ReadyMeansInitialised ==
    hostPc \in {"ready", "running"} =>
        \A i \in 0 .. num - 1 : /\ mem[QueueStart(num, i)].info
                                /\ mem[QueueStart(num, i)].current = "zero"

(* start returns: with a machine, with an error, or with a panic. *)
StartReturns == (hostPc = "setup") ~> (hostPc \in {"running", "gone", "failed", "panicked"})
=============================================================================
