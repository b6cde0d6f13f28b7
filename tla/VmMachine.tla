----------------------------- MODULE VmMachine -----------------------------
(***************************************************************************)
(* A virtual machine from its start to its end: the handshake of VmStartup *)
(* and, once the client serves its queues, the page mappings of the        *)
(* commands it runs (UserPages).  Host and client run concurrently; the    *)
(* machine can be killed, or exit, in the middle of a command.             *)
(***************************************************************************)
EXTENDS VmStartup, UserPages

machineVars == <<vars, pageVars>>

MachineInit == Init /\ PagesInit

(* One step of Observer::observe for a command of one of the queues.       *)
Serve == /\ proc = "running" /\ clientPc = "serve"
         /\ PagesNext
         /\ UNCHANGED vars

MachineNext == (Next /\ UNCHANGED pageVars) \/ Serve

(* The calling thread runs, and so does the machine as long as it lives. *)
MachineSpec == /\ MachineInit /\ [][MachineNext]_machineVars
               /\ WF_machineVars(HostStep /\ UNCHANGED pageVars)
               /\ WF_machineVars(ClientStep /\ UNCHANGED pageVars)
=============================================================================
