--------------------------- MODULE EnumerationRun ---------------------------
(***************************************************************************)
(* The run subcommand of enumerate (enumerate.rs): the work queue of       *)
(* Enumeration, a thread that saves it every minute, the artifact file,    *)
(* which outlives the process, and a process that is killed and started    *)
(* again.  What is stalled and what is requested is not saved.             *)
(***************************************************************************)
EXTENDS Enumeration

VARIABLES saved,      \* the state file
          restarts

MaxRestarts == space.restarts   \* bound

runVars == <<vars, saved, restarts>>

(* save_state, under the lock; the state file is replaced by a rename. *)
Snapshot == [work |-> work, filters |-> filters, perfect_instrs_seen |-> perfect_instrs_seen]

(* Fault: the state is saved without the lock, in the middle of complete,  *)
(* before its artifact is on file.                                         *)
SaveUnlocked ==
    /\ \E i \in {j \in DOMAIN work : request[j] # NoRequest} : \E res \in Results(request[i]) :
          LET c == Completed(i, res, FALSE, {})
          IN  saved' = [Snapshot EXCEPT !.work = c.work, !.filters = c.filters]
    /\ UNCHANGED <<vars, restarts>>

(* A state that is saved after the last restart is not read any more. *)
Save == restarts < MaxRestarts /\ saved' = Snapshot /\ UNCHANGED <<vars, restarts>>

(* The process is killed; run loads the state file and makes new runtime   *)
(* data.                                                                   *)
Restart ==
    /\ restarts < MaxRestarts /\ restarts' = restarts + 1
    /\ work' = saved.work /\ filters' = saved.filters /\ perfect_instrs_seen' = saved.perfect_instrs_seen
    /\ stalled' = [i \in DOMAIN work' |-> FALSE] /\ unstall' = [i \in DOMAIN work' |-> << >>]
    /\ request' = [i \in DOMAIN work' |-> NoRequest]
    /\ UNCHANGED <<space, truth, artifacts, saved>>

RunInit == Init /\ saved = Snapshot /\ restarts = 0

RunNext == \/ Next /\ UNCHANGED <<saved, restarts>>
           \/ Save
           \/ Restart

RunSpec == RunInit /\ [][RunNext]_runVars

(* The fairness of FairSpec: the steps of Save change none of vars, and    *)
(* restarts are bounded.                                                   *)
FairRunSpec == RunSpec /\ ([]<>Quiet \/ []<><<Len(work') = Len(work)>>_vars)
=============================================================================
