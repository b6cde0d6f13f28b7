---------------------------- MODULE SynthesisRun ----------------------------
(***************************************************************************)
(* The synthesize command of liblisa-libcli (synthesize.rs) and its work   *)
(* queue (threadpool/synthesis.rs): worker threads that take encodings,    *)
(* synthesize them without the lock and complete them, a thread that saves *)
(* the queue every 30 seconds, the command loop with its ramp-up, the      *)
(* artifact file, and crashes of the process.                              *)
(*                                                                         *)
(* An artifact is the number of outputs of the encoding that have a        *)
(* computation.  The thread pool is reduced to its worker indices: resize  *)
(* stops the workers above its argument and waits for them (see            *)
(* ThreadPool).  The lock is held from next to the start of an analysis    *)
(* and during complete, which are single steps here, and while the queue   *)
(* is being saved.                                                         *)
(***************************************************************************)
EXTENDS Naturals, Sequences, FiniteSetsExt

CONSTANTS NumEncodings,  \* encodings at create
          Loaded,        \* encodings in the file that run loads
          Outputs,       \* outputs of an encoding
          MaxThreads,    \* bound: argument of the threads command
          StartThreads,  \* --threads, 2 by default
          RampUp,        \* --ramp-up, 0 for none
          RampStep,      \* threads that a ramp-up adds, 4
          MaxCommands,   \* bound: threads commands and ramp-ups
          MaxRestarts    \* bound

ASSUME SynthesisAssumption ==
    /\ NumEncodings \in Nat /\ Loaded \in Nat /\ Outputs \in Nat \ {0}
    /\ MaxThreads \in Nat /\ StartThreads \in 0 .. MaxThreads /\ RampUp \in 0 .. MaxThreads
    /\ RampStep \in Nat /\ MaxCommands \in Nat /\ MaxRestarts \in Nat

Encodings == 0 .. NumEncodings - 1
Workers   == 1 .. MaxThreads
None == NumEncodings

VARIABLES remaining_entries, pending, second_chances,   \* Synthesis and its runtime data
          working,    \* the request of each worker, None between requests
          threads,    \* current_num_threads
          main,       \* "loop", "resize", "stop", "join", "save" or "done"
          running,    \* the flag the saver thread looks at
          saver,      \* "look", "sleep", "write" (holding the lock) or "exit"
          state_json, \* remaining_entries of the saved state
          artifacts,  \* the artifacts of each encoding on file, in order
          commands, restarts   \* how many there were

queue == <<remaining_entries, pending, second_chances>>
disk  == <<state_json, artifacts>>
vars == <<queue, disk, working, threads, main, running, saver, commands, restarts>>

-----------------------------------------------------------------------------
(* The places in the queue of the entries that are not pending. *)
Ready == {k \in DOMAIN remaining_entries : remaining_entries[k] \notin pending}

(* Fault: the last encoding is taken for one that was not loaded. *)
NextEntryShort ==
    IF Ready # {} /\ remaining_entries[Min(Ready)] + 1 < Loaded THEN remaining_entries[Min(Ready)] ELSE None

(* Synthesis::next: the first entry that is not pending, if its encoding   *)
(* was loaded.                                                             *)
NextEntry ==
    IF Ready # {} /\ remaining_entries[Min(Ready)] < Loaded THEN remaining_entries[Min(Ready)] ELSE None

(* Fault: the first failure of an encoding removes its entry. *)
GivesUpEager(e, result) == TRUE

(* Whether complete removes the entry: it is done, or it had its second    *)
(* chance.                                                                 *)
GivesUp(e, result) == result = Outputs \/ e \in second_chances

(* The place of an entry in the queue; complete unwraps it. *)
Position(e) == Min({k \in DOMAIN remaining_entries : remaining_entries[k] = e})

(* Vec::remove. *)
Without(s, k) == SubSeq(s, 1, k - 1) \o SubSeq(s, k + 1, Len(s))

(* The work of from_work: next, then run. *)
Take(w) ==
    /\ main # "done" /\ w <= threads /\ saver # "write" /\ working[w] = None
    /\ NextEntry # None
    /\ working' = [working EXCEPT ![w] = NextEntry]
    /\ pending' = pending \cup {NextEntry}
    /\ UNCHANGED <<remaining_entries, second_chances, disk, threads, main, running, saver, commands, restarts>>

(* Synthesis::complete, with the artifact saved before the lock is given back. *)
Complete(w) ==
    /\ working[w] # None /\ saver # "write"
    /\ \E result \in 0 .. Outputs :
          LET e == working[w]
          IN  /\ pending' = pending \ {e}
              /\ remaining_entries' = IF GivesUp(e, result) THEN Without(remaining_entries, Position(e))
                                      ELSE remaining_entries
              /\ second_chances' = IF result = Outputs THEN second_chances ELSE second_chances \cup {e}
              /\ artifacts' = [artifacts EXCEPT ![e] = Append(@, result)]
    /\ working' = [working EXCEPT ![w] = None]
    /\ UNCHANGED <<state_json, threads, main, running, saver, commands, restarts>>

-----------------------------------------------------------------------------
(* The command loop.  resize returns when the workers above n are gone. *)
Resize(n) == threads' = n /\ main' = "resize"

Threads(n) ==
    /\ main = "loop" /\ commands < MaxCommands
    /\ Resize(n) /\ commands' = commands + 1
    /\ UNCHANGED <<queue, disk, working, running, saver, restarts>>

RampTarget == Min({threads + RampStep, RampUp})

RampUpStep ==
    /\ main = "loop" /\ commands < MaxCommands /\ RampUp # 0
    /\ Resize(RampTarget) /\ commands' = commands + 1
    /\ UNCHANGED <<queue, disk, working, running, saver, restarts>>

Stopped == \A w \in Workers : w > threads => working[w] = None

ResizeReturns ==
    /\ main = "resize" /\ Stopped
    /\ main' = "loop"
    /\ UNCHANGED <<queue, disk, working, threads, running, saver, commands, restarts>>

(* stop, or the end of the input. *)
Stop ==
    /\ main = "loop"
    /\ main' = "stop" /\ threads' = 0
    /\ UNCHANGED <<queue, disk, working, running, saver, commands, restarts>>

(* Fault: the pool is not waited for. *)
StopReturnsEarly ==
    /\ main = "stop"
    /\ main' = "join" /\ running' = FALSE
    /\ UNCHANGED <<queue, disk, working, threads, saver, commands, restarts>>

StopReturns ==
    /\ main = "stop" /\ Stopped
    /\ main' = "join" /\ running' = FALSE
    /\ UNCHANGED <<queue, disk, working, threads, saver, commands, restarts>>

(* The end of the scope joins the saver thread; then comes the last save. *)
ScopeEnds ==
    /\ main = "join" /\ saver = "exit"
    /\ main' = "save"
    /\ UNCHANGED <<queue, disk, working, threads, running, saver, commands, restarts>>

LastSave ==
    /\ main = "save"
    /\ state_json' = remaining_entries /\ main' = "done"
    /\ UNCHANGED <<queue, artifacts, working, threads, running, saver, commands, restarts>>

-----------------------------------------------------------------------------
(* Fault: the saver thread does not look at running. *)
SaverLooksAway ==
    /\ saver = "look"
    /\ saver' = "sleep"
    /\ UNCHANGED <<queue, disk, working, threads, main, running, commands, restarts>>

(* The saver thread: it looks at running, sleeps and, when a save is due,  *)
(* writes the temporary file under the lock and renames it.                *)
SaverLooks ==
    /\ saver = "look"
    /\ saver' = IF running THEN "sleep" ELSE "exit"
    /\ UNCHANGED <<queue, disk, working, threads, main, running, commands, restarts>>

SaverWakes ==
    /\ saver = "sleep"
    /\ saver' \in {"write", "look"}
    /\ UNCHANGED <<queue, disk, working, threads, main, running, commands, restarts>>

SaveEnds ==
    /\ saver = "write"
    /\ state_json' = remaining_entries /\ saver' = "look"
    /\ UNCHANGED <<queue, artifacts, working, threads, main, running, commands, restarts>>

(* run loads the saved state. *)
Loads(state) ==
    /\ remaining_entries' = state /\ pending' = {} /\ second_chances' = {}
    /\ working' = [w \in Workers |-> None] /\ threads' = StartThreads /\ main' = "resize"
    /\ running' = TRUE /\ saver' = "look"

(* The process ends, killed or done, and is started again. *)
Restart ==
    /\ restarts < MaxRestarts /\ restarts' = restarts + 1
    /\ Loads(state_json)
    /\ UNCHANGED <<disk, commands>>

Init ==
    /\ remaining_entries \in Bijection(1 .. NumEncodings, Encodings)
    /\ state_json = remaining_entries
    /\ artifacts = [e \in Encodings |-> << >>]
    /\ pending = {} /\ second_chances = {} /\ working = [w \in Workers |-> None]
    /\ threads = StartThreads /\ main = "resize" /\ running = TRUE /\ saver = "look"
    /\ commands = 0 /\ restarts = 0

Main   == ResizeReturns \/ StopReturns \/ ScopeEnds \/ LastSave
Saver  == SaverLooks \/ SaverWakes \/ SaveEnds

Next == \/ \E w \in Workers : Take(w)
        \/ \E w \in Workers : Complete(w)
        \/ \E n \in 0 .. MaxThreads : Threads(n)
        \/ RampUpStep \/ ResizeReturns \/ Stop \/ StopReturns \/ ScopeEnds \/ LastSave
        \/ SaverLooks \/ SaverWakes \/ SaveEnds \/ Restart

Spec == Init /\ [][Next]_vars

(* Every worker's analysis ends (it has a time limit of 900 seconds), and  *)
(* the saver and the main thread get on.                                   *)
FairSpec == /\ Spec /\ WF_vars(Main) /\ WF_vars(Saver)
            /\ \A w \in Workers : SF_vars(Take(w)) /\ SF_vars(Complete(w))

-----------------------------------------------------------------------------
(* artifacts_to_semantics: the computations that extract keeps of an       *)
(* encoding: those of the artifact that has the most.                      *)
Extracted(as) == Max(Range(as))

(* An encoding that has left the saved queue has been tried twice, or      *)
(* extract finds all its computations, whenever the process is killed.     *)
RemovedIsRecorded ==
    \A e \in Encodings \ Range(state_json) :
        Len(artifacts[e]) >= 2 \/ (Len(artifacts[e]) = 1 /\ Extracted(artifacts[e]) = Outputs)

(* complete finds the entry of its request in the queue and among the      *)
(* pending ones, where it unwraps their positions, and no two workers have *)
(* the same encoding.                                                      *)
TakenIsQueued ==
    \A w \in Workers : working[w] # None =>
        /\ working[w] \in Range(remaining_entries) \cap pending
        /\ \A v \in Workers : v # w => working[v] # working[w]

(* A run that ends has saved the queue as it is, with nothing in progress. *)
StopSavesAll == main = "done" => state_json = remaining_entries /\ pending = {}

(* stop ends the run although workers are in the middle of an analysis and *)
(* the saver is writing.                                                   *)
StopEnds == main = "stop" ~> main = "done" \/ main = "resize"

(* Every encoding is worked at until it leaves the queue, unless the run   *)
(* is stopped or has no threads.                                           *)
QueueEmpties == <>(remaining_entries = << >> \/ threads = 0)
=============================================================================
