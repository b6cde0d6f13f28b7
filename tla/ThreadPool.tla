----------------------------- MODULE ThreadPool -----------------------------
(***************************************************************************)
(* ThreadPool of liblisa-libcli (threadpool/mod.rs): worker threads, each  *)
(* with an oracle from the OraclePool of its core group.  The command loop *)
(* resizes the pool: a shrink tells the last threads to stop, joins them   *)
(* and releases their oracles; a growth takes oracles and spawns threads.  *)
(* Dropping the pool stops and joins all threads.  A call of the work      *)
(* closure may panic; join then returns Err.                               *)
(***************************************************************************)
EXTENDS OraclePool

CONSTANTS NumGroups,     \* core groups found by ThreadPool::new
          MaxThreads,    \* bound: threads asked for
          MaxResizes,    \* bound: calls of resize
          MaxPanics      \* bound: panics of the work closure

ASSUME PoolAssumption == /\ NumGroups \in Nat \ {0}
                         /\ MaxThreads \in Nat /\ MaxResizes \in Nat /\ MaxPanics \in Nat

VARIABLES threads,       \* Seq of [group, active, pc, oracle]: self.threads and its workers
          leaving,       \* the drained threads, in the order they are joined
          detached,      \* drained threads that a panic left unjoined
          pools,         \* the oracle pool of every core group
          next_id,       \* NEXT_ID
          target,        \* num_threads of the running resize
          pc,            \* where the thread that owns the pool is
          resizes, panics

vars == <<threads, leaving, detached, pools, next_id, target, pc, resizes, panics>>

Group == 0 .. NumGroups - 1
Finished(t) == t.pc \in {"stopped", "panicked"}

-----------------------------------------------------------------------------
(* How many threads of self.threads run in group g. *)
ThreadsOf(g) == Cardinality({i \in DOMAIN threads : threads[i].group = g})

(* The group of the next thread: the first with the fewest threads. *)
NextGroup == CHOOSE g \in Group : /\ \A h \in Group : ThreadsOf(g) <= ThreadsOf(h)
                                  /\ \A h \in Group : ThreadsOf(h) <= ThreadsOf(g) => g <= h

(* Fault: the threads are joined without being told to stop. *)
DeactivateNone(s) == s

(* thread_active.store(false). *)
Deactivate(s) == [i \in DOMAIN s |-> [s[i] EXCEPT !.active = FALSE]]

(* Fault: a thread is told to stop only when it is joined. *)
DrainFirstOnly(n) == [i \in 1 .. Len(threads) - n |->
                        [threads[n + i] EXCEPT !.active = (i # 1)]]

(* The threads after the first n, told to stop. *)
Drain(n) == Deactivate(SubSeq(threads, n + 1, Len(threads)))

(* The start of resize(n). *)
Resize(n) ==
    /\ pc = "idle" /\ resizes < MaxResizes
    /\ resizes' = resizes + 1
    /\ target' = n
    /\ IF n < Len(threads)
       THEN /\ leaving' = Drain(n) /\ threads' = SubSeq(threads, 1, n)
            /\ pc' = "join"
       ELSE /\ pc' = IF n = Len(threads) THEN "idle" ELSE "grow"
            /\ UNCHANGED <<threads, leaving>>
    /\ UNCHANGED <<detached, pools, next_id, panics>>

(* One round of resize's growing loop. *)
Spawn ==
    /\ pc = "grow"
    /\ \E taken \in Get(pools[NextGroup], next_id) :
          /\ pools' = [pools EXCEPT ![NextGroup] = taken.idle]
          /\ next_id' = taken.next_id
          /\ threads' = Append(threads, [group |-> NextGroup, active |-> TRUE, pc |-> "check",
                                         oracle |-> taken.oracle])
    /\ pc' = IF Len(threads) + 1 = target THEN "idle" ELSE "grow"
    /\ UNCHANGED <<leaving, detached, target, resizes, panics>>

(* Fault: the oracle is released to the first core group. *)
ReleaseOfWrongGroup(t) == [pools EXCEPT ![0] = IF Belongs(@, t.oracle) THEN Release(@, t.oracle) ELSE @]

(* The pools after the oracle of thread t is released. *)
ReleaseOf(t) == [pools EXCEPT ![t.group] = Release(@, t.oracle)]

(* resize joins the first of the drained threads.  The panic of a thread   *)
(* is resumed: resize unwinds, the other drained threads stay unjoined.    *)
Join ==
    /\ pc = "join"
    /\ Finished(Head(leaving))
    /\ IF Head(leaving).pc = "panicked"
       THEN /\ pc' = "unwind"
            /\ detached' = detached \o Tail(leaving)
            /\ leaving' = << >> /\ UNCHANGED pools
       ELSE /\ pools' = ReleaseOf(Head(leaving))
            /\ leaving' = Tail(leaving)
            /\ pc' = IF Len(leaving) = 1 THEN "idle" ELSE "join"
            /\ UNCHANGED detached
    /\ UNCHANGED <<threads, next_id, target, resizes, panics>>

(* Drop for ThreadPool, at the end of the command loop or in unwinding:    *)
(* every thread is told to stop before the first is joined.                *)
Drop == /\ pc \in {"idle", "unwind"}
        /\ pc' = IF threads = << >> THEN "dropped"
                 ELSE IF pc = "idle" THEN "drop" ELSE "drop_unwind"
        /\ leaving' = Deactivate(threads) /\ threads' = << >>
        /\ UNCHANGED <<detached, pools, next_id, target, resizes, panics>>

(* Drop joins the next thread.  Its unwrap panics for a panicked thread,   *)
(* which leaves the others unjoined, or aborts the process if the drop     *)
(* runs in unwinding.                                                      *)
JoinDropped ==
    /\ pc \in {"drop", "drop_unwind"}
    /\ Finished(Head(leaving))
    /\ IF Head(leaving).pc = "panicked"
       THEN /\ pc' = IF pc = "drop" THEN "dropped" ELSE "aborted"
            /\ detached' = IF pc = "drop" THEN detached \o Tail(leaving) ELSE << >>
            /\ leaving' = << >> /\ UNCHANGED pools
       ELSE /\ pools' = ReleaseOf(Head(leaving))
            /\ leaving' = Tail(leaving)
            /\ pc' = IF Len(leaving) = 1 THEN "dropped" ELSE pc
            /\ UNCHANGED detached
    /\ UNCHANGED <<threads, next_id, target, resizes, panics>>

-----------------------------------------------------------------------------
(* The steps of a worker: the test of thread_active, and a call of work,   *)
(* which returns or panics.                                                *)
Check(t) == [t EXCEPT !.pc = IF t.active THEN "work" ELSE "stopped"]
Work(t)  == [t EXCEPT !.pc = "check"]

WorkerStep(s) ==
    \E i \in DOMAIN s :
        \/ s[i].pc = "check" /\ s' = [s EXCEPT ![i] = Check(s[i])]
        \/ s[i].pc = "work" /\ s' = [s EXCEPT ![i] = Work(s[i])]

WorkPanics(s) ==
    /\ panics < MaxPanics /\ panics' = panics + 1
    /\ \E i \in DOMAIN s : s[i].pc = "work" /\ s' = [s EXCEPT ![i].pc = "panicked"]

Others == <<pools, next_id, target, pc, resizes>>

RunThreads  == WorkerStep(threads) /\ UNCHANGED <<leaving, detached, panics, Others>>
RunLeaving  == WorkerStep(leaving) /\ UNCHANGED <<threads, detached, panics, Others>>
RunDetached == WorkerStep(detached) /\ UNCHANGED <<threads, leaving, panics, Others>>
Panic == \/ WorkPanics(threads) /\ UNCHANGED <<leaving, detached, Others>>
         \/ WorkPanics(leaving) /\ UNCHANGED <<threads, detached, Others>>
         \/ WorkPanics(detached) /\ UNCHANGED <<threads, leaving, Others>>

-----------------------------------------------------------------------------
Init == /\ threads = << >> /\ leaving = << >> /\ detached = << >>
        /\ pools = [g \in Group |-> EmptyPool]
        /\ next_id = 0 /\ target = 0 /\ pc = "idle" /\ resizes = 0 /\ panics = 0

Next == \/ \E n \in 0 .. MaxThreads : Resize(n)
        \/ Spawn \/ Join \/ Drop \/ JoinDropped
        \/ RunThreads \/ RunLeaving \/ RunDetached \/ Panic

(* The owner of the pool and every thread make progress; a call of work    *)
(* returns or panics.  When the command loop resizes or ends is up to it.  *)
Fairness == /\ WF_vars(Spawn \/ Join \/ JoinDropped \/ (pc = "unwind" /\ Drop))
            /\ WF_vars(RunLeaving) /\ WF_vars(RunDetached)

Spec == Init /\ [][Next]_vars /\ Fairness

-----------------------------------------------------------------------------
(* All threads whose oracle is not released yet. *)
Holders == threads \o leaving \o detached

Thread == [group : Group, active : BOOLEAN, pc : {"check", "work", "stopped", "panicked"},
           oracle : Nat \X (1 .. NumOracles)]

TypeOK == /\ \A i \in DOMAIN Holders : Holders[i] \in Thread
          /\ Len(threads) <= MaxThreads /\ target \in 0 .. MaxThreads
          /\ \A g \in Group, key \in UNION {DOMAIN pools[h] : h \in Group} :
                key \in DOMAIN pools[g] => key < next_id /\ pools[g][key].num_oracles = NumOracles
          /\ pc \in {"idle", "grow", "join", "drop", "unwind", "drop_unwind", "dropped", "aborted"}
          /\ (leaving = << >>) = (pc \notin {"join", "drop", "drop_unwind"})

(* A thread's machine is in the pool of the thread's core group until its  *)
(* oracle is released: release finds it, and no machine is killed under a  *)
(* thread that observes with it.                                           *)
MachineOutlivesThread ==
    \A i \in DOMAIN Holders : Belongs(pools[Holders[i].group], Holders[i].oracle)

(* An oracle has one owner: no two threads hold it, no thread holds an     *)
(* idle one, and no oracle of a running machine is lost.                   *)
OneOwner ==
    /\ \A i, j \in DOMAIN Holders : Holders[i].oracle = Holders[j].oracle => i = j
    /\ panics = 0 => \A g \in Group : \A key \in DOMAIN pools[g] : \A k \in 1 .. NumOracles :
          LET idle == {j \in DOMAIN pools[g][key].oracles : pools[g][key].oracles[j] = <<key, k>>}
              held == {i \in DOMAIN Holders : Holders[i].oracle = <<key, k>>}
          IN  Cardinality(idle) + Cardinality(held) = 1

(* A resize that shrinks the pool returns (or unwinds): the threads it     *)
(* waits for have been told to stop.                                       *)
ResizeReturns == (pc \in {"join", "grow"}) ~> (pc \in {"idle", "unwind"})

(* A panic in one worker stops all of them: the pool is dropped and no     *)
(* thread keeps the scope that spawned it from ending.                     *)
PanicStopsAll == (pc = "unwind") ~> (pc \in {"dropped", "aborted"}
                                     /\ \A i \in DOMAIN Holders : Finished(Holders[i]))
=============================================================================
