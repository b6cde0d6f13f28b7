----------------------------- MODULE OraclePool -----------------------------
(***************************************************************************)
(* OraclePool of liblisa-libcli (threadpool/oracle.rs): the oracles of the *)
(* virtual machines of one core group that no thread holds.  A pool maps   *)
(* the id of every running machine to its OracleGroup: num_oracles and the *)
(* stack of idle oracles.  Removing a group drops its oracles and with     *)
(* them the machine.                                                       *)
(***************************************************************************)
EXTENDS Naturals, Sequences, Functions, FiniteSets

CONSTANT NumOracles      \* oracles that source.start() returns for a machine

ASSUME OraclesAssumption == NumOracles \in Nat \ {0}

(* OraclePool::new: no machine runs. *)
EmptyPool == << >>

(* The oracles of a machine, as source.start() returns them. *)
OraclesOf(key) == [i \in 1 .. NumOracles |-> <<key, i>>]

(* What get returns when it takes the top oracle of machine key: the pool  *)
(* without that oracle, the oracle, and the value it leaves in NEXT_ID.    *)
Pop(idle, key, next_id) ==
    LET stack == idle[key].oracles
    IN  [idle    |-> [idle EXCEPT ![key].oracles = SubSeq(stack, 1, Len(stack) - 1)],
         oracle  |-> stack[Len(stack)],
         next_id |-> next_id]

(* The machines get() may take from: those with the fewest idle oracles    *)
(* among the machines that have one.  The order of a HashMap is arbitrary, *)
(* so is the order of equals after the (stable) sort.                      *)
Choices(idle) ==
    LET left(key) == Len(idle[key].oracles)
        some      == {key \in DOMAIN idle : left(key) > 0}
    IN  {key \in some : \A other \in some : left(key) <= left(other)}

(* The pool with a machine that was just started. *)
WithMachine(idle, key) ==
    [k \in DOMAIN idle \cup {key} |->
        IF k = key THEN [num_oracles |-> NumOracles, oracles |-> OraclesOf(key)] ELSE idle[k]]

(* get: the possible results.  If no machine has an idle oracle, one is    *)
(* started under the next id.                                              *)
Get(idle, next_id) ==
    IF Choices(idle) # {}
    THEN {Pop(idle, key, next_id) : key \in Choices(idle)}
    ELSE {Pop(WithMachine(idle, next_id), next_id, next_id + 1)}

(* release panics for an oracle that is not of this pool. *)
Belongs(idle, oracle) == oracle[1] \in DOMAIN idle

(* Fault: a machine is killed as soon as an oracle is returned to it. *)
ReleaseEager(idle, oracle) == Restrict(idle, DOMAIN idle \ {oracle[1]})

(* release: the oracle is pushed; a machine all of whose oracles are idle  *)
(* is killed.                                                              *)
Release(idle, oracle) ==
    LET key    == oracle[1]
        pushed == [idle EXCEPT ![key].oracles = Append(@, oracle)]
    IN  IF Len(pushed[key].oracles) >= pushed[key].num_oracles
        THEN Restrict(pushed, DOMAIN pushed \ {key})
        ELSE pushed
=============================================================================
