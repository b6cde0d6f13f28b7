---------------------------- MODULE Enumeration ----------------------------
(***************************************************************************)
(* The enumeration work queue of liblisa-libcli (threadpool/enumeration.rs *)
(* with AnalysisResult::run of liblisa-enc).  Work items are ranges of     *)
(* instruction space.  A thread takes the next instruction of an item,     *)
(* analyses it without the lock and completes the item.  The filters of a  *)
(* found encoding move every counter; an item that a filter of another     *)
(* item moves is stalled for the next results of that item, which probably *)
(* cover it as well.                                                       *)
(*                                                                         *)
(* Instructions are one or two bytes, numbered in their lexicographic      *)
(* order: <<0>>, <<0,0>>, <<0,1>>, ..., <<1>>, ...  The number NoEnd       *)
(* stands for None and for everything behind the last instruction.  What   *)
(* an analysis finds is fixed by truth; which instructions an encoding     *)
(* covers and which of them is its best one are arbitrary.  Times are left *)
(* out: an arbitrary runnable item is next (in the code the one with the   *)
(* least virtual runtime), a result may or may not have taken five minutes.*)
(***************************************************************************)
EXTENDS Integers, Sequences, FiniteSets

CONSTANTS Spaces,        \* instruction spaces and the runs that enumerate them
          MaxItems,      \* bound: items after splits, in any space
          StallResults,  \* results a new stall lasts, 3
          ErrorLimit,    \* errors after which filters are ignored, 500 000
          GuessAfter,    \* results after which a pattern may be found, 3
          Guesses        \* the instructions that a pattern suggests

ASSUME EnumAssumption ==
    /\ MaxItems \in Nat /\ StallResults \in Nat /\ ErrorLimit \in Nat /\ GuessAfter \in Nat
    /\ \A s \in Spaces : /\ s.bytes \in Nat \ {0} /\ s.base \in Nat /\ s.threads \in Nat \ {0} /\ s.items <= MaxItems
                         /\ s.kinds \subseteq {"ok", "invalid", "error", "memory"}
                         /\ \A st \in s.starts : /\ st \in Seq(0 .. s.bytes * (s.base + 1) - 1)
                                                /\ st # << >> /\ st[1] = 0
                                                /\ \A i \in 1 .. Len(st) - 1 : st[i] <= st[i + 1]
                         /\ Guesses \subseteq 0 .. s.bytes * (s.base + 1) - 1

VARIABLES space,      \* the instruction space: a member of Spaces
          truth,      \* what each instruction of it is
          work,       \* Seq of EnumWorkItem
          stalled,    \* status[i].stalled of every item
          unstall,    \* status[i].unstall: the items that i stalls, with their num
          request,    \* the request of item i that is out; its pending_or_done
          filters,    \* the instructions all filters cover
          perfect_instrs_seen,
          artifacts   \* the instructions that a saved artifact is about

status == <<stalled, unstall, request>>
vars == <<space, truth, work, status, filters, perfect_instrs_seen, artifacts>>

Bytes   == space.bytes     \* values of a first byte
Base    == space.base      \* values of a second byte, 0 if there is none
Kinds   == space.kinds     \* what instructions can be
Bests   == space.bests     \* bound: instructions that can be the best one of an encoding
Threads == space.threads   \* bound: requests that are out at a time

NoEnd  == Bytes * (Base + 1)
Instr  == 0 .. NoEnd - 1
Long(x)   == x % (Base + 1) # 0
Prefix(x) == x - (x % (Base + 1))
Group(x)  == Prefix(x) .. Prefix(x) + Base
None == NoEnd + 1                        \* no instruction
NoRequest == [instr |-> None]

(* The instructions that have their full length, those of them that run,   *)
(* and those an encoding is found for.                                     *)
Exact == {x \in Instr : truth[x] \notin {"short", "long"}}
Valid == {x \in Exact : truth[x] # "invalid"}
Ok    == {x \in Exact : truth[x] = "ok"}

-----------------------------------------------------------------------------
(* The instructions that no filter of F matches and that no filter of F    *)
(* shows to be too short.                                                  *)
Free(F) == {x \in Instr \ F : Long(x) \/ Group(x) \cap F = {}}

First(S) == CHOOSE x \in S : \A y \in S : x <= y

(* InstructionCounter: the first free instruction from x to end. *)
FirstFree(free, x, end) ==
    LET some == {y \in free : x <= y /\ y <= end} IN IF some = {} THEN None ELSE First(some)

(* The item after its counter moved, done when there is no instruction left. *)
Moved(w, y) == IF y = None THEN [w EXCEPT !.done = TRUE] ELSE [w EXCEPT !.counter = y, !.done = FALSE]

(* extend, reduce (which does not extend again at once) and tunnel_next. *)
Extend(w, F) == Moved(w, FirstFree(Free(F), IF Long(w.counter) THEN w.counter ELSE w.counter + 1, w.to))
Reduce(w, F) == LET p == Prefix(w.counter)
                IN  Moved(w, FirstFree(Free(F) \cup ({p} \ F), p, w.to))
Tunnel(x) == IF Long(x) THEN x + 1 ELSE x + Base + 1
TunnelNext(w, F) == Moved(w, FirstFree(Free(F), Tunnel(w.counter), w.to))

(* apply_filters of a work item; free is what its filters leave. *)
Applied(w, free) == IF w.done THEN w ELSE Moved(w, FirstFree(free, w.counter, w.to))

-----------------------------------------------------------------------------
(* AnalysisResult::run.  The instructions of an encoding are valid and of  *)
(* one length.  The search for the next valid instruction finds the first  *)
(* one behind the invalid one, wherever the item ends.                     *)
MinEnd(a, b) == IF a < b THEN a ELSE b

SkipInvalid(r) ==
    LET next == {x \in Valid : x > r.instr}
        end  == MinEnd(r.next_filtered, r.end)
    IN  [kind |-> "skip", end |-> end, done |-> next = {},
         counter |-> IF next # {} THEN First(next) ELSE IF end # NoEnd THEN end ELSE r.instr]

SkipMemoryErrors(r) ==
    LET next == {x \in Exact : x > r.instr /\ x <= r.end /\ truth[x] # "memory"}
    IN  [kind |-> "skip", end |-> r.end, done |-> FALSE,
         counter |-> IF next = {} THEN MinEnd(r.end + 1, NoEnd) ELSE First(next)]

(* What a filter for x covers: every instruction that x is a prefix of. *)
Covered(x) == IF Long(x) THEN {x} ELSE Group(x)

(* Bound: an encoding covers at most space.covers other instructions. *)
Covers(S) == {T \in SUBSET S : Cardinality(T) <= space.covers}

Results(r) ==
    CASE truth[r.instr] = "ok" ->
            UNION {{[kind |-> "ok", best |-> b, filters |-> UNION {Covered(x) : x \in S}] : b \in (S \cap Bests) \cup {None}} :
                     S \in {T \cup {r.instr} : T \in Covers({x \in Ok : Long(x) = Long(r.instr)} \ {r.instr})}}
      [] truth[r.instr] = "invalid" -> {SkipInvalid(r)}
      [] truth[r.instr] = "memory"  -> {SkipMemoryErrors(r)}
      [] OTHER -> {[kind |-> truth[r.instr]]}

NewFilters(res) == IF res.kind = "ok" THEN res.filters ELSE {}

-----------------------------------------------------------------------------
(* compute_stalled: some item holds j stalled. *)
Listed(un, j) == \E i \in DOMAIN un : j \in DOMAIN un[i]

CanRun(w, s, r) == ~w.done /\ r = NoRequest /\ (~s \/ w.next # None)

(* Fault: items that are done keep their stalls. *)
RefreshedUnstallKept == unstall

(* The periodic part of next: items that are done stall nobody, and every  *)
(* stalled flag is computed anew.                                          *)
RefreshedUnstall == [i \in DOMAIN work |-> IF work[i].done THEN << >> ELSE unstall[i]]
RefreshedStalled == [i \in DOMAIN work |-> Listed(RefreshedUnstall, i)]

Refresh == \/ UNCHANGED <<stalled, unstall>>
           \/ unstall' = RefreshedUnstall /\ stalled' = RefreshedStalled

(* next_instruction: a guess of bust_single_bit_set_pattern, the best      *)
(* instruction of the last encoding, or the counter.  A guess needs a      *)
(* pattern in the last instructions.                                       *)
Requests(w) ==
    {[instr |-> g, end |-> g] : g \in {x \in Guesses : w.last >= GuessAfter}}
      \cup {IF w.next # None THEN [instr |-> w.next, end |-> w.next]
            ELSE [instr |-> w.counter, end |-> w.to]}

NextFiltered(x) == LET after == {y \in filters : y >= x} IN IF after = {} THEN NoEnd ELSE First(after)

(* next: a thread takes the instruction of an item that can run. *)
TakeNext(i) ==
    /\ Cardinality({j \in DOMAIN work : request[j] # NoRequest}) < Threads
    /\ Refresh
    /\ CanRun(work[i], stalled'[i], request[i])
    /\ \E r \in Requests(work[i]) :
          request' = [request EXCEPT ![i] = [instr |-> r.instr, end |-> r.end,
                                             next_filtered |-> NextFiltered(r.instr)]]
    /\ UNCHANGED <<space, truth, work, filters, perfect_instrs_seen, artifacts>>

(* next finds nothing to do; the thread sleeps and asks again. *)
NothingToDo ==
    /\ Refresh
    /\ \A i \in DOMAIN work : ~CanRun(work[i], stalled'[i], request[i])
    /\ UNCHANGED <<space, truth, work, request, filters, perfect_instrs_seen, artifacts>>

-----------------------------------------------------------------------------
(* EnumWorkItem::complete. *)
ItemComplete(w0, r, F, res) ==
    LET was_next == w0.next = r.instr
        w == [w0 EXCEPT !.last = MinEnd(@ + 1, GuessAfter), !.next = IF was_next THEN None ELSE @]
        jump(x) == IF res.end = w.to THEN [w EXCEPT !.counter = x, !.errors = 0] ELSE [w EXCEPT !.errors = 0]
        wants == res.kind = "ok" /\ ~was_next /\ res.best \notin perfect_instrs_seen \cup {None}
    IN  CASE res.kind = "ok" ->
                [Moved(w, FirstFree(Free(F), w.counter, w.to)) EXCEPT !.next = IF wants THEN res.best ELSE @]
          [] res.kind = "short" -> IF was_next THEN w ELSE Extend(w, F)
          [] res.kind = "long"  -> IF was_next THEN w ELSE Reduce(w, F)
          [] res.kind = "skip"  ->
                LET to == jump(res.counter)
                IN  [Moved(to, FirstFree(Free(F), to.counter, w.to)) EXCEPT !.done = @ \/ res.done]
          [] res.kind = "error" ->
                LET e == [w EXCEPT !.errors = MinEnd(@ + 1, ErrorLimit)]
                IN  IF e.next # None THEN [e EXCEPT !.next = None]
                    ELSE IF e.errors >= ErrorLimit
                         THEN Moved(e, FirstFree(Instr, Tunnel(e.counter), e.to))
                         ELSE TunnelNext(e, F)

(* What is left of the stalls of item i after one more result, where done  *)
(* says that the item has no instruction left.                             *)
Remaining(un, done) ==
    LET kept == {j \in DOMAIN un : un[j] > 0 /\ ~done} IN [j \in kept |-> un[j] - 1]

(* The stalls of item i with those that a result adds. *)
Stalls(un, new) ==
    [j \in DOMAIN un \cup new |-> IF j \notin new THEN un[j]
                                  ELSE IF j \in DOMAIN un THEN StallResults + 1 ELSE StallResults]

(* Items that are stalled or have ended stall nobody any more. *)
Drained(un, stall, ended) == [j \in DOMAIN un |-> IF j \in stall \cup ended THEN << >> ELSE un[j]]

(* Fault: the results of a stalled item stall others. *)
HeldNever(un, i, count) == FALSE

(* The item that completes is itself stalled: its filters move nobody yet. *)
Held(un, i, count) == IF count THEN Listed(un, i) ELSE stalled[i]

(* What complete leaves behind, for a result res that did or did not take  *)
(* long.  The counter of an item that the new filters end may or may not   *)
(* have changed before it ran out: moved.                                  *)
Completed(i, res, long, moved) ==
    LET r     == request[i]
        F     == filters \cup NewFilters(res)
        free  == Free(F)
        fresh == Free(NewFilters(res))
        wi    == Applied(work[i], free)
        count == NewFilters(res) # {} \/ wi.done \/ long
        un    == IF count THEN [unstall EXCEPT ![i] = Remaining(@, wi.done)] ELSE unstall
        held  == Held(un, i, count)
        new   == [j \in DOMAIN work |-> IF held THEN work[j] ELSE Applied(work[j], fresh)]
        hits  == {j \in DOMAIN work \ {i} : /\ ~held /\ ~work[j].done
                                            /\ IF new[j].done THEN j \in moved ELSE new[j].counter # work[j].counter}
        ended == {j \in hits : Applied(new[j], free).done}
        stall == {j \in hits \ ended : i \notin DOMAIN un[j] /\ ~wi.done}
        left  == Drained(un, stall, ended)
        freed == {j \in DOMAIN unstall[i] : j \notin DOMAIN un[i]}
        again == {i} \cup UNION {DOMAIN un[j] : j \in stall \cup ended}
    IN  [work |-> [j \in DOMAIN work |-> IF j = i THEN ItemComplete(wi, r, F, res)
                                        ELSE IF j \in hits THEN Applied(new[j], free) ELSE new[j]],
         unstall |-> [left EXCEPT ![i] = Stalls(@, stall)],
         stalled |-> [j \in DOMAIN work |-> IF j \in again THEN Listed(left, j)
                                           ELSE j \in stall \/ IF j \in freed THEN Listed(un, j) ELSE stalled[j]],
         filters |-> F,
         artifact |-> CASE res.kind = "ok"    -> res.filters
                        [] res.kind = "error" -> {r.instr}
                        [] res.kind = "skip"  -> r.instr .. res.counter - 1
                        [] OTHER -> {}]

(* The items that the new filters alone leave without an instruction. *)
EndedBy(i, res) == {j \in DOMAIN work \ {i} : ~work[j].done /\ Applied(work[j], Free(NewFilters(res))).done}

(* reduce underflows, and panics, for a counter of a single byte: filters  *)
(* of another item have moved the counter while the result, that the       *)
(* instruction is too long, was on its way.                                *)
Underflows(i, res) ==
    LET wi == Applied(work[i], Free(filters))
    IN  res.kind = "long" /\ wi.next # request[i].instr /\ ~Long(wi.counter)

(* complete, under the lock, with the artifact saved. *)
Complete(i) ==
    /\ request[i] # NoRequest
    /\ \E res \in {r \in Results(request[i]) : ~Underflows(i, r)} :
       \E long \in IF NewFilters(res) = {} THEN BOOLEAN ELSE {FALSE}, moved \in SUBSET EndedBy(i, res) :
       \E c \in {Completed(i, res, long, moved)} :
          /\ work' = c.work /\ unstall' = c.unstall /\ stalled' = c.stalled /\ filters' = c.filters
          /\ perfect_instrs_seen' = perfect_instrs_seen \cup ({c.work[i].next} \ {None})
          /\ artifacts' = artifacts \cup c.artifact
    /\ request' = [request EXCEPT ![i] = NoRequest]
    /\ UNCHANGED <<space, truth>>

-----------------------------------------------------------------------------
NewItem(from, to) == [from |-> from, to |-> to, counter |-> from, next |-> None,
                      done |-> FALSE, errors |-> 0, last |-> 0]

(* split_on_instr, for a split that is not refused. *)
Split(x) ==
    /\ Len(work) < space.items
    /\ \E i \in DOMAIN work :
          /\ x >= work[i].from /\ x < work[i].to
          /\ ~work[i].done /\ work[i].counter < x
          /\ work' = Append([work EXCEPT ![i].to = x], NewItem(x, work[i].to))
    /\ stalled' = Append(stalled, FALSE) /\ unstall' = Append(unstall, << >>)
    /\ request' = Append(request, NoRequest)
    /\ UNCHANGED <<space, truth, filters, perfect_instrs_seen, artifacts>>

(* What instruction space may be: a first byte is an instruction, or every *)
(* second byte completes one.                                              *)
Truths == {t \in [Instr -> Kinds \cup {"short", "long"}] :
             \A x \in Instr : ~Long(x) =>
                \/ t[x] \in Kinds /\ \A y \in Group(x) \ {x} : t[y] = "long"
                \/ t[x] = "short" /\ \A y \in Group(x) \ {x} : t[y] \in Kinds}

(* The items of create start at single bytes or at sampled instructions. *)
Init == /\ space \in Spaces
        /\ truth \in Truths
        /\ \E starts \in space.starts :
             /\ \A i \in DOMAIN starts : Long(starts[i]) => starts[i] \in Exact
             /\ work = [i \in DOMAIN starts |->
                           NewItem(starts[i], IF i = Len(starts) THEN NoEnd ELSE starts[i + 1])]
        /\ stalled = [i \in DOMAIN work |-> FALSE] /\ unstall = [i \in DOMAIN work |-> << >>]
        /\ request = [i \in DOMAIN work |-> NoRequest]
        /\ filters = {} /\ perfect_instrs_seen = {} /\ artifacts = {}

Work == \/ \E i \in DOMAIN work : TakeNext(i)
        \/ NothingToDo
        \/ \E i \in DOMAIN work : Complete(i)

Next == Work \/ \E x \in Instr : Split(x)

Spec == Init /\ [][Next]_vars

(* No step of Work changes anything any more: a state predicate for        *)
(* ~ ENABLED <<Work>>_vars.                                                *)
Quiet == /\ \A i \in DOMAIN work : /\ request[i] = NoRequest
                                   /\ ~CanRun(work[i], stalled[i], request[i])
                                   /\ ~CanRun(work[i], RefreshedStalled[i], request[i])
         /\ RefreshedUnstall = unstall /\ RefreshedStalled = stalled

(* Some thread always gets on: it asks for work, completes what it took    *)
(* or, when there is nothing to do, comes to the refresh of the stalls     *)
(* that is due every 100 seconds.  This is WF_vars(Work): of the steps of  *)
(* Next, those of Work are the ones that add no item.                      *)
FairSpec == Spec /\ ([]<>Quiet \/ []<><<Len(work') = Len(work)>>_vars)

-----------------------------------------------------------------------------
(* An item that is stalled stalls nobody: stalls form no chains and so no  *)
(* cycles, whatever results arrive in whatever order.                      *)
NoStallChains ==
    \A i \in DOMAIN work : \A j \in DOMAIN unstall[i] : DOMAIN unstall[j] = {}

(* No valid instruction is skipped (Scope: "Returns true if and only if    *)
(* instr should be enumerated"): it is covered by an encoding, it has      *)
(* failed, or an item that is not done still has it before its end.  The   *)
(* counter of an item may be one byte too long.                            *)
NothingLost ==
    \A x \in Valid :
        \/ x \in artifacts
        \/ \E i \in DOMAIN work :
              LET c  == work[i].counter
                  at == IF c \in Instr /\ truth[c] = "long" THEN Prefix(c) ELSE c
              IN  ~work[i].done /\ at <= x /\ x <= work[i].to

(* The enumeration ends: stalls, splits, restarts and results of other     *)
(* items never keep an item from reaching its end, if no instruction is    *)
(* invalid (for those, see InvalidSkipped).                                *)
AllDone == "invalid" \notin Kinds => <>[](\A i \in DOMAIN work : work[i].done)

(* "Skip consecutive byte strings that are invalid instructions": when the *)
(* invalid instruction an item asked for is completed, and the range of    *)
(* the item was not split meanwhile, the item leaves the instruction.      *)
InvalidSkipped ==
    [][\A i \in DOMAIN work :
          /\ ~work[i].done /\ request[i] # NoRequest /\ request'[i] = NoRequest
          /\ request[i].instr \in Instr /\ truth[request[i].instr] = "invalid"
          /\ request[i].end = work[i].to
          => work'[i].done \/ work'[i].counter # request[i].instr]_vars
=============================================================================
