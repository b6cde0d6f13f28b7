------------------------------ MODULE StateGen ------------------------------
(***************************************************************************)
(* StateGen (liblisa/src/state/random/mod.rs): the generator of states     *)
(* that fit the memory accesses of an instruction, and what it does to a   *)
(* SystemState (state/mod.rs, state/memory.rs).                            *)
(*                                                                         *)
(* A state is its registers, the address of each memory mapping and the    *)
(* flag contains_valid_addrs.  The contents of the mappings do not matter  *)
(* here; register "m" stands for what an address never depends on.  What   *)
(* the code draws at random is any value.  Access 1 is the instruction.    *)
(***************************************************************************)
EXTENDS Addresses, SequencesExt

CONSTANTS AddrRegs,     \* the registers with is_addr_reg
          Mappable,     \* the addresses can_map accepts
          Choice,       \* what each register may be set to
          FillWidths,   \* how many low bits fill_with_byte fills, step by step
          FillTries,    \* bound: tries of fill_state for one access, 10 in the code
          FixTries,     \* bound: failed adapts in fill_state, 50 in the code
          Rounds        \* bound: rounds of randomize_new, 5000 in the code

ASSUME StateGenAssumption == Mappable \subseteq Words /\ {FillTries, FixTries, Rounds} \subseteq Nat

VARIABLES accesses,     \* the memory accesses, a sequence
          s,            \* the state: [regs, addrs, valid]
          pc,           \* "new", "ready", "dirty" (the last adapt failed) or what is going on
          job           \* the counters of fill_state; the registers fill_with_byte has left

genVars == <<accesses, s, pc, job>>

Regs == {"pc", "r", "m"}
CanMap(addr) == addr \in Mappable
Index == 1 .. Len(accesses)

Executable(a) == a.kind = "exec"
AreaOf(a, addr) == Area(addr, a.size)

(* perms_compatible, for the permissions randomize_new gives to accesses. *)
PermsCompatible(a, b) == Executable(a) = Executable(b)

Collides(a, addr, b, other) == IF PermsCompatible(a, b) THEN OverlapsWith(AreaOf(a, addr), AreaOf(b, other))
                                                        ELSE SharesPageWith(AreaOf(a, addr), AreaOf(b, other))

GoodAddr(addrs, i, addr) ==
    /\ CanMap(addr)
    /\ ~CrossesPageBounds(AreaOf(accesses[i], addr))
    /\ \A j \in 1 .. i - 1 : ~Collides(accesses[i], addr, accesses[j], addrs[j])

IsAlwaysBadAddr(addrs, i, addr) ==
    \/ ~CanMap(addr)
    \/ CrossesPageBounds(AreaOf(accesses[i], addr))
    \/ \E j \in 1 .. i - 1 : HasFixedAddr(accesses[j]) /\ Collides(accesses[i], addr, accesses[j], addrs[j])

Aligned(i, addr) == addr % accesses[i].align = 0

(***************************************************************************)
(* StateGen::new: the part of its page an access must start in.  The later *)
(* accesses overwrite what the earlier ones said.                          *)
(***************************************************************************)
Impossible == [min |-> -1, max |-> -1]

(* Fault: the end of the region is measured with the size of the access itself. *)
NarrowedOwnSize(a, region, b) ==
    LET offsets == ConstantOffset(b, a)
        offset == CHOOSE o \in offsets : TRUE
        separate == Executable(a) \/ Executable(b)
        overlapping == CASE offset = 0 -> TRUE
                         [] offset < 0 -> offset + a.size > 0
                         [] OTHER -> offset < b.size
        distance == IF offset < 0 THEN -offset ELSE offset
    IN  IF region = Impossible \/ offsets = None THEN region
        ELSE IF overlapping THEN Impossible
        ELSE CASE distance = PageSize -> [region EXCEPT !.max = PageSize - Larger(a.size, b.size)]
               [] distance < PageSize /\ separate /\ offset < 0 -> [region EXCEPT !.min = PageSize - distance]
               [] distance < PageSize /\ separate /\ offset > 0 ->
                     [region EXCEPT !.max = (distance - a.size) % PageSize]
               [] OTHER -> region

(* A region, and what another access at a constant offset makes of it. *)
Narrowed(a, region, b) ==
    LET offsets == ConstantOffset(b, a)
        offset == CHOOSE o \in offsets : TRUE
        separate == Executable(a) \/ Executable(b)
        overlapping == CASE offset = 0 -> TRUE
                         [] offset < 0 -> offset + a.size > 0
                         [] OTHER -> offset < b.size
        distance == IF offset < 0 THEN -offset ELSE offset
    IN  IF region = Impossible \/ offsets = None THEN region
        ELSE IF overlapping THEN Impossible
        ELSE CASE distance = PageSize -> [region EXCEPT !.max = PageSize - Larger(a.size, b.size)]
               [] distance < PageSize /\ separate /\ offset < 0 -> [region EXCEPT !.min = PageSize - distance]
               [] distance < PageSize /\ separate /\ offset > 0 ->
                     [region EXCEPT !.max = (distance - b.size) % PageSize]
               [] OTHER -> region

Others(i) == SelectSeq([k \in Index |-> k], LAMBDA k : k # i)

PageRegion(i) ==
    LET a == accesses[i]
    IN  IF a.inputs = << >> /\ ~CanMap(a.offset % Word) THEN Impossible
        ELSE FoldLeft(LAMBDA r, k : Narrowed(a, r, accesses[k]), [min |-> 0, max |-> PageSize - a.size], Others(i))

Constraint(i) == IF PageRegion(i).min > PageSize - accesses[i].size THEN Impossible ELSE PageRegion(i)

(* The assertion of new. *)
ConstraintPanics(i) == PageRegion(i) # Impossible /\ PageRegion(i).min > PageRegion(i).max

FixedCrosses(i) == /\ HasFixedAddr(accesses[i])
                   /\ CrossesPageBounds(AreaOf(accesses[i], ComputeAddress(accesses[i], [r \in Regs |-> 0])))

NewFails == \E i \in Index : Constraint(i) = Impossible \/ FixedCrosses(i)

(***************************************************************************)
(* adapt_up_to_len.  An address that has not changed is taken as it is     *)
(* when the flag says that the addresses of the state are valid and none   *)
(* before it has changed.                                                  *)
(***************************************************************************)
(* Fault: a state whose addresses were rejected keeps the flag. *)
AdaptStepKeepsFlag(a, i) ==
    LET new == ComputeAddress(accesses[i], a.s.regs)
        eq == new = a.s.addrs[i]
    IN  IF ~a.ok THEN a
        ELSE IF ~((a.allEq /\ eq) \/ GoodAddr(a.s.addrs, i, new)) THEN [a EXCEPT !.ok = FALSE]
        ELSE [a EXCEPT !.s.addrs[i] = new, !.allEq = @ /\ eq, !.ok = Aligned(i, new)]

AdaptStep(a, i) ==
    LET new == ComputeAddress(accesses[i], a.s.regs)
        eq == new = a.s.addrs[i]
    IN  IF ~a.ok THEN a
        ELSE IF ~((a.allEq /\ eq) \/ GoodAddr(a.s.addrs, i, new)) THEN [a EXCEPT !.s.valid = FALSE, !.ok = FALSE]
        ELSE [a EXCEPT !.s.addrs[i] = new, !.allEq = @ /\ eq, !.ok = Aligned(i, new)]

AdaptUpToLen(st, changedInstr, len) ==
    LET a == FoldLeft(AdaptStep, [s |-> st, allEq |-> st.valid /\ ~changedInstr, ok |-> TRUE], [i \in 1..len |-> i])
    IN  IF \E r \in AddrRegs : ~CanMap(st.regs[r]) THEN [ok |-> FALSE, s |-> st]
        ELSE IF a.ok /\ len = Len(accesses) THEN [ok |-> TRUE, s |-> [a.s EXCEPT !.valid = TRUE]]
        ELSE [ok |-> a.ok, s |-> a.s]

Adapt(st) == AdaptUpToLen(st, FALSE, Len(accesses))

UpdateMemoryAddressesUnchecked(st) ==
    [st EXCEPT !.addrs = [i \in Index |-> ComputeAddress(accesses[i], st.regs)]]

NoJob == [access |-> 0, tries |-> 0, fixes |-> 0, round |-> 0, regs |-> {}, value |-> 0, widths |-> << >>, failed |-> FALSE]

(* A caller changes a register and adapts the state; when that fails, it   *)
(* may go on with the state.                                               *)
Modify(r, v) ==
    /\ pc \in {"ready", "dirty"}
    /\ \E a \in {Adapt([s EXCEPT !.regs[r] = v])} : s' = a.s /\ pc' = IF a.ok THEN "ready" ELSE "dirty"
    /\ UNCHANGED <<accesses, job>>

AdaptChanged ==
    /\ pc = "changed"
    /\ \E a \in {Adapt(s)} : s' = a.s /\ pc' = IF a.ok THEN "ready" ELSE "dirty"
    /\ UNCHANGED <<accesses, job>>

(* remap: the state is one of another instruction, with its addresses. *)
Remap(addrs) ==
    /\ pc = "ready"
    /\ ~CrossesPageBounds(AreaOf(accesses[1], s.regs["pc"])) /\ CanMap(s.regs["pc"])
    /\ \E a \in {AdaptUpToLen([s EXCEPT !.addrs = [addrs EXCEPT ![1] = s.regs["pc"]]], TRUE, Len(accesses))} :
          s' = a.s /\ pc' = IF a.ok THEN "ready" ELSE "dirty"
    /\ UNCHANGED <<accesses, job>>

(***************************************************************************)
(* randomize_new, randomize_new_with_locations and fill_state.             *)
(***************************************************************************)
InputRegs(i) == {accesses[i].inputs[k].reg : k \in DOMAIN accesses[i].inputs} \ {"none"}
AddressRegisters == UNION {InputRegs(i) : i \in Index} \union AddrRegs

(* randomize_register: the instruction fits its page, and an address       *)
(* register can be mapped.                                                 *)
Draws(r) == {v \in Choice[r] : /\ r = "pc" => CanMap(v) /\ ~CrossesPageBounds(AreaOf(accesses[1], v))
                               /\ r \in AddrRegs => CanMap(v)}
Randomized(regs, set) ==
    LET Values(r) == IF r \in set THEN Draws(r) ELSE {regs[r]}
    IN  {[pc |-> p, r |-> x, m |-> y] : p \in Values("pc"), x \in Values("r"), y \in Values("m")}

(* randomize_location: another value, which the caller has to adapt to. *)
RandomizeLocation(r) ==
    /\ pc \in {"ready", "dirty", "changed"} /\ pc' = "changed"
    /\ \E v \in Draws(r) \ {s.regs[r]} : s' = [s EXCEPT !.regs[r] = v]
    /\ UNCHANGED <<accesses, job>>

RandomizeNew ==
    /\ pc \in {"new", "ready", "dirty"}
    /\ \E regs \in Randomized(s.regs, Regs) : s' = [regs |-> regs, addrs |-> [i \in Index |-> 0], valid |-> TRUE]
    /\ pc' = "fill" /\ job' = [NoJob EXCEPT !.access = 1]
    /\ UNCHANGED accesses

RandomizeNewWithLocations(r) ==
    /\ pc = "ready"
    /\ \E regs \in Randomized(s.regs, {r}) : s' = [s EXCEPT !.regs = regs]
    /\ pc' = "fill" /\ job' = [NoJob EXCEPT !.access = 1]
    /\ UNCHANGED accesses

(* fill_state gave up: the address registers are drawn again. *)
NextRound(st) ==
    IF job.round = Rounds
    THEN s' = st /\ pc' = "failed" /\ job' = NoJob
    ELSE /\ \E regs \in Randomized(st.regs, AddressRegisters) : s' = [st EXCEPT !.regs = regs]
         /\ pc' = "fill" /\ job' = [NoJob EXCEPT !.access = 1, !.round = job.round + 1]

(* One round of the loop of fill_state over the values for an access. *)
FillAccess ==
    /\ pc = "fill" /\ job.access <= Len(accesses)
    /\ LET i == job.access
           addr == ComputeAddress(accesses[i], s.regs)
           st == [s EXCEPT !.addrs[i] = addr]
       IN  IF job.tries = FillTries THEN NextRound(s)
           ELSE IF Aligned(i, addr) /\ GoodAddr(s.addrs, i, addr)
                THEN s' = st /\ job' = [job EXCEPT !.access = @ + 1, !.tries = 0] /\ UNCHANGED pc
           ELSE IF \E j \in 1 .. i - 1 : s.addrs[j] = addr THEN NextRound(st)      \* DoubleMappedMemory
           ELSE IF HasFixedAddr(accesses[i]) /\ IsAlwaysBadAddr(s.addrs, i, addr)
                THEN s' = st /\ pc' = "failed" /\ job' = NoJob                      \* UnmappableFixedOffset
           ELSE s' = st /\ pc' = "fix" /\ job' = [job EXCEPT !.tries = @ + 1]
    /\ UNCHANGED accesses

(* The loop that draws the inputs of the access again: an address that is  *)
(* good but not in its region of the page is moved there by an input that  *)
(* is added to the address as it is.                                       *)
Movable(i) == {r \in InputRegs(i) : \E k \in DOMAIN accesses[i].inputs :
                   accesses[i].inputs[k].reg = r /\ accesses[i].terms[k] = Identity}
Region(c) == IF c.min = c.max THEN {c.min} ELSE c.min .. c.max - 1

Drawn(i) ==
    LET good == {regs \in Randomized(s.regs, InputRegs(i)) : GoodAddr(s.addrs, i, ComputeAddress(accesses[i], regs))}
        At(regs) == ComputeAddress(accesses[i], regs) % PageSize
        c == Constraint(i)
        inside == {regs \in good : c.min <= At(regs) /\ At(regs) <= c.max}
    IN  inside \union {[regs EXCEPT ![r] = Wrap(@ + (to - At(regs)))] :
                          regs \in good \ inside, r \in Movable(i), to \in Region(c)}

Fix ==
    /\ pc = "fix"
    /\ \/ NextRound(s)                           \* more than 10000 tries, or nothing to change
       \/ /\ InputRegs(job.access) # {}
          /\ \E regs \in Drawn(job.access) :
             \E a \in {AdaptUpToLen([s EXCEPT !.regs = regs], FALSE, job.access - 1)} :
                IF a.ok THEN s' = a.s /\ pc' = "fill" /\ job' = [job EXCEPT !.fixes = 0]
                ELSE IF job.fixes = FixTries THEN NextRound(a.s)
                ELSE s' = a.s /\ job' = [job EXCEPT !.fixes = @ + 1] /\ UNCHANGED pc
    /\ UNCHANGED accesses

FillComplete ==
    /\ pc = "fill" /\ job.access > Len(accesses)
    /\ pc' = "ready" /\ job' = NoJob
    /\ UNCHANGED <<accesses, s>>

(***************************************************************************)
(* fill_with_byte and fill_from_address_register: fill one address         *)
(* register after the other, undo what the accesses do not allow.          *)
(***************************************************************************)
StartFilling(value, widths, skip) ==
    /\ pc = "ready" /\ pc' = "filling"
    /\ s' = [s EXCEPT !.regs = [r \in Regs |-> IF r \in AddressRegisters THEN @[r] ELSE value]]
    /\ job' = [NoJob EXCEPT !.regs = AddressRegisters \ skip, !.value = value, !.widths = widths]
    /\ UNCHANGED accesses

FillWithByte(value) == StartFilling(value, FillWidths, {})
FillFromAddressRegister(r) == StartFilling(s.regs[r], <<WordBits>>, {r})

FillWidth(f, r, width) ==
    LET old == f.s.regs[r]
        new == (old \div 2 ^ width) * 2 ^ width + (job.value % 2 ^ width)
        a == Adapt([f.s EXCEPT !.regs[r] = new])
    IN  IF f.failed THEN f
        ELSE IF a.ok THEN [s |-> a.s, failed |-> FALSE]
        ELSE [s |-> [a.s EXCEPT !.regs[r] = old], failed |-> TRUE]

FillRegister(r) ==
    /\ pc = "filling" /\ r \in job.regs
    /\ \E f \in {FoldLeft(LAMBDA g, w : FillWidth(g, r, w), [s |-> s, failed |-> FALSE], job.widths)} :
          s' = f.s /\ job' = [job EXCEPT !.regs = @ \ {r}, !.failed = f.failed]
    /\ UNCHANGED <<accesses, pc>>

(* The last adapt is repeated if it failed; the code asserts that this works. *)
FillingDone ==
    /\ pc = "filling" /\ job.regs = {}
    /\ \E a \in {IF job.failed THEN Adapt(s) ELSE [ok |-> TRUE, s |-> s]} :
          s' = a.s /\ pc' = IF a.ok THEN "ready" ELSE "panic"
    /\ job' = NoJob
    /\ UNCHANGED accesses

(* new has accepted the accesses. *)
GenInit(sets) ==
    /\ accesses \in sets
    /\ ~NewFails /\ \A i \in Index : ~ConstraintPanics(i)
    /\ s = [regs |-> [r \in Regs |-> 0], addrs |-> [i \in Index |-> 0], valid |-> TRUE]
    /\ pc = "new" /\ job = NoJob

GenNext ==
    \/ \E r \in Regs : \E v \in Choice[r] : Modify(r, v)
    \/ \E addrs \in [Index -> {0, 1}] : Remap(addrs)
    \/ AdaptChanged \/ RandomizeNew \/ FillAccess \/ Fix \/ FillComplete \/ FillingDone
    \/ \E r \in Regs : RandomizeLocation(r) \/ RandomizeNewWithLocations(r) \/ FillRegister(r)
    \/ \E r \in AddressRegisters : FillFromAddressRegister(r)
    \/ \E v \in Choice["r"] : FillWithByte(v)

(***************************************************************************)
(* Properties                                                              *)
(***************************************************************************)
(* What a state must be to be observed: every mapping is where the access  *)
(* goes, can be mapped, fits its page, and is apart from the others.       *)
Fits(regs) ==
    LET addrs == [i \in Index |-> ComputeAddress(accesses[i], regs)]
    IN  /\ \A r \in AddrRegs : CanMap(regs[r])
        /\ \A i \in Index : Aligned(i, addrs[i]) /\ GoodAddr(addrs, i, addrs[i])

InPlace == s.addrs = [i \in Index |-> ComputeAddress(accesses[i], s.regs)]

(* adapt accepts exactly the states whose mappings can be placed, and then *)
(* places them, although it skips what it believes unchanged: whatever     *)
(* failed, was undone or came from another instruction before, a state     *)
(* that was handed out fits the accesses, and one that was refused does    *)
(* not.  The last adapt of the fill functions, which is asserted, works.   *)
AdaptIsExact == /\ pc = "ready" => Fits(s.regs) /\ InPlace
                /\ pc = "dirty" => ~Fits(s.regs)
                /\ pc # "panic"

(* "If we are not adhering to a constraint, fill_state is guaranteed to    *)
(* fail": every placement meets the constraints of StateGen::new, and      *)
(* accesses that new refuses have no placement.                            *)
ConstraintsNecessary ==
    \A regs \in [Regs -> UNION {Choice[r] : r \in Regs}] :
       Fits(regs) => /\ ~NewFails
                     /\ \A i \in Index : LET at == ComputeAddress(accesses[i], regs) % PageSize
                                         IN  Constraint(i).min <= at /\ at <= Constraint(i).max
=============================================================================
