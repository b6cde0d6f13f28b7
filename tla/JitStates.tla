----------------------------- MODULE JitStates -----------------------------
(***************************************************************************)
(* The just-in-time states (liblisa/src/state/jit): several states share   *)
(* one SystemState, which each of them turns into itself when it is looked *)
(* at.  A ComplexJitState changes any bytes, a GpRegJitState a register, a *)
(* SimpleJitState a fixed set of bytes.  A register of the model is one    *)
(* byte (state/byteview.rs).                                               *)
(***************************************************************************)
EXTENDS StateGen

CONSTANTS MaxItems          \* bound: states that share a base

VARIABLES kind,             \* "complex", "gpreg" or "simple"
          items,            \* what was created: [from, to, need]
          active,           \* the item the shared state is turned into, 0 for usize::MAX
          base,             \* the registers of the base state
          affected,         \* the bytes that a SimpleJitState changes
          seen              \* what the last call returned: an item, 0 for the base, -1 for none

jitVars == <<kind, items, active, base, affected, seen>>
jitOnly == <<accesses, job, kind, base, affected>>

NeedsAdapt(set) == set \cap AddressRegisters # {}       \* needs_adapt_from_bytes, _from_gpregs

Over(regs, change) == [r \in Regs |-> IF r \in DOMAIN change THEN change[r] ELSE regs[r]]
Located(st, need) == IF need THEN UpdateMemoryAddressesUnchecked(st) ELSE st

Build(k, bytes) ==
    /\ pc = "ready" /\ pc' = "jit"
    /\ kind' = k /\ affected' = bytes /\ base' = s.regs /\ items' = << >> /\ active' = 0 /\ seen' = -1
    /\ UNCHANGED <<accesses, s, job>>

(* The shared state with the active item undone. *)
Reverted ==
    IF active = 0 THEN s
    ELSE Located([s EXCEPT !.regs = Over(@, items[active].from)], items[active].need)

(* create: undo the active item, change the bytes, adapt; undo that when   *)
(* the caller's function or adapt refuses.                                 *)
CreateItem(change, accept) ==
    /\ pc = "jit" /\ Len(items) < MaxItems
    /\ LET set == DOMAIN change
           from == [r \in set |-> Reverted.regs[r]]
           changed == [Reverted EXCEPT !.regs = Over(@, change)]
           a == IF accept /\ NeedsAdapt(set) THEN Adapt(changed) ELSE [ok |-> accept, s |-> changed]
       IN  IF a.ok
           THEN /\ items' = Append(items, [from |-> from, to |-> change, need |-> NeedsAdapt(set)])
                /\ s' = a.s /\ active' = Len(items) + 1 /\ seen' = Len(items) + 1
           ELSE /\ s' = Located([a.s EXCEPT !.regs = Over(@, from)], NeedsAdapt(set))
                /\ active' = 0 /\ seen' = -1 /\ UNCHANGED items
    /\ UNCHANGED <<jitOnly, pc>>

ComplexCreate(change, accept) == kind = "complex" /\ CreateItem(change, accept)
GpRegCreate(r, v, accept) == kind = "gpreg" /\ CreateItem([q \in {r} |-> v], accept)

(* The item is not applied yet. *)
CreateWithChangeList(change) ==
    /\ kind = "complex"
    /\ IF NeedsAdapt(DOMAIN change) THEN CreateItem(change, TRUE)
       ELSE /\ pc = "jit" /\ Len(items) < MaxItems
            /\ s' = Reverted /\ active' = 0 /\ seen' = -1
            /\ items' = Append(items, [from |-> [r \in DOMAIN change |-> Reverted.regs[r]], to |-> change, need |-> FALSE])
            /\ UNCHANGED <<jitOnly, pc>>

(* as_system_state: undo the active item, apply this one. *)
View(i) ==
    /\ pc = "jit" /\ kind # "simple" /\ i \in DOMAIN items
    /\ seen' = i /\ active' = i
    /\ LET undone == IF active = 0 THEN s.regs ELSE Over(s.regs, items[active].from)
           need == items[i].need \/ (active # 0 /\ items[active].need)
       IN  s' = IF active = i THEN s ELSE Located([s EXCEPT !.regs = Over(undone, items[i].to)], need)
    /\ UNCHANGED <<jitOnly, pc, items>>

GpRegView(i) == kind = "gpreg" /\ View(i)
ComplexView(i) == kind = "complex" /\ View(i)

ViewOriginal ==
    /\ pc = "jit" /\ kind = "complex"
    /\ s' = Reverted /\ active' = 0 /\ seen' = 0
    /\ UNCHANGED <<jitOnly, pc, items>>

(* SimpleJitState: every item is made from the shared state as the one     *)
(* before left it, and nothing is undone.  Its users collect the items     *)
(* before they look at one.                                                *)
SimpleCreate(change, accept) ==
    /\ pc = "jit" /\ kind = "simple" /\ seen = -1 /\ Len(items) < MaxItems
    /\ DOMAIN change = affected
    /\ LET changed == [s EXCEPT !.regs = Over(@, change)]
           need == NeedsAdapt(DOMAIN change)
           a == IF accept /\ need THEN Adapt(changed) ELSE [ok |-> accept, s |-> changed]
       IN  /\ s' = a.s
           /\ items' = IF a.ok THEN Append(items, [from |-> << >>, to |-> change, need |-> need]) ELSE items
    /\ UNCHANGED <<jitOnly, pc, active, seen>>

SimpleView(i) ==
    /\ pc = "jit" /\ kind = "simple" /\ i \in DOMAIN items
    /\ s' = IF active = i THEN s ELSE Located([s EXCEPT !.regs = Over(@, items[i].to)], items[i].need)
    /\ active' = i /\ seen' = i
    /\ UNCHANGED <<jitOnly, pc, items>>

(* The bytes an item changes, and their values. *)
Changes == {[q \in {r} |-> v] : r \in {"r"}, v \in Choice["r"]}
           \union {[q \in {"m"} |-> v] : v \in Choice["m"]}
           \union {[r |-> v, m |-> w] : v \in Choice["r"], w \in Choice["m"]}

JitInit == kind = "complex" /\ items = << >> /\ active = 0 /\ base = [r \in Regs |-> 0] /\ affected = {} /\ seen = -1

JitNext ==
    \/ \E k \in {"complex", "gpreg"} : Build(k, {})
    \/ \E bytes \in {{"r"}, {"m"}, {"r", "m"}} : Build("simple", bytes)
    \/ \E change \in Changes, accept \in BOOLEAN : ComplexCreate(change, accept) \/ SimpleCreate(change, accept)
    \/ \E r \in {"r", "m"}, accept \in BOOLEAN : \E v \in Choice[r] : GpRegCreate(r, v, accept)
    \/ \E change \in Changes : CreateWithChangeList(change)
    \/ \E i \in 1 .. MaxItems : ComplexView(i) \/ GpRegView(i) \/ SimpleView(i)
    \/ ViewOriginal

(* Whatever was created, refused and looked at before, a just-in-time      *)
(* state shows the base state with its own changes, every mapping where    *)
(* the access goes and the accesses allow it; the original state shows the *)
(* base state.                                                             *)
ViewsAreTheirStates ==
    pc = "jit" /\ seen # -1 =>
        /\ s.regs = IF seen = 0 THEN base ELSE Over(base, items[seen].to)
        /\ InPlace /\ Fits(s.regs)
=============================================================================
