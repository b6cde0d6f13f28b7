----------------------------- MODULE UserPages -----------------------------
(***************************************************************************)
(* The user page mapper of the client (vmimage-x86-64: UserPageMapper and  *)
(* BumpFrameAllocator in memory.rs, ObsMapper in main.rs) and the way      *)
(* Observer::observe uses it: the pages of a command are mapped, the       *)
(* instruction runs in user mode, all mappings are taken back at once.     *)
(*                                                                         *)
(* A page is its indices in the page tables of levels 3, 2 and 1 (the      *)
(* level-3 tables are always there).  Tables of levels 2 and 1 come from a *)
(* pool that is reset after every command; the translation buffer (TLB) of *)
(* the processor keeps translations until they are flushed.                *)
(***************************************************************************)
EXTENDS Naturals, Sequences, Functions

CONSTANTS Index,         \* indices into a page table
          NumTables,     \* tables of the pool: page_frames.len(), 48
          MaxEntries,    \* capacity of entries_to_clear, 64
          NumFrames,     \* page frames that can be mapped
          MaxPages       \* bound: mappings of a command

ASSUME MapperAssumption == /\ NumTables \in Nat /\ MaxEntries \in Nat
                           /\ NumFrames \in Nat /\ MaxPages \in Nat

VARIABLES entries,          \* the entries of all tables; table 0 is the level-3 table
          next_unused,      \* next_unused_page_frame_index
          entries_to_clear, \* the entries set for this command
          tlb,              \* translations the processor holds: pairs of page and frame
          wanted, mapped,   \* the mappings of the command and their number
          mapperPc

pageVars == <<entries, next_unused, entries_to_clear, tlb, wanted, mapped, mapperPc>>

Page  == Index \X Index \X Index
Table == 0 .. NumTables
Unused == 0
(* Entries hold a table of the pool or a page frame. *)
MappedFrame == NumTables + 1 .. NumTables + NumFrames

-----------------------------------------------------------------------------
(* The mapper's working state while it maps a page. *)
Mapper == [entries |-> entries, next |-> next_unused, clear |-> entries_to_clear, ok |-> TRUE]

(* entry.set_frame and entries_to_clear.push, which panics when it is full. *)
SetEntry(m, t, i, value) ==
    [entries |-> [m.entries EXCEPT ![t][i] = value], next |-> m.next,
     clear |-> Append(m.clear, <<t, i>>), ok |-> m.ok /\ Len(m.clear) < MaxEntries]

(* Fault: the new table is not recorded for clearing. *)
AddOrCreateTableUnrecorded(m, t, i) ==
    IF ~m.ok \/ m.entries[t][i] # Unused THEN m
    ELSE IF m.next >= NumTables THEN [m EXCEPT !.ok = FALSE]
    ELSE [m EXCEPT !.entries = [@ EXCEPT ![t] = [@ EXCEPT ![i] = m.next + 1]],
                   !.next = @ + 1]

(* add_or_create_pt: entry i of table t gets a fresh table if it is unused. *)
AddOrCreateTable(m, t, i) ==
    IF ~m.ok \/ m.entries[t][i] # Unused THEN m
    ELSE IF m.next >= NumTables THEN [m EXCEPT !.ok = FALSE]
    ELSE SetEntry([m EXCEPT !.next = @ + 1], t, i, m.next + 1)

(* map_user_direct without its flush. *)
MapUser(m, page, frame) ==
    LET m2 == AddOrCreateTable(m, 0, page[1])
        p2 == m2.entries[0][page[1]]
        m1 == IF m2.ok THEN AddOrCreateTable(m2, p2, page[2]) ELSE m2
        p1 == m1.entries[p2][page[2]]
    IN  IF m1.ok THEN SetEntry(m1, p1, page[3], frame) ELSE m1

(* The translations left after page is flushed. *)
Flush(page) == {e \in tlb : e[1] # page}

(* One step of observe's first loop.  An executable page is mapped twice:  *)
(* map_executable maps it writable, touches it so that QEMU discards what  *)
(* it cached of the page, and maps it again.                               *)
Map(page, frame, executable) ==
    LET once == MapUser(Mapper, page, frame)
        m    == IF executable /\ once.ok THEN MapUser(once, page, frame) ELSE once
    IN  /\ mapperPc = "map" /\ mapped < MaxPages
        /\ mapped' = mapped + 1
        /\ page \notin {w[1] : w \in wanted}
        /\ entries' = m.entries /\ next_unused' = m.next /\ entries_to_clear' = m.clear
        /\ tlb' = Flush(page)
        /\ wanted' = wanted \cup {<<page, frame>>}
        /\ mapperPc' = IF m.ok THEN "map" ELSE "panicked"

(* The switch to user mode. *)
Run == /\ mapperPc = "map"
       /\ mapperPc' = "run"
       /\ UNCHANGED <<entries, next_unused, entries_to_clear, tlb, wanted, mapped>>

(* What the page tables say of a page: the set of its frame, or nothing. *)
Walk(page) ==
    {f \in MappedFrame : \E p2, p1 \in Table \ {Unused} :
                          /\ entries[0][page[1]] = p2
                          /\ entries[p2][page[2]] = p1
                          /\ entries[p1][page[3]] = f}

(* The translation the processor uses: from the TLB if it has one. *)
Translation(page) == IF \E e \in tlb : e[1] = page
                     THEN {e[2] : e \in {x \in tlb : x[1] = page}} ELSE Walk(page)

(* The instruction accesses a mapped page, and the TLB keeps the translation. *)
Access(page) == /\ mapperPc = "run"
                /\ \A e \in tlb : e[1] # page
                /\ Walk(page) # {}
                /\ tlb' = tlb \cup {<<page, f>> : f \in Walk(page)}
                /\ UNCHANGED <<entries, next_unused, entries_to_clear, wanted, mapped, mapperPc>>

(* The end of observe: reset_before, unmap_hint for every page of the      *)
(* command, reset_after.                                                   *)
Reset ==
    /\ mapperPc = "run"
    /\ entries' = [t \in Table |-> [i \in Index |->
                      IF <<t, i>> \in Range(entries_to_clear) THEN Unused ELSE entries[t][i]]]
    /\ entries_to_clear' = << >> /\ next_unused' = 0
    /\ tlb' = {e \in tlb : e[1] \notin {w[1] : w \in wanted}}
    /\ wanted' = {} /\ mapped' = 0
    /\ mapperPc' = "map"

-----------------------------------------------------------------------------
PagesInit == /\ entries = [t \in Table |-> [i \in Index |-> Unused]]
             /\ next_unused = 0 /\ entries_to_clear = << >>
             /\ tlb = {} /\ wanted = {} /\ mapped = 0 /\ mapperPc = "map"

PagesNext == \/ \E page \in Page, frame \in MappedFrame, x \in BOOLEAN :
                   Map(page, frame, x)
             \/ Run \/ Reset
             \/ \E page \in Page : Access(page)

-----------------------------------------------------------------------------
(* While an instruction is observed, it sees exactly the pages of its own  *)
(* command, each backed by the frame the command names: no page of an      *)
(* earlier command is left in the page tables or in the TLB.               *)
SeesOwnPages == mapperPc = "run" =>
    \A page \in Page : Translation(page) = {w[2] : w \in {x \in wanted : x[1] = page}}
=============================================================================
