----------------------------- MODULE FilterTree -----------------------------
(***************************************************************************)
(* FilterTree (liblisa/src/instr/tree.rs): a binary decision tree over the *)
(* bits of an instruction, kept in a vector with a list of free entries.   *)
(* A node branches on its bit or ignores it; an index is that of an entry, *)
(* Enumerate (nothing below is filtered) or Skip (everything is).          *)
(*                                                                         *)
(* The operations take a tree, a record of the vector and the free list,   *)
(* and return the changed one.  Entry 0 of the code is entry 1 here.       *)
(***************************************************************************)
EXTENDS InstructionFilter, FiniteSets

Enumerate == 0
Skip == -1
NoIndex == -2          \* the None of an Option<NodeIndex>
Root == 1

Branch(i0, i1) == [is0 |-> i0, is1 |-> i1, ignore |-> FALSE]
Ignore(i) == [is0 |-> i, is1 |-> i, ignore |-> TRUE]

IsIndex(i) == i >= Root
NewTree == [entries |-> <<Ignore(Enumerate)>>, empty |-> << >>]

SetEntry(t, i, node) == [t EXCEPT !.entries[i] = node]
SetChild(t, i, b, new) == IF b = 0 THEN [t EXCEPT !.entries[i].is0 = new] ELSE [t EXCEPT !.entries[i].is1 = new]
Child(node, b) == IF b = 0 THEN node.is0 ELSE node.is1

(* new_node returns the changed tree and the index of the node. *)
NewNode(t, node) ==
    IF t.empty # << >>
    THEN LET i == t.empty[Len(t.empty)]
         IN  [tree |-> [entries |-> [t.entries EXCEPT ![i] = node], empty |-> SubSeq(t.empty, 1, Len(t.empty) - 1)],
              index |-> i]
    ELSE [tree |-> [t EXCEPT !.entries = Append(@, node)], index |-> Len(t.entries) + 1]

FreeEntry(t, i) == IF i = Len(t.entries) THEN [t EXCEPT !.entries = SubSeq(@, 1, Len(@) - 1)]
                                         ELSE [t EXCEPT !.empty = Append(@, i)]

RECURSIVE FreeNode(_, _)
FreeNode(t, i) ==
    IF ~IsIndex(i) THEN t
    ELSE LET node == t.entries[i]
             below == IF node.ignore THEN FreeNode(t, node.is0) ELSE FreeNode(FreeNode(t, node.is0), node.is1)
         IN  FreeEntry(below, i)

RECURSIVE DeepCloneNode(_, _)
DeepCloneNode(t, i) ==
    IF ~IsIndex(i) THEN [tree |-> t, index |-> i]
    ELSE LET node == t.entries[i]
             c0 == DeepCloneNode(t, node.is0)
             c1 == IF node.ignore THEN c0 ELSE DeepCloneNode(c0.tree, node.is1)
         IN  NewNode(c1.tree, IF node.ignore THEN Ignore(c0.index) ELSE Branch(c0.index, c1.index))

(* node_to_index, for the child of entry i at bit b (both bits of an       *)
(* Ignore): Enumerate becomes a node of its own; Skip has no index.        *)
NodeToIndex(t, i, b) ==
    LET node == t.entries[i]
        new == NewNode(t, Ignore(Enumerate))
    IN  CASE Child(node, b) = Enumerate -> [index |-> new.index,
                                            tree |-> IF node.ignore THEN SetEntry(new.tree, i, Ignore(new.index))
                                                                    ELSE SetChild(new.tree, i, b, new.index)]
          [] Child(node, b) = Skip -> [tree |-> t, index |-> NoIndex]
          [] OTHER -> [tree |-> t, index |-> Child(node, b)]

RealLen(f) == LET fixed == {n \in 1..BitLen(f) : BitAt(f, n) # Wildcard}
              IN  IF fixed = {} THEN 1 ELSE CHOOSE n \in fixed : \A m \in fixed : m <= n

(* Fault: the nodes that are cut off are not freed. *)
CutOffUnfreed(t, cur, bit) ==
    LET node == t.entries[cur]
    IN  CASE bit = Wildcard -> [tree |-> SetEntry(t, cur, Ignore(Skip)), modified |-> TRUE]
          [] bit # Wildcard /\ node.ignore ->
                [tree |-> SetEntry(t, cur, IF bit = 0 THEN Branch(Skip, node.is0) ELSE Branch(node.is0, Skip)),
                 modified |-> TRUE]
          [] OTHER -> [tree |-> SetChild(t, cur, bit, Skip), modified |-> TRUE]

(* The last bit of the filter that counts: what is below it is skipped. *)
CutOff(t, cur, bit) ==
    LET node == t.entries[cur]
        freed == IF node.ignore THEN FreeNode(t, node.is0) ELSE FreeNode(FreeNode(t, node.is0), node.is1)
    IN  CASE bit = Wildcard /\ node.ignore /\ node.is0 = Skip -> [tree |-> t, modified |-> FALSE]
          [] bit = Wildcard /\ ~(node.ignore /\ node.is0 = Skip) ->
                [tree |-> SetEntry(freed, cur, Ignore(Skip)), modified |-> TRUE]
          [] bit # Wildcard /\ node.ignore ->
                [tree |-> SetEntry(t, cur, IF bit = 0 THEN Branch(Skip, node.is0) ELSE Branch(node.is0, Skip)),
                 modified |-> TRUE]
          [] bit # Wildcard /\ ~node.ignore /\ Child(node, bit) # Skip ->
                [tree |-> SetChild(FreeNode(t, Child(node, bit)), cur, bit, Skip), modified |-> TRUE]
          [] OTHER -> [tree |-> t, modified |-> FALSE]

(* add_internal, from bit n of the filter at entry cur. *)
RECURSIVE AddInternal(_, _, _, _)
AddBelow(t, cur, f, n, b) ==
    LET next == NodeToIndex(t, cur, b)
    IN  IF next.index = NoIndex THEN [tree |-> next.tree, modified |-> FALSE]
        ELSE AddInternal(next.tree, next.index, f, n + 1)
AddInternal(t, cur, f, n) ==
    LET node == t.entries[cur]
        bit == BitAt(f, n)
        clone == DeepCloneNode(t, node.is0)
        both == AddBelow(t, cur, f, n, 0)
        other == AddBelow(both.tree, cur, f, n, 1)
    IN  CASE n = RealLen(f) -> CutOff(t, cur, bit)
          [] n # RealLen(f) /\ bit # Wildcard /\ ~node.ignore -> AddBelow(t, cur, f, n, bit)
          [] n # RealLen(f) /\ bit # Wildcard /\ node.ignore ->
                [AddBelow(SetEntry(clone.tree, cur, Branch(node.is0, clone.index)), cur, f, n, bit)
                   EXCEPT !.modified = TRUE]
          [] n # RealLen(f) /\ bit = Wildcard /\ ~node.ignore ->
                [tree |-> other.tree, modified |-> both.modified \/ other.modified]
          [] OTHER -> AddBelow(t, cur, f, n, 0)

(* NodeRef equality within one tree: the same leaf, or entries that are    *)
(* equal as they stand.                                                    *)
SameNode(t, i, j) == IF IsIndex(i) /\ IsIndex(j) THEN t.entries[i] = t.entries[j] ELSE i = j

(* optimize, along the paths the filter matches: returns the changed tree  *)
(* and the leaf that takes the place of entry cur, if any.                 *)
RECURSIVE Optimize(_, _, _, _)
Optimize(t, cur, f, n) ==
    IF ~IsIndex(cur) THEN [tree |-> t, index |-> cur]
    ELSE LET node == t.entries[cur]
             Go(u, i, b) == IF BitAt(f, n) \in {b, Wildcard} THEN Optimize(u, i, f, n + 1)
                                                              ELSE [tree |-> u, index |-> NoIndex]
             o0 == Go(t, node.is0, 0)
             o1 == Go(o0.tree, node.is1, 1)
             i0 == IF o0.index = NoIndex THEN node.is0 ELSE o0.index
             i1 == IF o1.index = NoIndex THEN node.is1 ELSE o1.index
             joined == SetEntry(o1.tree, cur, Branch(i0, i1))
             next == Optimize(t, node.is0, f, n + 1)
         IN  IF node.ignore
             THEN IF next.index = NoIndex THEN next
                  ELSE [tree |-> FreeEntry(next.tree, cur), index |-> next.index]
             ELSE IF ~SameNode(joined, i0, i1) THEN [tree |-> joined, index |-> NoIndex]
             ELSE IF IsIndex(i0)
             THEN [tree |-> FreeNode(SetEntry(joined, cur, Ignore(i0)), i1), index |-> NoIndex]
             ELSE [tree |-> FreeEntry(joined, cur), index |-> i0]

(* filter *)
Filtered(t, f) ==
    LET a == AddInternal(t, Root, f, 1)
        o == Optimize(a.tree, Root, f, 1)
    IN  IF ~a.modified THEN a.tree
        ELSE IF o.index = NoIndex THEN o.tree ELSE [entries |-> <<Ignore(o.index)>>, empty |-> << >>]

(* prune: the first subtree off the path of instr becomes Enumerate, from  *)
(* bit n of the instruction at index cur.                                  *)
RECURSIVE PrunedFrom(_, _, _, _)
PrunedFrom(t, cur, instr, n) ==
    IF n > BitLen(instr) \/ ~IsIndex(cur) THEN t
    ELSE LET node == t.entries[cur]
             bit == BitAt(instr, n)
             off == Child(node, 1 - bit)
         IN  IF node.ignore \/ ~IsIndex(off) THEN PrunedFrom(t, Child(node, bit), instr, n + 1)
             ELSE FreeNode(SetChild(t, cur, 1 - bit, Enumerate), off)
Pruned(t, instr) == PrunedFrom(t, Root, instr, 1)

(* filter_below and filter_above: a filter for each bit of instr at which  *)
(* a smaller (larger) instruction can part from it.                        *)
PartsAt(instr, n) == [k \in DOMAIN instr |-> [i \in Bits |->
                        LET m == (k - 1) * BitsPerByte + i
                        IN  IF m < n THEN instr[k][i] ELSE IF m = n THEN 1 - instr[k][i] ELSE Wildcard]]
RECURSIVE FilteredAt(_, _, _, _)
FilteredAt(t, instr, bit, n) ==
    IF n = 0 THEN t
    ELSE FilteredAt(IF BitAt(instr, n) = bit THEN Filtered(t, PartsAt(instr, n)) ELSE t, instr, bit, n - 1)
FilteredBelow(t, instr) == FilteredAt(t, instr, 1, BitLen(instr))
FilteredAbove(t, instr) == FilteredAt(t, instr, 0, BitLen(instr))

(* find_next_internal: is there an instruction below index i that agrees   *)
(* with path up to bit n, does not come before it and is not skipped?  The *)
(* path is changed to it.                                                  *)
Extend(path) == Append(path, [i \in Bits |-> 0])
Resize(path, len) == SubSeq(path, 1, len)
ZeroFrom(path, n) == [k \in DOMAIN path |-> [i \in Bits |-> IF (k - 1) * BitsPerByte + i >= n THEN 0 ELSE path[k][i]]]

RECURSIVE FindNextFrom(_, _, _, _)
FindNextFrom(t, i, n, start) ==
    CASE i = Enumerate -> [found |-> TRUE, path |-> start]
      [] i = Skip -> [found |-> FALSE, path |-> ZeroFrom(start, n)]
      [] OTHER ->
         LET node == t.entries[i]
             path == IF n > BitLen(start) THEN Extend(start) ELSE start
             Set(p, b) == Resize(SetBit(p, n, b), ByteOf(n))
             first == FindNextFrom(t, node.is0, n + 1, path)
             tried == IF node.ignore \/ BitAt(path, n) = 0 THEN first ELSE [found |-> FALSE, path |-> path]
             raised == IF BitAt(tried.path, n) = 0 THEN Set(tried.path, 1) ELSE tried.path
             second == FindNextFrom(t, node.is1, n + 1, raised)
         IN  IF tried.found THEN tried
             ELSE IF node.ignore /\ BitAt(tried.path, n) = 1
             THEN [found |-> FALSE, path |-> Set(tried.path, 0)]
             ELSE IF second.found THEN second
             ELSE [found |-> FALSE, path |-> Set(second.path, 0)]
FindNext(t, instr) == LET r == FindNextFrom(t, Root, 1, instr) IN IF r.found THEN {r.path} ELSE {}

(* covers_internal, from bit n of the filter at index i. *)
RECURSIVE CoversFrom(_, _, _, _)
CoversFrom(t, i, f, n) ==
    CASE i = Enumerate -> FALSE
      [] i = Skip -> TRUE
      [] OTHER ->
         LET node == t.entries[i]
             bit == BitAt(f, n)
         IN  /\ n <= RealLen(f)
             /\ IF ~node.ignore /\ bit = Wildcard
                THEN IF node.is0 = Skip THEN TRUE
                     ELSE CoversFrom(t, node.is0, f, n + 1) /\ CoversFrom(t, node.is1, f, n + 1)
                ELSE CoversFrom(t, Child(node, IF bit = 1 THEN 1 ELSE 0), f, n + 1)
TreeCovers(t, f) == CoversFrom(t, Root, f, 1)
=============================================================================
