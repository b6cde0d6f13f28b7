---------------------------- MODULE FilterCover ----------------------------
(***************************************************************************)
(* The choice of a minimum set of encodings that covers what all encodings *)
(* cover: liblisa/src/encoding/mcs.rs splits the encodings into groups     *)
(* that do not overlap, and MinimumCoveringFilterSet (instr/filter_mcs.rs) *)
(* looks for a few instructions in each group that tell a covering set     *)
(* from others, and leaves the choice to MinimumCoveringSet.               *)
(*                                                                         *)
(* An item is the set of its filters; item lists are sequences.            *)
(***************************************************************************)
EXTENDS CoveringSets, UncoveredInstr

FiltersOf(items) == UNION Range(items)
Unique(s) == FoldLeft(LAMBDA acc, x : IF x \in Range(acc) THEN acc ELSE Append(acc, x), <<>>, s)

(* find_uncovered_instr, for a set of filters in some order. *)
UncoveredIn(filter, covering) == FindUncoveredInstr(filter, InOrder(covering, Less))

CoveredByItem(item, other) == \A f \in item : \E g \in other : Covers(g, f)

(* The items taken: one stays out when another covers it, and the first    *)
(* that does is taken.                                                     *)
Taken(items) ==
    LET covering(k) == {j \in DOMAIN items \ {k} : CoveredByItem(items[k], items[j])}
        after[k \in 0..Len(items)] ==
            IF k = 0 THEN {}
            ELSE LET take == after[k - 1]
                 IN  IF k \in take THEN take ELSE take \union {IF covering(k) = {} THEN k ELSE Min(covering(k))}
        indices == InOrder(after[Len(items)], <)
    IN  [n \in DOMAIN indices |-> items[indices[n]]]

(* What is left of each item within filter: items that no longer overlap   *)
(* it go, and so do repeated ones.                                         *)
Within(filter, items) ==
    LET inside(item) == {Intersect(filter, f) : f \in {g \in item : Overlaps(filter, g)}}
    IN  Unique(SelectSeq([n \in DOMAIN items |-> inside(items[n])], LAMBDA item : item # {}))

(* The filters of a list of items, each with the number of its item. *)
Numbered(items) == FlattenSeq([n \in DOMAIN items |->
                       LET fs == InOrder(items[n], Less) IN [k \in DOMAIN fs |-> [item |-> n, filter |-> fs[k]]]])

(* What of the later items lies within here, but is not all of it, and is  *)
(* not excluded.                                                           *)
Deeper(here, items, excluded) ==
    SelectSeq(Within(here, items), LAMBDA item : here \notin item /\ \E f \in item : UncoveredIn(f, excluded) # {})

(* find_intersections3: instructions in the intersections of current with  *)
(* the items, one filter after the other. What earlier intersections hold  *)
(* is excluded from the later ones.                                        *)
RECURSIVE FindIntersections(_, _, _, _)
InIntersection(here, later, prechosen, excluded) ==
    UncoveredIn(here, FiltersOf(later) \union excluded)
    \union (IF later = <<>> \/ UncoveredIn(here, excluded) = {} THEN {}
             ELSE FindIntersections(here, later, prechosen, excluded))
FindIntersections(current, items, prechosen, excluded) ==
    LET step(acc, p) ==
            LET here == Intersect(current, p.filter)
            IN  IF here = current
                THEN [acc EXCEPT !.found = @ \union UncoveredIn(here, prechosen)]
                ELSE [excluded |-> acc.excluded \union {here},
                      found |-> acc.found \union
                          InIntersection(here, Deeper(here, SubSeq(items, p.item + 1, Len(items)), acc.excluded),
                                         prechosen, acc.excluded)]
    IN  FoldLeft(step, [excluded |-> excluded, found |-> {}], Numbered(items)).found

(* An instruction that only this filter covers, or those in its            *)
(* intersections with the other items.                                     *)
InstrsOf(matching, overlapping, prechosen, acc) ==
    LET unique == UncoveredIn(matching, FiltersOf(overlapping) \union acc.excluded)
        exclusions == {Intersect(matching, f) : f \in {g \in acc.excluded : Overlaps(g, matching)}}
    IN  IF unique # {} THEN [acc EXCEPT !.found = @ \union unique]
        ELSE [excluded |-> acc.excluded \union {matching},
              found |-> acc.found \union FindIntersections(matching, overlapping, prechosen, exclusions)]

(* new: the instructions that a covering set must cover. *)
CoveringInstrs(items, prechosen) ==
    LET lists == Unique(items)
        step(acc, p) ==
            IF p.filter \in acc.excluded \/ UncoveredIn(p.filter, acc.excluded) = {} THEN acc
            ELSE InstrsOf(p.filter, Within(p.filter, RemoveAt(lists, p.item)), prechosen, acc)
    IN  FoldLeft(step, [excluded |-> prechosen, found |-> {}], Numbered(lists)).found

ItemMatches(item, instr) == \E f \in item : Matches(f, instr)

(* find_minimum_covering_group_indexes: a decision for every instruction. *)
Decisions(items, instrs) == {{n \in DOMAIN items : ItemMatches(items[n], i)} : i \in instrs}
SmallestCover(decisions) == MinimumCoveringSet(decisions, Max(CoveringSetSizes(decisions, FALSE)))
CoveringItems(items, prechosen) ==
    LET taken == Taken(items)
    IN  {taken[n] : n \in SmallestCover(Decisions(taken, CoveringInstrs(taken, prechosen)))}

(* The two assertions of new. *)
InstrsAreNew(items, prechosen) ==
    \A i \in CoveringInstrs(Taken(items), prechosen) : \A f \in prechosen : ~Matches(f, i)
EveryItemMet(items, prechosen) ==
    LET taken == Taken(items)
        instrs == CoveringInstrs(taken, prechosen)
    IN  \A n \in DOMAIN taken : (\E f \in taken[n] : UncoveredIn(f, prechosen) # {})
                                    => \E i \in instrs : ItemMatches(taken[n], i)

-----------------------------------------------------------------------------
(***************************************************************************)
(* encoding/mcs.rs. An encoding here is its bits (what is fixed in all     *)
(* instructions, Wildcard for a part) and its filters.                     *)
(***************************************************************************)

(* Split::by_fixed_bits: encodings that differ in a bit that is fixed in   *)
(* all of them are apart.                                                  *)
ByFixedBits(group) ==
    LET mask == {n \in 1..BitLen(group[1].bits) : \A k \in DOMAIN group : BitAt(group[k].bits, n) # Wildcard}
        key(e) == [n \in mask |-> BitAt(e.bits, n)]
    IN  {SelectSeq(group, LAMBDA e : key(e) = k) : k \in {key(group[i]) : i \in DOMAIN group}}

(* split_into_overlapping_groups: what the overlaps connect. *)
OverlappingGroups(group) ==
    LET linked(a, b) == a = b \/ \E f \in group[a].filters, g \in group[b].filters : Overlaps(f, g)
        reach[k \in DOMAIN group, S \in SUBSET DOMAIN group] ==
            LET more == {b \in DOMAIN group : \E a \in S : linked(a, b)} IN IF more = S THEN S ELSE reach[k, more]
        masks == {reach[k, {k}] : k \in DOMAIN group}
    IN  {LET indices == InOrder(m, <) IN [n \in DOMAIN indices |-> group[indices[n]]] : m \in masks}

(* split_encodings_into_overlapping_groups: by length, then by fixed bits  *)
(* until (after at most 25 times) nothing changes, then by overlaps.       *)
SplitTimes == 25
RECURSIVE SplitByBits(_, _)
SplitByBits(groups, times) ==
    LET split == UNION {ByFixedBits(g) : g \in groups}
    IN  IF times = 0 \/ split = groups THEN groups ELSE SplitByBits(split, times - 1)
SplitEncodings(encodings) ==
    LET byLength == {SelectSeq(encodings, LAMBDA e : Len(e.bits) = n) : n \in {Len(e.bits) : e \in Range(encodings)}}
    IN  UNION {OverlappingGroups(g) : g \in SplitByBits(byLength, SplitTimes)}

(* choose_encodings: an encoding that covers what no other of its group    *)
(* does is chosen; a minimum covering set of the others, for what is left. *)
ChooseEncodings(group) ==
    LET others(k) == UNION {group[j].filters : j \in DOMAIN group \ {k}}
        pre == {k \in DOMAIN group : \E f \in group[k].filters : UncoveredIn(f, others(k)) # {}}
        rest == InOrder(DOMAIN group \ pre, <)
        items == [n \in DOMAIN rest |-> group[rest[n]].filters]
    IN  {group[k].filters : k \in pre}
        \union (IF rest = <<>> THEN {} ELSE CoveringItems(items, UNION {group[k].filters : k \in pre}))

FilterOverlappingEncodings(encodings) == UNION {ChooseEncodings(g) : g \in SplitEncodings(encodings)}
=============================================================================
