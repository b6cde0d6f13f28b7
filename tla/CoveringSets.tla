---------------------------- MODULE CoveringSets ----------------------------
(***************************************************************************)
(* MinimumCoveringSet (liblisa/src/utils/mcs): the smallest set with a     *)
(* choice from every decision, found by reducing the decisions and then    *)
(* searching breadth first. MinCoverWithExclusions uses it to cover all    *)
(* values of a few bits but some excluded ones with bit patterns.          *)
(*                                                                         *)
(* A decision is the set of the choices it offers. The bitmaps are sets    *)
(* here (Bitmaps.tla is about how they are stored), and the renumbering of *)
(* the choices that are left, which keeps their order, is left out.        *)
(***************************************************************************)
EXTENDS Integers, Sequences, FiniteSets, FiniteSetsExt, SequencesExt

(* The order of the sorted lists of choices: the first difference decides, *)
(* and a prefix comes first.                                               *)
ListedBefore(a, b) ==
    LET first == Min((a \ b) \union (b \ a))
    IN  IF first \in a THEN \E c \in b : c > first ELSE ~\E c \in a : c > first

(* The elements of S in a strict order. *)
InOrder(S, less(_, _)) ==
    SubSeq([k \in 1..Cardinality(S) |-> CHOOSE x \in S : Cardinality({y \in S \ {x} : less(y, x)}) = k - 1],
           1, Cardinality(S))
Sorted(decisions) == InOrder(decisions, ListedBefore)

Dedup(s) == LET kept == {i \in DOMAIN s : i = 1 \/ s[i] # s[i - 1]}
            IN  [k \in 1..Cardinality(kept) |-> s[CHOOSE i \in kept : Cardinality({j \in kept : j <= i}) = k]]

(* From the last to the first, a decision goes that contains another one   *)
(* that is still there.                                                    *)
WithoutSupersets(s) ==
    LET redundant(t, i) == \E j \in DOMAIN t \ {i} : t[j] \subseteq t[i]
        after[i \in 1..(Len(s) + 1)] ==
            IF i = Len(s) + 1 THEN s
            ELSE LET t == after[i + 1] IN IF redundant(t, i) THEN RemoveAt(t, i) ELSE t
    IN  after[1]

(* A choice that only one decision offers is no better than any other      *)
(* choice of that decision.                                                *)
OfferedOnce(s) == {c \in UNION Range(s) : Cardinality({i \in DOMAIN s : c \in s[i]}) = 1}

Cleared(s) == [i \in DOMAIN s |-> IF s[i] \subseteq OfferedOnce(s) THEN {Min(s[i])} ELSE s[i] \ OfferedOnce(s)]

(* One round of the loop of find_best_decisions. *)
Round(r) ==
    LET deduped == Dedup(r.decisions)
        decided == r.decided \union UNION {deduped[i] : i \in {j \in DOMAIN deduped : Cardinality(deduped[j]) = 1}}
        open == SelectSeq(deduped, LAMBDA d : Cardinality(d) # 1)
        smaller == WithoutSupersets(SelectSeq(open, LAMBDA d : d \intersect decided = {}))
    IN  [decisions |-> Cleared(smaller), decided |-> decided,
         modified |-> Len(r.decisions) # Len(open) \/ OfferedOnce(smaller) # {}]

RECURSIVE Rounds(_)
Rounds(r) == IF r.modified THEN Rounds(Round(r)) ELSE r
Reduced(decisions) == Rounds([decisions |-> Sorted(decisions), decided |-> {}, modified |-> TRUE])

-----------------------------------------------------------------------------
(***************************************************************************)
(* Bfs (mcs/bfs.rs). A map is the set of the decisions, by index, that a   *)
(* choice leaves open.                                                     *)
(***************************************************************************)
LeftOpen(s, c) == {i \in DOMAIN s : c \notin s[i]}

(* Bfs::new: a choice that leaves open what an earlier one does is skipped.*)
BfsChoices(s) ==
    LET all == InOrder(UNION Range(s), <)
        after[k \in 0..Len(all)] ==
            IF k = 0 THEN <<>>
            ELSE LET kept == after[k - 1]
                 IN  IF \E j \in DOMAIN kept : LeftOpen(s, kept[j]) \subseteq LeftOpen(s, all[k])
                     THEN kept ELSE Append(kept, all[k])
    IN  after[Len(all)]

(* find_random_solution: the decisions in their order, one of its choices  *)
(* for each that is still open; here, the numbers of choices it can take.  *)
(* Only the last choice of each decision is drawn unless all are asked for.*)
Drawn(d, all) == IF all THEN d ELSE {Max(d)}
RECURSIVE RandomSizes(_, _, _)
RandomSizes(s, chosen, all) ==
    LET open == {i \in DOMAIN s : s[i] \intersect chosen = {}}
    IN  IF open = {} THEN {0}
        ELSE {n + 1 : n \in UNION {RandomSizes(s, chosen \union {c}, all) : c \in Drawn(s[Min(open)], all)}}

(* run_single_decision considers one choice for one entry of the frontier. *)
(* maps[c] is what choice c leaves open, unavailable[c] what no choice from*)
(* c on decides.                                                           *)
Worthwhile(maps, unavailable, entry, explored, c) ==
    LET map == entry.map \intersect maps[c]
    IN  /\ \A j \in DOMAIN entry.path : entry.path[j] < c
        /\ entry.map \intersect unavailable[c] = {}
        /\ ~(entry.map \subseteq maps[c])
        /\ ~\E i \in 1..(c - 1) : (entry.map \intersect maps[i]) \subseteq map
        /\ map \notin explored
        /\ ~\E i \in 1..(c - 1) : map \intersect maps[i] \in explored /\ i \notin Range(entry.path)

Considered(maps, unavailable, level, entry, c) ==
    IF level.found # <<>> \/ ~Worthwhile(maps, unavailable, entry, level.explored, c) THEN level
    ELSE LET map == entry.map \intersect maps[c]
             path == Append(entry.path, c)
         IN  [explored |-> level.explored \union {map},
              found |-> IF map = {} THEN path ELSE <<>>,
              next |-> IF map = {} THEN level.next ELSE Append(level.next, [map |-> map, path |-> path])]

RunSingleDecision(maps, unavailable, frontier, explored) ==
    LET n == Len(maps)
        after[k \in 0..(Len(frontier) * n)] ==
            IF k = 0 THEN [explored |-> explored, found |-> <<>>, next |-> <<>>]
            ELSE Considered(maps, unavailable, after[k - 1], frontier[((k - 1) \div n) + 1], ((k - 1) % n) + 1)
    IN  after[Len(frontier) * n]

(* run_decisions: at most max levels; the path found, or none. *)
RunDecisions(s, max) ==
    LET choices == BfsChoices(s)
        maps == SubSeq([c \in DOMAIN choices |-> LeftOpen(s, choices[c])], 1, Len(choices))
        unavailable == SubSeq([c \in DOMAIN choices |->
                                  {i \in DOMAIN s : \A d \in c..Len(choices) : i \in maps[d]}], 1, Len(choices))
        level[k \in 0..max] ==
            IF k = 0 THEN [explored |-> {}, found |-> <<>>, next |-> <<[map |-> DOMAIN s, path |-> <<>>]>>]
            ELSE LET last == level[k - 1]
                 IN  IF last.found # <<>> THEN last
                     ELSE RunSingleDecision(maps, unavailable, last.next, last.explored)
    IN  {choices[c] : c \in Range(level[max].found)}

(* MinimumCoveringSet::of; size is that of the best random solution. *)
CoveringSetSizes(decisions, all) == RandomSizes(Reduced(decisions).decisions, {}, all)
MinimumCoveringSet(decisions, size) ==
    LET r == Reduced(decisions)
    IN  r.decided \union (IF r.decisions = <<>> THEN {} ELSE RunDecisions(r.decisions, size))

-----------------------------------------------------------------------------
(***************************************************************************)
(* MinCoverWithExclusions. A value is the set of its ones among the bits;  *)
(* a bit filter says which bits are fixed, and which of these are ones.    *)
(***************************************************************************)
FilterMatches(f, value) == value \intersect f.fixed = f.value

(* run_internal: fix one more bit, either way, until no excluded value is  *)
(* left that the filter matches. A filter comes once for every order its   *)
(* bits can be fixed in.                                                   *)
RECURSIVE SplitFilters(_, _, _, _)
SplitFilters(bits, applicable, fixed, value) ==
    IF applicable = {} THEN <<[fixed |-> fixed, value |-> value]>>
    ELSE LET split(i) ==
                 SplitFilters(bits, {e \in applicable : i \in e}, fixed \union {i}, value \union {i})
                 \o SplitFilters(bits, {e \in applicable : i \notin e}, fixed \union {i}, value)
             free == InOrder(bits \ fixed, <)
         IN  FlattenSeq(SubSeq([k \in DOMAIN free |-> split(free[k])], 1, Len(free)))

FilterDecisions(filters, bits, exclude) ==
    {{i \in DOMAIN filters : FilterMatches(filters[i], v)} : v \in (SUBSET bits) \ exclude}

ListedFilters(bits, exclude) ==
    SortSeq(SplitFilters(bits, exclude, {}, {}), LAMBDA f, g : Cardinality(f.fixed) < Cardinality(g.fixed))

(* into_bit_filters *)
BitFilters(bits, exclude, size) ==
    LET filters == ListedFilters(bits, exclude)
    IN  {filters[i] : i \in MinimumCoveringSet(FilterDecisions(filters, bits, exclude), size)}
=============================================================================
