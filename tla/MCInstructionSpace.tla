------------------------- MODULE MCInstructionSpace -------------------------
(***************************************************************************)
(* The data structures of instruction space and the search in it, each on  *)
(* its own small instance: the part says which one a behaviour is about.   *)
(*   "pair"     every pair of filters                                      *)
(*   "list"     a FilterList that filters are added to                     *)
(*   "map"      a FilterMap that filters are added to                      *)
(*   "tree"     a FilterTree under the operations the counter applies      *)
(*   "counter"  an InstructionCounter whose filters grow                   *)
(*   "range"    every range that random strings are drawn from             *)
(*   "search"   the random search for a valid instruction                  *)
(* and those of MCSearch.                                                  *)
(***************************************************************************)
EXTENDS InstructionCounter, FilterMap, MCRandomSearch, MCSearch

CONSTANTS MaxBytes,     \* the longest filter
          MaxAdds,      \* bound: filters added
          Delay         \* tunnel_delay

ASSUME MCAssumption == /\ MaxBytes \in Nat /\ MaxBytes < DataLen /\ MaxAdds \in Nat /\ Delay \in Nat
                       /\ TreeLimit > MaxBytes * BitsPerByte   \* or pruning could not end

VARIABLES filters,  \* the pair, the list, the map or the filters of the counter
          added,    \* what was added to it
          steps,    \* operations on the tree
          tree, pruned,
          counter,
          left,     \* what the last operation of the counter returned
          from,     \* where the counter was when it last applied the filters
          op        \* the last operation of the counter

counterVars == <<counter, left, from, op>>
treeVars == <<tree, pruned, steps>>
spaceVars == <<filters, added, treeVars, counterVars, searchVars>>
vars == <<part, spaceVars, coverVars>>

Zero2 == <<0, 0>>
Wild2 == <<Wildcard, Wildcard>>
AllFilters == UNION {[1..n -> ByteFilters] : n \in 1..MaxBytes}
OfLength(n) == [1..n -> Bytes]
Whole == OfLength(MaxBytes)
AllInstructions == UNION {OfLength(n) : n \in 1..(MaxBytes + 1)}

(* The filters that are added to a list, a map, a tree and to the filters  *)
(* of a counter; the points a tree is cut off and pruned at; where a       *)
(* counter starts and ends.                                                *)
OneByte == {<<b>> : b \in ByteFilters}
ListFilters == OneByte \union {<<a, b>> : a \in {Zero2, <<0, Wildcard>>, Wild2}, b \in ByteFilters}
MapFilters  == LET firsts == {Zero2, <<0, Wildcard>>, <<Wildcard, 1>>, <<1, 0>>, Wild2}
               IN  {<<b>> : b \in firsts} \union {<<b, c>> : b \in firsts, c \in {Zero2, <<1, Wildcard>>}}
TreeFilters == {<<b>> : b \in {<<0, 1>>, <<1, Wildcard>>, <<Wildcard, 0>>, Wild2}} \union
               {<<a, b>> : a \in {Zero2, <<1, Wildcard>>, <<Wildcard, 0>>, Wild2},
                           b \in {Zero2, <<1, 1>>, <<0, Wildcard>>, <<Wildcard, 1>>}}
CounterFilters == {<<<<0, Wildcard>>>>, <<<<Wildcard, 1>>>>, <<Zero2, Zero2>>, <<<<Wildcard, 0>>, <<1, Wildcard>>>>,
                   <<<<1, 1>>, Wild2>>, <<<<0, Wildcard>>, <<Wildcard, 1>>>>, <<<<1, 0>>, <<0, Wildcard>>>>}
Points == {<<<<0, 1>>>>, <<<<0, 1>>, <<1, 0>>>>, <<<<1, 0>>, <<0, 1>>>>}
CounterStarts == {<<Zero2>>, <<<<0, 1>>, <<0, 1>>>>}
CounterEnds == {NoEnd, <<<<1, 0>>>>, <<<<1, 0>>, <<0, 1>>>>}
Data == {1, 2}

-----------------------------------------------------------------------------
NoTreeInit == tree = NewTree /\ pruned = FALSE /\ steps = 0
NoCounter == counter = CounterRange(<<Zero2>>, NoEnd) /\ left = TRUE /\ from = <<Zero2>> /\ op = "range"

SpaceInit ==
    /\ NoTreeInit /\ NoCover /\ input = {}
    /\ \/ /\ part = "pair" /\ filters \in {<<f, f>> : f \in AllFilters} /\ added = {} /\ NoCounter /\ NoSearch
       \/ /\ part \in {"list", "tree"} /\ filters = << >> /\ added = {} /\ NoCounter /\ NoSearch
       \/ /\ part = "map" /\ filters = EmptyMap(MaxBytes) /\ added = << >> /\ NoCounter /\ NoSearch
       \/ /\ part = "counter" /\ filters = << >> /\ added = {} /\ NoSearch
          /\ \E s \in CounterStarts, e \in CounterEnds : counter = CounterRange(s, e)
          /\ left = TRUE /\ from = Current(counter) /\ op = "range"
       \/ /\ part = "range" /\ filters = << >> /\ added = {} /\ NoCounter /\ PairInit
       \/ /\ part = "search" /\ filters = << >> /\ added = {} /\ NoCounter /\ SearchInit
MCInit == \/ SpaceInit
          \/ CoverInit /\ NoTreeInit /\ filters = << >> /\ added = {} /\ NoCounter /\ NoSearch

(* The second filter of a pair. *)
Pair == /\ part = "pair" /\ filters[1] = filters[2]
        /\ \E g \in AllFilters : filters' = <<filters[1], g>>
        /\ UNCHANGED <<added, treeVars, counterVars, searchVars>>

ListAdd(f) == /\ part = "list" /\ Cardinality(added) < MaxAdds /\ added' = added \union {f}
              /\ filters' \in {Add(filters, f), AddNoMerge(filters, f)}
              /\ UNCHANGED <<treeVars, counterVars, searchVars>>

MapAdds(f, d) == /\ part = "map" /\ Len(added) < MaxAdds /\ added' = Append(added, <<f, d>>)
                 /\ filters' = MapAdd(filters, f, d)
                 /\ UNCHANGED <<treeVars, counterVars, searchVars>>

(* The operations of a tree; new are the instructions it is told to filter.*)
Operable == part = "tree" /\ steps < MaxAdds
TreeStep(new, t, prune) ==
    /\ steps' = steps + 1
    /\ tree' = t /\ added' = added \union new /\ pruned' = (pruned \/ prune)
    /\ UNCHANGED <<filters, counterVars, searchVars>>
TreeFilter(f) == Operable /\ \E t \in {Filtered(tree, f)} : TreeStep({i \in Whole : Matches(f, i)}, t, FALSE)
Below(p) == Operable /\ \E t \in {FilteredBelow(tree, p)} : TreeStep({i \in Whole : Less(Resize(i, Len(p)), p)}, t, FALSE)
Above(p) == Operable /\ \E t \in {FilteredAbove(tree, p)} : TreeStep({i \in Whole : Less(p, Resize(i, Len(p)))}, t, FALSE)
Prune(p) == Operable /\ \E t \in {Pruned(tree, p)} : TreeStep({}, t, TRUE)

(* The operations of a counter and the filters they apply: a filter is     *)
(* found, or the counter is extended, reduced or tunnels.                  *)
CounterOps ==
    {[op |-> "apply", filters |-> Add(filters, f), move |-> ToFilter(counter)] :
        f \in IF Len(filters) < MaxAdds THEN CounterFilters ELSE {}} \union
    (IF ~left THEN {}
     ELSE {[op |-> "extend", filters |-> filters, move |-> ExtendBy(counter, fast)] :
              fast \in IF counter.len < MaxBytes THEN BOOLEAN ELSE {}} \union
          {[op |-> "reduce", filters |-> filters, move |-> Reduce(counter, fast)] :
              fast \in IF counter.len > 1 THEN BOOLEAN ELSE {}} \union
          {[op |-> "tunnel", filters |-> filters, move |-> TunnelNext(counter, Delay)] :
              x \in {n \in {counter.numTunneled} : n < Delay + 1}})

Counts ==
    /\ part = "counter"
    /\ \E o \in CounterOps :
          \E r \in {IF o.move.ok THEN ApplyFilters(o.move.c, o.filters, o.move.wasReduced) ELSE o.move} :
              /\ filters' = o.filters /\ op' = o.op /\ from' = Current(o.move.c)
              /\ counter' = r.c /\ left' = r.ok
    /\ UNCHANGED <<added, treeVars, searchVars>>

TunnelsUnfiltered ==
    /\ part = "counter" /\ left
    /\ \E r \in {TunnelNextIgnoreFilters(counter)} : counter' = r.c /\ left' = r.ok /\ from' = Current(r.c)
    /\ op' = "ignore"
    /\ UNCHANGED <<filters, added, treeVars, searchVars>>

Searches == part = "search" /\ SearchNext /\ UNCHANGED <<filters, added, treeVars, counterVars>>

SpaceNext ==
    /\ UNCHANGED <<part, coverVars>>
    /\ \/ Pair
       \/ \E f \in ListFilters : ListAdd(f)
       \/ \E f \in MapFilters, d \in Data : MapAdds(f, d)
       \/ \E f \in TreeFilters : TreeFilter(f)
       \/ \E p \in Points : Below(p) \/ Above(p) \/ Prune(p)
       \/ Counts \/ TunnelsUnfiltered
       \/ Searches

MCNext == SpaceNext \/ (CoverNext /\ UNCHANGED spaceVars)

MCSpec == MCInit /\ [][MCNext]_vars

-----------------------------------------------------------------------------
f1 == filters[1]
f2 == filters[2]

(* covers says of two filters that all instructions that match the other   *)
(* match self; of filters that are no longer than the other one, it says   *)
(* so whenever it is the case.                                             *)
CoversIsSubset == part = "pair" =>
    LET subset == \A i \in AllInstructions : Matches(f2, i) => Matches(f1, i)
    IN  /\ Covers(f1, f2) => subset
        /\ subset /\ Len(f1) <= Len(f2) => Covers(f1, f2)

(* overlaps says that there is an instruction both filters match; the      *)
(* intersection of two filters of the same length matches these.           *)
OverlapIsCommon == part = "pair" =>
    /\ Overlaps(f1, f2) <=> \E i \in AllInstructions : Matches(f1, i) /\ Matches(f2, i)
    /\ Len(f1) = Len(f2) /\ Overlaps(f1, f2) =>
          \A i \in AllInstructions : Matches(Intersect(f1, f2), i) <=> Matches(f1, i) /\ Matches(f2, i)

(* What try_merge makes of two filters matches exactly the instructions    *)
(* one of them matches, and what try_exclude makes of them those that the  *)
(* first matches and the second does not, when the instructions have all   *)
(* bytes of the filter.                                                    *)
MergeIsUnion == part = "pair" =>
    \A m \in TryMerge(f1, f2), i \in AllInstructions :
        Len(i) >= Len(m) => (Matches(m, i) <=> Matches(f1, i) \/ Matches(f2, i))
ExcludeIsDifference == part = "pair" =>
    \A m \in TryExclude(f1, f2), i \in AllInstructions :
        Len(i) >= Len(m) => (Matches(m, i) <=> Matches(f1, i) /\ ~Matches(f2, i))

(* next_matching_instruction finds the first instruction, of the filter's  *)
(* length, that matches and does not come before instr; the two loops over *)
(* its bits never stop at one that comes before it.                        *)
NextIsFirst == part = "pair" /\ f1 = f2 =>
    \A instr \in AllInstructions :
        LET after == {i \in OfLength(Len(f1)) : Matches(f1, i) /\ AtMost(instr, i)}
        IN  NextMatching(f1, instr) = {i \in after : \A j \in after : AtMost(i, j)}

(* The operations on filters are those on the sets of instructions they    *)
(* match.                                                                  *)
FiltersAreSets == CoversIsSubset /\ OverlapIsCommon /\ MergeIsUnion /\ ExcludeIsDifference /\ NextIsFirst

-----------------------------------------------------------------------------
(* The list matches exactly the instructions that one of the filters added *)
(* to it matches, whatever was merged, replaced or dropped on the way.  It *)
(* matches a shorter instruction only when it matches everything that      *)
(* starts with it.                                                         *)
ListIsUnion == part = "list" =>
    /\ \A i \in Whole : MatchingFilter(filters, i) # {} <=> \E f \in added : Matches(f, i)
    /\ \A i \in OfLength(1) : MatchingFilter(filters, i) # {} =>
          \A b \in Bytes : \E f \in added : Matches(f, i \o <<b>>)

(* An instruction that is a part of some matched instruction, but not of   *)
(* matched ones only, is one the counter is told to extend.                *)
PartialIsExtended == part = "list" =>
    \A i \in OfLength(1) : (\E b \in Bytes : MatchingFilter(filters, i \o <<b>>) # {}) =>
        ShouldExtend(filters, i) \/ MatchingFilter(filters, i) # {}

AddedMatch(instr) == {n \in DOMAIN added : Len(added[n][1]) = Len(instr) /\ Matches(added[n][1], instr)}

(* A lookup finds the data of the filter of the instruction's length that  *)
(* was added first, and finds something whenever there is one: the buckets *)
(* hide no filter and show none that does not match.                       *)
LookupIsFirstAdded == part = "map" =>
    \A len \in 1..MaxBytes : \A instr \in OfLength(len) :
        LET found == AddedMatch(instr)
        IN  Lookup(filters, instr) = {added[n][2] : n \in {m \in found : \A o \in found : m <= o}}

(* Lists and maps of filters answer for what was added to them, whatever   *)
(* was merged, replaced or put into which bucket.                          *)
ListsKeepAll == ListIsUnion /\ PartialIsExtended /\ LookupIsFirstAdded

-----------------------------------------------------------------------------
RECURSIVE Leaf(_, _, _)
Leaf(instr, i, n) == IF IsIndex(i) THEN Leaf(instr, Child(tree.entries[i], BitAt(instr, n)), n + 1) ELSE i

(* The tree skips exactly the instructions it was told to filter; pruning  *)
(* it only makes it forget some.                                           *)
SkipsFiltered == part = "tree" =>
    \A instr \in Whole : LET skips == Leaf(instr, Root, 1) = Skip
                         IN  /\ skips => instr \in added
                             /\ ~pruned => (instr \in added => skips)

RECURSIVE Reached(_)
Reached(i) == IF ~IsIndex(i) THEN << >>
              ELSE <<i>> \o Reached(tree.entries[i].is0)
                         \o (IF tree.entries[i].ignore THEN << >> ELSE Reached(tree.entries[i].is1))

(* Every entry of the vector is a node of the tree, once, or on the free   *)
(* list, once: no node is freed while it is in use, none is shared, none   *)
(* is lost.                                                                *)
EntriesAccounted == part = "tree" =>
    LET all == Reached(Root) \o tree.empty
    IN  /\ Len(all) = Len(tree.entries)
        /\ \A i \in DOMAIN tree.entries : \E n \in DOMAIN all : all[n] = i

Padded(instr) == [k \in 1..MaxBytes |-> IF k \in DOMAIN instr THEN instr[k] ELSE Zero]

(* find_next returns the first instruction, from the given one on, that is *)
(* not filtered, and none when all the following ones are.                 *)
FindsFirst == part = "tree" /\ ~pruned =>
    \A instr \in OfLength(1) \union OfLength(2) :
        LET free == {i \in Whole : AtMost(instr, i) /\ i \notin added}
        IN  {Padded(i) : i \in FindNext(tree, instr)} = {i \in free : \A j \in free : AtMost(i, j)}

(* The tree of a counter, after any operations on it: what it skips, what  *)
(* it finds, and the bookkeeping of its entries.                           *)
TreeIsFaithful == SkipsFiltered /\ EntriesAccounted /\ FindsFirst

-----------------------------------------------------------------------------
IsFiltered(instr) == \E n \in DOMAIN filters : Matches(filters[n], instr)
Exhausted == \A k \in 1..DataLen : counter.data[k] = Ones

(* "The current instruction is advanced to the first (lexicographically)   *)
(* instruction after the current instruction, which does not match any of  *)
(* the filters": it passes over filtered instructions only, and stops only *)
(* when all that are left, up to the end, are filtered.                    *)
FirstUnfiltered ==
    op \in {"apply", "extend", "reduce", "tunnel"} /\ ~Exhausted =>
        /\ left => /\ ~IsFiltered(Current(counter)) /\ InRange(counter)
                   /\ \A w \in Whole : AtMost(from, w) /\ Less(w, Padded(Current(counter))) => IsFiltered(w)
        /\ ~left => \A w \in Whole : AtMost(from, w) /\ (counter.end # NoEnd => AtMost(w, counter.end)) => IsFiltered(w)
=============================================================================
