------------------------------ MODULE MCSearch ------------------------------
(***************************************************************************)
(* The bitmaps, checked against the sets of their ones through sequences   *)
(* of operations, and the searches for covering sets, for instructions no  *)
(* filter covers and for covering encodings, each checked against what it  *)
(* is to find, over all small inputs.                                      *)
(***************************************************************************)
EXTENDS Bitmaps, FilterCover

CONSTANTS MaxBits,      \* the longest bitmap
          OperandBits,  \* the longest other operand of a bitmap operation
          NumChoices,   \* choices of a covering set
          MaxDecisions, \* decisions of a covering set
          FilterBits,   \* bits of MinCoverWithExclusions
          MaxExcluded,  \* values it excludes
          MaxCovering,  \* filters an instruction is not to be covered by
          MaxItems,     \* encodings to choose from
          MaxEdges      \* encodings with one free bit

VARIABLES part,   \* which question this behaviour asks
          map,    \* the bitmap
          ones,   \* where its ones are to be
          size,   \* the length it is to have
          input,  \* the input of a search
          result  \* its result

coverVars == <<map, ones, size, input, result>>

-----------------------------------------------------------------------------
(***************************************************************************)
(* Bitmaps                                                                 *)
(***************************************************************************)
Built(S, len) == ExtendBits(EmptyBitmap, [i \in 1..len |-> i - 1 \in S])
Operands == UNION {{[ones |-> S, len |-> len, map |-> Built(S, len)] : S \in SUBSET Low(len)} : len \in 0..OperandBits}
Exact(b) == Len(b.data) = BlocksFor(b.len)
Larger(a, b) == IF a < b THEN b ELSE a
Shifted(S, n) == {i + n : i \in S}

Becomes(b, S, len) == map' = b /\ ones' = S /\ size' = len /\ UNCHANGED <<part, input, result>>

Fresh == \E n \in 0..MaxBits : \/ Becomes(NewAllOnes(n), Low(n), n)
                               \/ Becomes(NewAllZeros(n), {}, n)
SetOne == \E n \in 0..(MaxBits - 1) : Becomes(SetBitAt(map, n), ones \union {n}, Larger(size, n + 1))
ResetOne == \E n \in 0..(MaxBits - 1) : Becomes(ResetBit(map, n), ones \ {n}, Larger(size, n + 1))
TakeOne == \E n \in 0..(MaxBits - 1) : Becomes(GetThenReset(map, n), ones \ {n}, size)
AppendOther == \E o \in Operands :
    /\ size + o.len <= MaxBits
    /\ Becomes(ExtendBits(map, IterBits(o.map)), ones \union Shifted(o.ones, size), size + o.len)
RemoveOne == \E n \in 0..(size - 1) :
    Becomes(RemoveBit(map, n), {i \in ones : i < n} \union {i - 1 : i \in {j \in ones : j > n}}, size - 1)
RemoveSome == \E n \in 0..size : Becomes(RemoveFront(map, n), {i - n : i \in {j \in ones : j >= n}}, size - n)
ResizeTo == \E n \in 0..MaxBits : Becomes(ResizeBits(map, n), ones \intersect Low(n), n)
AndOther == \E o \in Operands : Becomes(AndWith(map, o.map.data), ones \intersect o.ones, size)
OrOther == \E o \in Operands :
    o.len <= size /\ Becomes(OrWith(map, o.map.data), ones \union o.ones, size)
OrAssignOther == \E o \in Operands : Becomes(BitOrAssign(map, o.map), ones \union o.ones, Larger(size, o.len))
ClearOther == \E o \in Operands : Becomes(ClearFrom(map, o.map.data), ones \ o.ones, size)
Empty == Becomes(SetAllZero(map), {}, size)
Fill == Exact(map) /\ Becomes(FillWithOnes(map), Low(size), size)
ChangeRange == \E start \in 0..size : \E end \in start..size :
    LET inside == start..(end - 1) IN
    \/ Becomes(RangeClear(map, start, end), ones \ inside, size)
    \/ \E o \in Operands :
          /\ o.len = end - start
          /\ \/ Becomes(RangeCopyFrom(map, start, end, o.map.data), (ones \ inside) \union Shifted(o.ones, start), size)
             \/ Becomes(RangeOrWith(map, start, end, o.map.data), ones \union Shifted(o.ones, start), size)
             \/ Becomes(RangeClearFrom(map, start, end, o.map.data), ones \ Shifted(o.ones, start), size)

BitmapStep ==
    /\ part = "bitmap"
    /\ \/ Fresh \/ Empty \/ SetOne \/ ResetOne \/ TakeOne \/ AppendOther \/ RemoveOne \/ RemoveSome \/ ResizeTo
       \/ AndOther \/ OrOther \/ OrAssignOther \/ ClearOther \/ Fill \/ ChangeRange

IsMapOf(b, S, len) == b.len = len /\ BlocksFor(len) <= Len(b.data) /\ IterOneIndices(b.data) = S
FirstOf(S, start) == LET from == {i \in S : i >= start} IN IF from = {} THEN None ELSE Min(from)

(* A fixed bitmap made from the bitmap, and one made from another operand. *)
FixedBlocks == BlocksFor(MaxBits)
FixedAgree(o) ==
    LET all == Low(FixedBlocks * BlockBits)
        others == FixedFromBitmap(o.map, FixedBlocks)
    IN  \A f \in FixedFromBitmap(map, FixedBlocks), g \in others :
            /\ FixedIsAllOnes(f) <=> ones = all
            /\ FixedIsSupersetOf(f, g) <=> o.ones \subseteq ones
            /\ IterOneIndices(FixedAndWith(f, o.map.data)) = ones \intersect o.ones
            /\ IterOneIndices(FixedClearFrom(f, o.map.data)) = ones \ o.ones
            /\ IterOneIndices(FixedOrWith(f, o.map.data)) = ones \union o.ones
            /\ IterOneIndices(FixedXorWith(f, o.map.data)) = (ones \union o.ones) \ (ones \intersect o.ones)
            /\ \A n \in all : /\ IterOneIndices(FixedSet(f, n)) = ones \union {n}
                              /\ IterOneIndices(FixedClear(f, n)) = ones \ {n}

(* After any sequence of operations, a bitmap holds exactly the ones it is *)
(* to hold and none behind its end, and what it answers about them, about  *)
(* another bitmap, about a slice or through a view is so. Three answers    *)
(* and the flipped view need a bitmap without a spare block.               *)
BitmapsAreSets ==
    part = "bitmap" =>
    /\ IsMapOf(map, ones, size)
    /\ CountOnes(map) = Cardinality(ones)
    /\ IsAllZeros(map) <=> ones = {}
    /\ \A n \in 0..size : /\ Get(map, n) <=> n \in ones
                          /\ FirstBitSetFrom(map, n) = FirstOf(ones, n)
                          /\ FirstBitUnsetFrom(map, n) = FirstOf(Low(size) \ ones, n)
    /\ FirstBitSet(map) = FirstOf(ones, 0)
    /\ Exact(map) => /\ IsAllOnes(map) <=> ones = Low(size)
                     /\ Offset(size) # 0 => CountZeros(map) = size - Cardinality(ones)
                     /\ IsMapOf(Flipped(map), Low(size) \ ones, size)
    /\ FixedFromBitmap(map, FixedBlocks) # {}
    /\ IterOneIndices(FixedNewAllOnes(size, FixedBlocks)) = Low(size)
    /\ \A o \in Operands :
          /\ FixedAgree(o)
          /\ IsSupersetOf(map, o.map) <=> o.ones \subseteq ones
          /\ IsSupersetOf(o.map, map) <=> ones \subseteq o.ones
          /\ OverlapsWith(map, o.map.data) <=> ones \intersect o.ones # {}
          /\ CountOverlapping(map, o.map) = Cardinality(ones \intersect o.ones)
          /\ IterOneIndices(BitAnd(map, o.map).data) = ones \intersect o.ones
          /\ IsMapOf(BitOr(map, o.map), ones \union o.ones, Larger(size, o.len))
          /\ IsMapOf(OrView(map, o.map), ones \union o.ones, Larger(size, o.len))
          /\ IsMapOf(ClearView(map, o.map), ones \ o.ones, size)
          /\ IterOneIndices(XorView(map, o.map).data) = (ones \union o.ones) \ (ones \intersect o.ones)
          /\ Len(map.data) <= Len(o.map.data) => (IsSubsetOf(map, o.map) <=> ones \subseteq o.ones)
          /\ FirstBitSetAfterMany({map, o.map}, 0, IF size < o.len THEN size ELSE o.len)
                = FirstOf(ones \intersect o.ones, 0)
    /\ \A start \in 0..size : \A end \in start..size :
          LET s == Slice(map, start, end)
              inside == {i - start : i \in ones \intersect (start..(end - 1))}
          IN  /\ IsMapOf(FromSlice(s), inside, end - start) /\ Exact(FromSlice(s))
              /\ \A n \in 0..(end - start - 1) : SliceGet(s, n) <=> n \in inside

-----------------------------------------------------------------------------
(***************************************************************************)
(* Covering sets                                                           *)
(***************************************************************************)
Solved(r) == result = <<>> /\ result' = <<r>> /\ UNCHANGED <<part, map, ones, size, input>>
Asked(i) == result = <<>> /\ input' = i /\ UNCHANGED <<part, map, ones, size, result>>

AddDecision == /\ part = "cover" /\ Cardinality(input) < MaxDecisions
               /\ \E d \in SUBSET (1..NumChoices) : Cardinality(d) \in 1..3 /\ Asked(input \union {d})
SolveCover == part = "cover" /\ \E n \in CoveringSetSizes(input, TRUE) : Solved(MinimumCoveringSet(input, n))

Values == SUBSET (1..FilterBits)
ExcludeValue == part = "exclude" /\ Cardinality(input) < MaxExcluded /\ \E v \in Values : Asked(input \union {v})
SolveExclude ==
    /\ part = "exclude"
    /\ LET filters == ListedFilters(1..FilterBits, input)
       IN  \E n \in CoveringSetSizes(FilterDecisions(filters, 1..FilterBits, input), FALSE) :
               Solved(BitFilters(1..FilterBits, input, n))

Hits(S, decisions) == \A d \in decisions : S \intersect d # {}

(* MinimumCoveringSet::of finds a covering set whatever the best random    *)
(* solution was, and none is smaller: the reductions and the pruning of the*)
(* search lose no smallest solution. Over the bit filters, it gives filters*)
(* that match exactly the values that are not excluded.                    *)
CoverIsMinimum ==
    /\ (part = "cover" /\ result # <<>>) =>
           /\ Hits(result[1], input)
           /\ \A S \in SUBSET (1..NumChoices) : Hits(S, input) => Cardinality(result[1]) <= Cardinality(S)
    /\ (part = "exclude" /\ result # <<>>) =>
           Values \ input = {v \in Values : \E f \in result[1] : FilterMatches(f, v)}

-----------------------------------------------------------------------------
(***************************************************************************)
(* Instructions and encodings                                              *)
(***************************************************************************)
(* Two bytes with three bits that are not always 0. *)
ThreeBits == {<<b, [i \in Bits |-> IF i = 1 THEN x ELSE 0]>> : b \in ByteFilters, x \in {0, 1, Wildcard}}
ThreeBitInstrs == {f \in ThreeBits : \A n \in 1..3 : BitAt(f, n) # Wildcard}
Free == [k \in 1..2 |-> [i \in Bits |-> Wildcard]]
Widest == <<Free[1], [i \in Bits |-> IF i = 1 THEN Wildcard ELSE 0]>>

(* Up to the order of the bits and the exchange of 0 and 1. *)
SomeFilters == {f \in ThreeBits : \A n \in 1..3 : BitAt(f, n) # 1 /\ \A m \in 1..n : BitAt(f, m) <= BitAt(f, n)}

AddCovering == /\ part = "uncovered" /\ Len(input.covering) < MaxCovering
               /\ Len(input.covering) = 2 => input.filter = Widest
               /\ \E f \in ThreeBits : Asked([input EXCEPT !.covering = Append(@, f)])
SolveUncovered == /\ part = "uncovered"
                  /\ \E merge \in BOOLEAN : Solved(ExtendedFilter(input.filter, input.covering, merge))

(* find_uncovered_instr finds an instruction that the filter matches and   *)
(* none of the others, whenever there is one; what is left of the filters  *)
(* after narrowing and merging stands for the same instructions.           *)
UncoveredFound ==
    (part = "uncovered" /\ result # <<>>) =>
        LET free == {i \in ThreeBitInstrs : /\ Matches(input.filter, i)
                                            /\ \A n \in DOMAIN input.covering : ~Matches(input.covering[n], i)}
        IN  /\ result[1] = {} <=> free = {}
            /\ \A ef \in result[1] :
                  /\ ef.instr \in free
                  /\ free = {i \in ThreeBitInstrs : /\ Matches(ef.matching, i)
                                                    /\ \A n \in DOMAIN ef.nonmatching : ~Matches(ef.nonmatching[n], i)}

(* The bits of an encoding with these filters. *)
Tightest(S) == FromBits(2, [n \in 1..BitLen(Free) |->
    LET seen == {BitAt(f, n) : f \in S} IN IF Cardinality(seen) = 1 THEN CHOOSE b \in seen : TRUE ELSE Wildcard])
AddEncoding == /\ part = "encodings" /\ Len(input) < MaxItems
               /\ Len(input) = 2 => \A n \in 1..2 : Cardinality(input[n].filters) = 1
               /\ \E f, g \in ThreeBits :
                     /\ f = g \/ (Len(input) < 2 /\ BitAt(f, 3) = 0 /\ BitAt(g, 3) = 0)
                     /\ Asked(Append(input, [bits |-> Tightest({f, g}), filters |-> {f, g}]))

(* The filters with one free bit, in their order: sets of them cover their *)
(* instructions in many ways.                                              *)
Edges == {f \in ThreeBits : Cardinality({n \in 1..3 : BitAt(f, n) = Wildcard}) = 1}
AddEdge == /\ part = "edges" /\ Len(input) < MaxEdges
           /\ \E f \in Edges : /\ \A n \in DOMAIN input : \A g \in input[n].filters : Less(g, f)
                               /\ Asked(Append(input, [bits |-> Free, filters |-> {f}]))
SolveEncodings == part \in {"encodings", "edges"} /\ Solved(FilterOverlappingEncodings(input))

CoverSame(items, others) ==
    \A i \in ThreeBitInstrs : (\E item \in items : ItemMatches(item, i)) <=> (\E item \in others : ItemMatches(item, i))

(* The encodings that filter_overlapping_encodings keeps cover every       *)
(* instruction that the encodings it is given cover, as its last assertion *)
(* says, and no smaller choice of them does. The assertions of             *)
(* MinimumCoveringFilterSet::new hold, whatever was chosen before.         *)
ChosenCoverAll ==
    (part \in {"encodings", "edges"} /\ result # <<>>) =>
        LET given == {e.filters : e \in Range(input)}
        IN  /\ CoverSame(result[1], given)
            /\ \A S \in SUBSET given : CoverSame(S, given) => Cardinality(result[1]) <= Cardinality(S)
            /\ input # <<>> =>
                   LET others == [n \in 1..(Len(input) - 1) |-> input[n + 1].filters]
                   IN  \A pre \in {{}, input[1].filters} : InstrsAreNew(others, pre) /\ EveryItemMet(others, pre)

(* The searches miss nothing: a smallest covering set is found, and so is  *)
(* an instruction that no filter covers; the encodings that are chosen     *)
(* leave no instruction uncovered.                                         *)
SearchesMissNothing == CoverIsMinimum /\ UncoveredFound /\ ChosenCoverAll

-----------------------------------------------------------------------------
NoCover == map = EmptyBitmap /\ ones = {} /\ size = 0 /\ result = <<>>
CoverInit ==
    /\ NoCover
    /\ \/ part \in {"bitmap", "cover", "exclude"} /\ input = {}
       \/ part = "uncovered" /\ input \in {[filter |-> f, covering |-> <<>>] : f \in SomeFilters}
       \/ part \in {"encodings", "edges"} /\ input = <<>>
CoverNext == \/ BitmapStep
             \/ AddDecision \/ SolveCover \/ ExcludeValue \/ SolveExclude
             \/ AddCovering \/ SolveUncovered \/ AddEncoding \/ AddEdge \/ SolveEncodings
=============================================================================
