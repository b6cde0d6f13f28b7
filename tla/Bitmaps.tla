------------------------------ MODULE Bitmaps ------------------------------
(***************************************************************************)
(* The bitmaps of liblisa/src/utils/bitmap: GrowingBitmap, its slices and  *)
(* views, FixedBitmapU64 and DenseSet. A block (u64) is the set of the     *)
(* positions of its ones; a bitmap is the blocks it holds and its length,  *)
(* which the number of blocks only bounds.                                 *)
(***************************************************************************)
EXTENDS Integers, Sequences, FiniteSets, FiniteSetsExt

CONSTANT BlockBits     \* 64 in the code

Full == 0..(BlockBits - 1)
Low(k) == 0..(k - 1)
Shr(block, k) == {p - k : p \in block \ Low(k)}
Shl(block, k) == {p + k : p \in {q \in block : q + k < BlockBits}}

(* index(): the block, counted from one, and the offset in it. *)
BlockOf(n) == n \div BlockBits + 1
Offset(n) == n % BlockBits
BlocksFor(len) == (len + BlockBits - 1) \div BlockBits

BlockAt(data, i) == IF i \in DOMAIN data THEN data[i] ELSE {}
ResizeData(data, n) == [i \in 1..n |-> BlockAt(data, i)]
None == -1

Bitmap(data, len) == [data |-> data, len |-> len]
EmptyBitmap == Bitmap(<<>>, 0)

-----------------------------------------------------------------------------
(***************************************************************************)
(* GrowingBitmap: construction and change                                  *)
(***************************************************************************)
ZeroizePastEnd(b) ==
    IF Offset(b.len) # 0 /\ b.data # <<>>
    THEN [b EXCEPT !.data[Len(b.data)] = @ \intersect Low(Offset(b.len))] ELSE b

NewAllOnes(n) == ZeroizePastEnd(Bitmap([i \in 1..BlocksFor(n) |-> Full], n))
NewAllZeros(n) == Bitmap([i \in 1..BlockOf(n) |-> {}], n)

Get(b, n) == Offset(n) \in BlockAt(b.data, BlockOf(n))

InternalResize(b, n) ==
    IF n < b.len THEN b
    ELSE Bitmap(IF Len(b.data) < BlockOf(n) THEN ResizeData(b.data, BlockOf(n)) ELSE b.data, n + 1)
SetBitAt(b, n) == [InternalResize(b, n) EXCEPT !.data[BlockOf(n)] = @ \union {Offset(n)}]
ResetBit(b, n) == [InternalResize(b, n) EXCEPT !.data[BlockOf(n)] = @ \ {Offset(n)}]
GetThenReset(b, n) ==
    IF BlockOf(n) \in DOMAIN b.data THEN [b EXCEPT !.data[BlockOf(n)] = @ \ {Offset(n)}] ELSE b

AndWith(b, data) == [b EXCEPT !.data = [i \in DOMAIN b.data |-> b.data[i] \intersect BlockAt(data, i)]]
OrWith(b, data) == [b EXCEPT !.data = [i \in DOMAIN b.data |-> b.data[i] \union BlockAt(data, i)]]
ClearFrom(b, data) == [b EXCEPT !.data = [i \in DOMAIN b.data |-> b.data[i] \ BlockAt(data, i)]]
SetAllZero(b) == [b EXCEPT !.data = [i \in DOMAIN b.data |-> {}]]
FillWithOnes(b) == ZeroizePastEnd([b EXCEPT !.data = [i \in DOMAIN b.data |-> Full]])

(* Room for one more bit at the end; extend makes it before the first item *)
(* and whenever an item filled a block.                                    *)
WithRoom(b) ==
    IF BlockOf(b.len) > Len(b.data) THEN [b EXCEPT !.data = ResizeData(b.data, BlockOf(b.len))] ELSE b
ExtendBits(b, items) ==
    LET pushed(p, item) ==
            Bitmap([p.data EXCEPT ![BlockOf(p.len)] = @ \union (IF item THEN {Offset(p.len)} ELSE {})],
                   p.len + 1)
        after[k \in 0..Len(items)] ==
            IF k = 0 THEN WithRoom(b) ELSE WithRoom(pushed(after[k - 1], items[k]))
    IN  after[Len(items)]

(* Fault: the bits do not move from one block to the one before. *)
RemoveInBlock(b, n) ==
    Bitmap([k \in DOMAIN b.data |-> {p \in Full :
               LET i == (k - 1) * BlockBits + p
               IN  IF i \in n..(b.len - 1) THEN p + 1 \in b.data[k] ELSE p \in b.data[k]}],
           b.len - 1)

(* Every bit from n on takes the value of the next; the blocks stay. *)
RemoveBit(b, n) ==
    Bitmap([k \in DOMAIN b.data |-> {p \in Full :
               LET i == (k - 1) * BlockBits + p
               IN  IF i \in n..(b.len - 1) THEN Get(b, i + 1) ELSE p \in b.data[k]}],
           b.len - 1)

RemoveFront(b, num) ==
    LET n == IF num < b.len THEN num ELSE b.len
        drained == SubSeq(b.data, BlockOf(n), Len(b.data))
        shift == Offset(n)
        shifted == [k \in DOMAIN drained |->
                       Shr(drained[k], shift) \union Shl(BlockAt(drained, k + 1), BlockBits - shift)]
        needed == BlocksFor(b.len - n)
        kept == IF Len(drained) > needed THEN SubSeq(shifted, 1, needed) ELSE shifted
    IN  ZeroizePastEnd(Bitmap(kept, b.len - n))

ResizeBits(b, len) == ZeroizePastEnd(Bitmap(ResizeData(b.data, BlocksFor(len)), len))

BitAnd(a, b) ==
    Bitmap([i \in DOMAIN a.data \intersect DOMAIN b.data |-> a.data[i] \intersect b.data[i]],
           IF a.len < b.len THEN a.len ELSE b.len)
BitOr(a, b) ==
    Bitmap([i \in DOMAIN a.data \union DOMAIN b.data |-> BlockAt(a.data, i) \union BlockAt(b.data, i)],
           IF a.len > b.len THEN a.len ELSE b.len)
BitOrAssign(a, b) == OrWith(IF a.len < b.len THEN ResizeBits(a, b.len) ELSE a, b.data)

-----------------------------------------------------------------------------
(***************************************************************************)
(* GrowingBitmap: what can be asked of it                                  *)
(***************************************************************************)
CountOnes(b) == MapThenSumSet(LAMBDA i : Cardinality(b.data[i]), DOMAIN b.data)
CountZeros(b) ==
    MapThenSumSet(LAMBDA i : Cardinality(Full \ b.data[i]), DOMAIN b.data) - (BlockBits - Offset(b.len))
IsAllZeros(b) == \A i \in DOMAIN b.data : b.data[i] = {}
IsAllOnes(b) ==
    LET last == Len(b.data)
    IN  IF Offset(b.len) = 0 THEN \A i \in 1..(b.len \div BlockBits) : b.data[i] = Full
        ELSE last = 0 \/ (b.data[last] = Low(Offset(b.len)) /\ \A i \in 1..(last - 1) : b.data[i] = Full)

(* The first one of the blocks from position start on. *)
FirstFrom(data, start) ==
    LET masked(i) == IF i = BlockOf(start) THEN data[i] \ Low(Offset(start)) ELSE data[i]
        hits == {i \in BlockOf(start)..Len(data) : masked(i) # {}}
    IN  IF hits = {} THEN None ELSE (Min(hits) - 1) * BlockBits + Min(masked(Min(hits)))
FirstBitSet(b) == FirstFrom(b.data, 0)
FirstBitSetFrom(b, start) == FirstFrom(b.data, start)
FirstBitUnsetFrom(b, start) ==
    LET n == FirstFrom([i \in DOMAIN b.data |-> Full \ b.data[i]], start)
    IN  IF n >= b.len THEN None ELSE n
FirstBitSetAfterMany(maps, start, end) ==
    FirstFrom([i \in 1..BlocksFor(end) |-> {p \in Full : \A b \in maps : p \in b.data[i]}], start)

IsSupersetOf(b, other) ==
    IF other.len > b.len /\ FirstBitSetFrom(other, b.len) # None THEN FALSE
    ELSE \A i \in DOMAIN b.data \intersect DOMAIN other.data : other.data[i] \subseteq b.data[i]
OverlapsWith(b, data) == \E i \in DOMAIN b.data \intersect DOMAIN data : b.data[i] \intersect data[i] # {}

IterBits(b) == [i \in 1..b.len |-> Offset(i - 1) \in b.data[BlockOf(i - 1)]]
IterOneIndices(data) == UNION {{(i - 1) * BlockBits + p : p \in data[i]} : i \in DOMAIN data}

-----------------------------------------------------------------------------
(***************************************************************************)
(* Slices: a range of a bitmap, which starts and ends within blocks        *)
(***************************************************************************)
Slice(b, start, end) ==
    IF start = end THEN [data |-> <<>>, offset |-> 0, crop |-> 0]
    ELSE [data |-> SubSeq(b.data, BlockOf(start), BlocksFor(end)),
          offset |-> Offset(start), crop |-> BlocksFor(end) * BlockBits - end]

SliceGet(s, n) == Offset(n + s.offset) \in BlockAt(s.data, BlockOf(n + s.offset))
SliceLen(s) == Len(s.data) * BlockBits - s.offset - s.crop

(* create_iter: the blocks of the slice, realigned. *)
SliceData(s) ==
    LET n == Len(s.data)
        uncropped == Low(BlockBits - s.crop)
        next(i) == IF i + 1 = n THEN s.data[i + 1] \intersect uncropped ELSE s.data[i + 1]
    IN  [i \in 1..(IF n > 1 /\ s.crop + s.offset >= BlockBits THEN n - 1 ELSE n) |->
            IF i = n THEN Shr(s.data[i] \intersect uncropped, s.offset)
            ELSE Shr(s.data[i], s.offset) \union Shl(next(i), BlockBits - s.offset)]

(* modify: F(k, block) replaces the k-th realigned block, and the bits     *)
(* before and behind the slice stay. The last call sees bits of its own    *)
(* block once more above the end of the slice; they are cropped again.     *)
SliceModify(s, F(_, _)) ==
    LET n == Len(s.data)
        shift == BlockBits - s.offset
        uncropped == Low(BlockBits - s.crop)
        old(k) == Shr(s.data[k], s.offset)
                  \union Shl(IF k = n THEN s.data[k] \intersect uncropped ELSE s.data[k + 1], shift)
        new(k) == IF k = n /\ n > 1 /\ s.crop + s.offset >= BlockBits THEN {} ELSE F(k, old(k))
        carried(k) == IF k = 1 THEN s.data[1] \intersect Low(s.offset) ELSE Shr(new(k - 1), shift)
        write(k) == carried(k) \union Shl(new(k), s.offset)
    IN  IF s.offset = 0
        THEN [k \in 1..n |-> IF k = n THEN (s.data[k] \ uncropped) \union (F(k, s.data[k]) \intersect uncropped)
                             ELSE F(k, s.data[k])]
        ELSE [k \in 1..n |-> IF k = n THEN (s.data[k] \ uncropped) \union (write(k) \intersect uncropped)
                             ELSE write(k)]

(* A change through slice_mut(start..end). *)
ModifyRange(b, start, end, F(_, _)) ==
    IF start = end THEN b
    ELSE LET new == SliceModify(Slice(b, start, end), F)
             first == BlockOf(start)
         IN  [b EXCEPT !.data = [i \in DOMAIN b.data |->
                 IF i \in first..BlocksFor(end) THEN new[i - first + 1] ELSE b.data[i]]]
RangeClear(b, start, end) == ModifyRange(b, start, end, LAMBDA k, v : {})
RangeCopyFrom(b, start, end, data) == ModifyRange(b, start, end, LAMBDA k, v : data[k])
RangeClearFrom(b, start, end, data) == ModifyRange(b, start, end, LAMBDA k, v : v \ BlockAt(data, k))
RangeOrWith(b, start, end, data) == ModifyRange(b, start, end, LAMBDA k, v : v \union BlockAt(data, k))

-----------------------------------------------------------------------------
(***************************************************************************)
(* Views (bitmap/mod.rs) and the bitmaps of a fixed number of blocks       *)
(***************************************************************************)
FromSlice(s) == Bitmap(SliceData(s), SliceLen(s))
AndView(a, b) == BitAnd(a, b)
OrView(a, b) == BitOr(a, b)
XorView(a, b) ==
    Bitmap([i \in DOMAIN a.data \union DOMAIN b.data |->
               (BlockAt(a.data, i) \union BlockAt(b.data, i)) \ (BlockAt(a.data, i) \intersect BlockAt(b.data, i))],
           IF a.len > b.len THEN a.len ELSE b.len)
ClearView(a, b) == ClearFrom(a, b.data)
Flipped(a) ==
    LET remaining(i) == IF a.len >= i * BlockBits THEN BlockBits ELSE a.len % BlockBits
    IN  Bitmap([i \in DOMAIN a.data |-> (Full \ a.data[i]) \intersect Low(remaining(i))], a.len)
CountOverlapping(a, b) == CountOnes(AndView(a, b))
IsSubsetOf(a, b) == \A i \in DOMAIN b.data : BlockAt(a.data, i) \subseteq b.data[i]

(* FixedBitmapU64<n>: n blocks, whatever they are made from. *)
FixedNewAllOnes(len, n) ==
    [i \in 1..n |-> IF len >= i * BlockBits THEN Full ELSE IF i = BlockOf(len) THEN Low(Offset(len)) ELSE {}]
FixedFromBitmap(b, n) == IF b.len > n * BlockBits THEN {} ELSE {ResizeData(b.data, n)}
FixedSet(data, i) == [data EXCEPT ![BlockOf(i)] = @ \union {Offset(i)}]
FixedClear(data, i) == [data EXCEPT ![BlockOf(i)] = @ \ {Offset(i)}]
FixedAndWith(data, other) == [i \in DOMAIN data |-> data[i] \intersect BlockAt(other, i)]
FixedClearFrom(data, other) == [i \in DOMAIN data |-> data[i] \ BlockAt(other, i)]
FixedOrWith(data, other) == [i \in DOMAIN data |-> data[i] \union BlockAt(other, i)]
FixedXorWith(data, other) == FixedClearFrom(FixedOrWith(data, other), FixedAndWith(data, other))
FixedIsAllOnes(data) == \A i \in DOMAIN data : data[i] = Full
FixedIsSupersetOf(a, b) == \A i \in DOMAIN a : b[i] \subseteq a[i]
=============================================================================
