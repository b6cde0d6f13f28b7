-------------------------- MODULE AlgorithmProofs --------------------------
(***************************************************************************)
(* Algorithms on data of every size.  The random strings of the search are *)
(* those of its range, for every number of bytes and every length of a     *)
(* string, and what the search returns is a valid instruction after its    *)
(* start, for every processor.  overlaps_with decides whether two areas    *)
(* have an address in common, for every size of a word.  The file of the   *)
(* cache is always laid out as records, the last one cut off at any place; *)
(* so the cache answers with what was computed, and a file that is opened  *)
(* loses no record but the one at its end, for every number of runs,       *)
(* threads and records.                                                    *)
(***************************************************************************)
EXTENDS MCRandomSearch, Areas, FileBackedCache, WellFoundedInduction, TLAPS

-----------------------------------------------------------------------------
(* Areas of memory.                                                        *)

AreaSet == [addr : Words, size : 1 .. Word]

(* The addresses of an area: those from its start on, and, when it wraps,  *)
(* those from the first address on.                                        *)
InArea(x, a) == IF Wraps(a) THEN a.addr <= x \/ x < a.addr + a.size - Word
                            ELSE a.addr <= x /\ x <= LastAddr(a)

(* An area that has moved still has the addresses it had, moved by as much. *)
LEMMA MovedAddresses ==
    ASSUME NEW a \in AreaSet, NEW by \in Words, NEW x \in Words
    PROVE  /\ Offset(a, by) \in AreaSet /\ Offset(a, by).size = a.size /\ Wrap(x + by) \in Words
           /\ InArea(x, a) <=> InArea(Wrap(x + by), Offset(a, by))
<1>1. Word \in Nat  BY AreasAssumption
<1>2. Offset(a, by).addr = Wrap(a.addr + by) /\ Offset(a, by).size = a.size
  BY DEF Offset, AreaSet
<1>3. Wrap(a.addr + by) \in Words /\ Wrap(x + by) \in Words
  BY <1>1 DEF Wrap, Words, AreaSet
<1>4. Offset(a, by) \in AreaSet
  BY <1>2, <1>3 DEF Offset, AreaSet
<1>5. InArea(x, a) <=> InArea(Wrap(x + by), Offset(a, by))
  BY <1>1, <1>2 DEF InArea, Wraps, LastAddr, Wrap, Words, AreaSet
<1> QED  BY <1>2, <1>3, <1>4, <1>5

(* Two areas that do not wrap overlap when the comparison says so. *)
LEMMA InOrderIsIntersection ==
    ASSUME NEW a \in AreaSet, NEW b \in AreaSet, ~Wraps(a), ~Wraps(b)
    PROVE  OverlapInOrder(a, b) <=> \E x \in Words : InArea(x, a) /\ InArea(x, b)
<1>1. Word \in Nat  BY AreasAssumption
<1>2. ASSUME OverlapInOrder(a, b)
      PROVE  \E x \in Words : InArea(x, a) /\ InArea(x, b)
  <2>1. CASE a.addr <= b.addr
    BY <1>1, <1>2, <2>1 DEF OverlapInOrder, InArea, LastAddr, Wraps, AreaSet, Words
  <2>2. CASE b.addr <= a.addr
    BY <1>1, <1>2, <2>2 DEF OverlapInOrder, InArea, LastAddr, Wraps, AreaSet, Words
  <2> QED  BY <1>1, <2>1, <2>2 DEF AreaSet, Words
<1>3. ASSUME NEW x \in Words, InArea(x, a), InArea(x, b)
      PROVE  OverlapInOrder(a, b)
  BY <1>1, <1>3 DEF OverlapInOrder, InArea, LastAddr, Wraps, AreaSet, Words
<1> QED  BY <1>2, <1>3

(* When exactly one of two areas wraps, both are moved to where neither    *)
(* does: the comparison that follows cannot meet areas that are "too far   *)
(* apart".                                                                 *)
LEMMA RealignedAreasDoNotWrap ==
    ASSUME NEW a \in AreaSet, NEW b \in AreaSet, a.size + b.size <= Word
    PROVE  /\ Realigned(a, b) \in Words
           /\ ~Wraps(Offset(a, Realigned(a, b))) /\ ~Wraps(Offset(b, Realigned(a, b)))
<1>1. Word \in Nat /\ Word > 0  BY AreasAssumption
<1> DEFINE toA == Wrap(0 - a.addr)
           toB == Wrap(0 - b.addr)
<1>2. toA \in Words /\ toB \in Words
  BY <1>1 DEF Wrap, Words, AreaSet
<1>3. /\ Offset(a, toA).addr = 0 /\ Offset(a, toA).size = a.size
      /\ Offset(b, toA).addr = Wrap(b.addr + toA) /\ Offset(b, toA).size = b.size
      /\ Offset(b, toB).addr = 0 /\ Offset(b, toB).size = b.size
      /\ Offset(a, toB).addr = Wrap(a.addr + toB) /\ Offset(a, toB).size = a.size
  BY <1>1 DEF Offset, Wrap, Words, AreaSet
<1>4. CASE ~Wraps(Offset(b, toA))
  <2>1. Realigned(a, b) = toA  BY <1>4 DEF Realigned
  <2> QED  BY <1>1, <1>2, <1>3, <1>4, <2>1 DEF Wraps, AreaSet, Words
<1>5. CASE Wraps(Offset(b, toA))
  <2>1. Realigned(a, b) = toB  BY <1>5 DEF Realigned
  <2>2. ~Wraps(Offset(a, toB))
    BY <1>1, <1>2, <1>3, <1>5 DEF Wraps, Wrap, AreaSet, Words
  <2> QED  BY <1>1, <1>2, <1>3, <2>1, <2>2 DEF Wraps, AreaSet, Words
<1> QED  BY <1>4, <1>5

(* Area::overlaps_with says of two areas that fit memory together whether  *)
(* they have an address in common, wherever they are and whichever of them *)
(* goes around the end of memory.                                          *)
THEOREM OverlapIsIntersection ==
    ASSUME NEW a \in AreaSet, NEW b \in AreaSet, a.size + b.size <= Word
    PROVE  OverlapsWith(a, b) <=> \E x \in Words : InArea(x, a) /\ InArea(x, b)
<1>1. Word \in Nat /\ Word > 0  BY AreasAssumption
<1>2. CASE Wraps(a) /\ Wraps(b)
  <2>1. Word - 1 \in Words  BY <1>1 DEF Words
  <2>2. InArea(Word - 1, a) /\ InArea(Word - 1, b)
    BY <1>1, <1>2 DEF InArea, AreaSet, Words
  <2> QED  BY <1>2, <2>1, <2>2 DEF OverlapsWith
<1>3. CASE ~Wraps(a) /\ ~Wraps(b)
  <2>1. OverlapsWith(a, b) <=> OverlapInOrder(a, b)
    BY <1>3 DEF OverlapsWith, OverlapInOrder, Wraps
  <2> QED  BY <1>3, <2>1, InOrderIsIntersection
<1>4. CASE Wraps(a) # Wraps(b)
  <2> DEFINE by == Realigned(a, b)
             c == Offset(a, by)
             d == Offset(b, by)
  <2>1. by \in Words /\ ~Wraps(c) /\ ~Wraps(d)
    BY RealignedAreasDoNotWrap
  <2>2. c \in AreaSet /\ d \in AreaSet
    BY <2>1, <1>1, MovedAddresses DEF Words
  <2>3. OverlapsWith(a, b) <=> \E y \in Words : InArea(y, c) /\ InArea(y, d)
    BY <1>4, <2>1, <2>2, InOrderIsIntersection DEF OverlapsWith
  <2>4. ASSUME NEW x \in Words, InArea(x, a), InArea(x, b)
        PROVE  \E y \in Words : InArea(y, c) /\ InArea(y, d)
    BY <2>1, <2>4, MovedAddresses
  <2>5. ASSUME NEW y \in Words, InArea(y, c), InArea(y, d)
        PROVE  \E x \in Words : InArea(x, a) /\ InArea(x, b)
    <3>1. Wrap(y - by) \in Words /\ Wrap(Wrap(y - by) + by) = y
      BY <1>1, <2>1 DEF Wrap, Words
    <3> QED  BY <2>1, <2>5, <3>1, MovedAddresses
  <2> QED  BY <2>3, <2>4, <2>5
<1> QED  BY <1>2, <1>3, <1>4 DEF Wraps

-----------------------------------------------------------------------------
(* The random search.                                                      *)

(* Every nonempty set of numbers has a smallest one. *)
LEMMA Smallest ==
    ASSUME NEW S \in SUBSET Nat, S # {}
    PROVE  \E i \in S : \A j \in S : i <= j
<1>1. PICK x \in S : \A y \in S : ~(<<y, x>> \in OpToRel(<, Nat))
  BY WFMin, NatLessThanWellFounded, Zenon
<1>2. \A y \in S : ~(y < x)
  BY Zenon, <1>1 DEF OpToRel
<1> QED BY <1>2

(* Every nonempty set of positions has a last one. *)
LEMMA LastPosition ==
    ASSUME NEW N \in Nat, NEW S \in SUBSET (1..N), S # {}
    PROVE  \E i \in S : \A j \in S : j <= i
<1> DEFINE T == {n \in Nat : \E i \in S : n = N - i}
<1>1. T # {}
  <2>1. PICK i \in S : TRUE
    BY Zenon
  <2>2. N - i \in T
    BY <2>1
  <2> QED BY Zenon, <2>2
<1>2. PICK t \in T : \A u \in T : t <= u
  BY Zenon, <1>1, Smallest, T \in SUBSET Nat
<1>3. PICK i \in S : t = N - i
  OBVIOUS
<1>4. \A j \in S : N - j \in T
  OBVIOUS
<1> QED BY <1>2, <1>3, <1>4

(* A padded instruction is a string that continues the instruction with    *)
(* zeros.                                                                  *)
LEMMA PaddedType ==
    ASSUME NEW x \in Instrs
    PROVE  /\ PaddedTo(x) \in Strings
           /\ \E n \in 1..MaxLen : x \in [1..n -> Byte] /\ Len(x) = n /\ DOMAIN x = 1..n
           /\ \A i \in 1..MaxLen : PaddedTo(x)[i] = MinAt(x, i)
<1>1. PICK n \in 1..MaxLen : x \in [1..n -> Byte]
  BY DEF Instrs
<1>2. x \in Seq(Byte) /\ Len(x) = n /\ DOMAIN x = 1..n
  BY <1>1, SearchAssumption DEF Byte
<1>3. \A i \in 1..MaxLen : MinAt(x, i) \in Byte
  BY <1>1, <1>2, SearchAssumption DEF MinAt, Byte
<1> QED BY <1>1, <1>2, <1>3 DEF PaddedTo, Strings

(* The order of strings, which all have the same length, is decided at the *)
(* first byte that differs.                                                *)
LEMMA StringOrder ==
    ASSUME NEW a \in Strings, NEW b \in Strings
    PROVE  Before(a, b) <=> \E i \in 1..MaxLen : a[i] < b[i] /\ \A j \in 1..(i - 1) : a[j] = b[j]
<1>1. DOMAIN a = 1..MaxLen /\ DOMAIN b = 1..MaxLen
  BY DEF Strings
<1>2. a \in Seq(Byte) /\ b \in Seq(Byte) /\ Len(a) = MaxLen /\ Len(b) = MaxLen
  BY SearchAssumption DEF Strings
<1> QED BY <1>1, <1>2, SearchAssumption DEF Before

(* Where the string must be below end at the latest: the last byte of end  *)
(* that is not zero.  There is one, as end is larger than some string.     *)
LEMMA LastAvoidIs ==
    ASSUME NEW e \in Instrs, NEW s \in Strings, Before(s, PaddedTo(e))
    PROVE  /\ LastAvoid(e) \in 1..MaxLen /\ LastAvoid(e) \in DOMAIN e
           /\ PaddedTo(e)[LastAvoid(e)] # 0
           /\ \A j \in 1..MaxLen : j > LastAvoid(e) => PaddedTo(e)[j] = 0
<1>1. PICK n \in 1..MaxLen : e \in [1..n -> Byte] /\ Len(e) = n /\ DOMAIN e = 1..n
  BY PaddedType
<1>2. PaddedTo(e) \in Strings /\ \A i \in 1..MaxLen : PaddedTo(e)[i] = MinAt(e, i)
  BY PaddedType
<1>3. PICK i \in 1..MaxLen : s[i] < PaddedTo(e)[i]
  BY <1>2, StringOrder
<1>4. i \in 1..n /\ e[i] # 0
  <2>1. s[i] \in Nat
    BY SearchAssumption DEF Strings, Byte
  <2>2. s[i] < MinAt(e, i)
    BY <1>2, <1>3
  <2> QED BY <1>1, <2>1, <2>2 DEF MinAt
<1> DEFINE S == {k \in 1..n : e[k] # 0}
<1>5. \E k \in S : \A j \in S : j <= k
  <2>1. i \in S
    BY <1>4
  <2>2. n \in Nat /\ S \in SUBSET (1..n)
    BY SearchAssumption
  <2> HIDE DEF S
  <2> QED BY Zenon, <2>1, <2>2, LastPosition
<1>6. \E k \in DOMAIN e : e[k] # 0 /\ \A j \in DOMAIN e : j > k => e[j] = 0
  BY <1>1, <1>5
<1>7. e # NoInstr
  BY <1>1, <1>4 DEF NoInstr
<1>8. LastAvoid(e) \in DOMAIN e /\ e[LastAvoid(e)] # 0 /\ \A j \in DOMAIN e : j > LastAvoid(e) => e[j] = 0
  BY <1>6, <1>7 DEF LastAvoid
<1>9. LastAvoid(e) \in 1..MaxLen
  BY <1>1, <1>8, SearchAssumption
<1> QED BY <1>1, <1>2, <1>8, <1>9 DEF MinAt

(* A byte that may follow is not below start while the string follows it,  *)
(* and not above end, below it at the last byte that counts.               *)
LEMMA ChoiceBounds ==
    ASSUME NEW s, NEW e, NEW r \in Strings, NEW i \in 1..MaxLen
    PROVE  r[i] \in ByteChoices(s, e, r, i) <=>
              /\ (\A j \in 1..(i - 1) : r[j] = MinAt(s, j)) => r[i] \in MinAt(s, i) .. MaxByte
              /\ (\A j \in 1..(i - 1) : r[j] = MaxAt(e, j)) =>
                    r[i] \in 0 .. (IF e = NoInstr \/ i # LastAvoid(e) THEN MaxAt(e, i) ELSE MaxAt(e, i) - 1)
<1>1. r[i] \in Byte
  BY DEF Strings
<1> QED BY <1>1, SearchAssumption DEF ByteChoices, Byte

(* Every random string lies in the range: it is not below start, as a byte *)
(* that follows start is not smaller, and it is below end, at the last     *)
(* byte that counts at the latest.                                         *)
LEMMA RandomIsInRange ==
    ASSUME NEW s \in Instrs, NEW e \in Instrs \union {NoInstr},
           e # NoInstr => Before(PaddedTo(s), PaddedTo(e)),
           NEW r \in RandomInstrBytes(s, e)
    PROVE  ~Before(r, PaddedTo(s)) /\ (e # NoInstr => Before(r, PaddedTo(e)))
<1>1. r \in Strings
  BY DEF RandomInstrBytes
<1>2. PICK n \in NumEnd(e) : FilledUpTo(s, e, n, r, MaxLen)
  BY DEF RandomInstrBytes
<1>3. PaddedTo(s) \in Strings /\ \A i \in 1..MaxLen : PaddedTo(s)[i] = MinAt(s, i)
  BY PaddedType
<1>4. \A i \in 1..MaxLen : i > n => r[i] \in ByteChoices(s, e, r, i)
  BY <1>2, SearchAssumption DEF FilledUpTo, NumEnd
<1>5. \A i \in 1..MaxLen : i <= n => r[i] = e[i]
  BY <1>2, SearchAssumption DEF FilledUpTo, NumEnd
<1>6. CASE e = NoInstr
  <2>1. n = 0
    BY <1>6 DEF NumEnd, NoInstr
  <2>2. ASSUME NEW i \in 1..MaxLen, r[i] < PaddedTo(s)[i], \A j \in 1..(i - 1) : r[j] = PaddedTo(s)[j]
        PROVE  FALSE
    <3>1. r[i] \in MinAt(s, i) .. MaxByte
      <4>1. \A j \in 1..(i - 1) : r[j] = MinAt(s, j)
        BY <1>3, <2>2, SearchAssumption
      <4>2. r[i] \in ByteChoices(s, e, r, i)
        BY <1>4, <2>1
      <4> QED BY <1>1, <4>1, <4>2, ChoiceBounds
    <3> QED BY <1>1, <1>3, <2>2, <3>1, SearchAssumption DEF Strings, Byte
  <2> QED BY <1>1, <1>3, <1>6, <2>2, StringOrder
<1>7. CASE e # NoInstr
  <2> DEFINE L == LastAvoid(e)
  <2>1. e \in Instrs /\ Before(PaddedTo(s), PaddedTo(e))
    BY <1>7
  <2>2. PaddedTo(e) \in Strings /\ \A i \in 1..MaxLen : PaddedTo(e)[i] = MinAt(e, i)
    BY <2>1, PaddedType
  <2>3. /\ L \in 1..MaxLen /\ L \in DOMAIN e /\ PaddedTo(e)[L] # 0
        /\ \A j \in 1..MaxLen : j > L => PaddedTo(e)[j] = 0
    BY <1>3, <2>1, LastAvoidIs
  <2>4. n \in Nat /\ n < L
    BY <2>3, <1>2 DEF NumEnd
  <2>5. PICK m \in 1..MaxLen : DOMAIN e = 1..m
    BY <2>1, PaddedType
  <2>6. \A i \in 1..L : MaxAt(e, i) = PaddedTo(e)[i] /\ e[i] = PaddedTo(e)[i]
    <3>1. TAKE i \in 1..L
    <3>2. i \in 1..MaxLen /\ i \in DOMAIN e
      BY <2>3, <2>5, SearchAssumption
    <3> QED BY <2>2, <3>2 DEF MaxAt, MinAt
  <2>7. ~Before(r, PaddedTo(s))
    <3>1. SUFFICES ASSUME NEW i \in 1..MaxLen, r[i] < PaddedTo(s)[i], \A j \in 1..(i - 1) : r[j] = PaddedTo(s)[j]
                   PROVE  FALSE
      BY <1>1, <1>3, StringOrder
    <3>2. CASE i > n
      <4>1. r[i] \in MinAt(s, i) .. MaxByte
        <5>1. \A j \in 1..(i - 1) : r[j] = MinAt(s, j)
          BY <1>3, <3>1, SearchAssumption
        <5>2. r[i] \in ByteChoices(s, e, r, i)
          BY <1>4, <3>2
        <5> QED BY <1>1, <5>1, <5>2, ChoiceBounds
      <4> QED BY <1>1, <1>3, <3>1, <4>1, SearchAssumption DEF Strings, Byte
    <3>3. CASE i <= n
      <4>1. \A j \in 1..i : r[j] = PaddedTo(e)[j]
        <5>1. TAKE j \in 1..i
        <5>2. j \in 1..MaxLen /\ j <= n /\ j \in 1..L
          BY <2>3, <2>4, <3>3, SearchAssumption
        <5> QED BY <1>5, <2>6, <5>2
      <4>2. PICK k \in 1..MaxLen : PaddedTo(s)[k] < PaddedTo(e)[k] /\ \A j \in 1..(k - 1) : PaddedTo(s)[j] = PaddedTo(e)[j]
        BY <1>3, <2>1, <2>2, StringOrder
      <4>3. PaddedTo(e)[i] < PaddedTo(s)[i] /\ \A j \in 1..(i - 1) : PaddedTo(e)[j] = PaddedTo(s)[j]
        BY <3>1, <4>1
      <4>4. \A j \in 1..MaxLen : PaddedTo(e)[j] \in Int /\ PaddedTo(s)[j] \in Int
        BY <1>3, <2>2, SearchAssumption DEF Strings, Byte
      <4> QED BY <4>2, <4>3, <4>4
    <3> QED BY <2>4, <3>2, <3>3
  <2>8. Before(r, PaddedTo(e))
    <3> DEFINE D == {k \in 1..MaxLen : k <= L /\ r[k] # PaddedTo(e)[k]}
    <3>1. \A k \in 1..L : k > n /\ (\A j \in 1..(k - 1) : r[j] = PaddedTo(e)[j]) =>
                r[k] \in 0 .. (IF k # L THEN PaddedTo(e)[k] ELSE PaddedTo(e)[k] - 1)
      <4>1. SUFFICES ASSUME NEW k \in 1..L, k > n, \A j \in 1..(k - 1) : r[j] = PaddedTo(e)[j]
                     PROVE  r[k] \in 0 .. (IF k # L THEN PaddedTo(e)[k] ELSE PaddedTo(e)[k] - 1)
        OBVIOUS
      <4>2. k \in 1..MaxLen
        BY <2>3, SearchAssumption
      <4>3. \A j \in 1..(k - 1) : r[j] = MaxAt(e, j)
        BY <2>3, <2>6, <4>1
      <4>4. r[k] \in ByteChoices(s, e, r, k)
        BY <1>4, <4>1, <4>2
      <4> QED BY <1>1, <1>7, <2>6, <4>2, <4>3, <4>4, ChoiceBounds
    <3>2. D # {}
      <4>1. SUFFICES ASSUME \A k \in 1..L : r[k] = PaddedTo(e)[k] PROVE FALSE
        BY <2>3, SearchAssumption
      <4>2. r[L] \in 0 .. (PaddedTo(e)[L] - 1)
        BY <2>3, <2>4, <3>1, <4>1
      <4>3. PaddedTo(e)[L] \in Int
        BY <2>2, <2>3, SearchAssumption DEF Strings, Byte
      <4> QED BY <2>3, <4>1, <4>2, <4>3
    <3>3. PICK k \in D : \A j \in D : k <= j
      <4>1. D \in SUBSET Nat
        BY SearchAssumption
      <4> HIDE DEF D
      <4> QED BY <3>2, <4>1, Smallest, Zenon
    <3>4. k \in 1..MaxLen /\ k <= L /\ r[k] # PaddedTo(e)[k]
      BY <3>3
    <3>5. \A j \in 1..(k - 1) : r[j] = PaddedTo(e)[j]
      BY <2>3, <3>3, <3>4, SearchAssumption
    <3>6. k > n
      BY <1>5, <2>3, <2>4, <2>6, <3>4
    <3>7. r[k] < PaddedTo(e)[k]
      <4>1. r[k] \in Int /\ PaddedTo(e)[k] \in Int
        BY <1>1, <2>2, <3>4, SearchAssumption DEF Strings, Byte
      <4>2. r[k] \in 0 .. (IF k # L THEN PaddedTo(e)[k] ELSE PaddedTo(e)[k] - 1)
        BY <2>3, <3>1, <3>4, <3>5, <3>6
      <4> QED BY <3>4, <4>1, <4>2
    <3> QED BY <1>1, <2>2, <3>4, <3>5, <3>7, StringOrder
  <2> QED BY <2>7, <2>8
<1> QED BY <1>6, <1>7

(* Each byte of a string of the range is one of the choices. *)
LEMMA InRangeIsChosen ==
    ASSUME NEW s \in Instrs, NEW e \in Instrs \union {NoInstr},
           e # NoInstr => Before(PaddedTo(s), PaddedTo(e)),
           NEW r \in Strings, ~Before(r, PaddedTo(s)), e # NoInstr => Before(r, PaddedTo(e)),
           NEW i \in 1..MaxLen
    PROVE  r[i] \in ByteChoices(s, e, r, i)
<1>1. PaddedTo(s) \in Strings /\ \A k \in 1..MaxLen : PaddedTo(s)[k] = MinAt(s, k)
  BY PaddedType
<1>2. \A j \in 1..MaxLen : r[j] \in 0..MaxByte
  BY DEF Strings, Byte
<1>4. ASSUME \A j \in 1..(i - 1) : r[j] = MinAt(s, j)
      PROVE  r[i] \in MinAt(s, i) .. MaxByte
  <2>1. \A j \in 1..(i - 1) : r[j] = PaddedTo(s)[j]
    BY <1>1, <1>4, SearchAssumption
  <2>2. ~(r[i] < PaddedTo(s)[i])
    BY <1>1, <2>1, StringOrder
  <2>3. PaddedTo(s)[i] \in Int
    BY <1>1, SearchAssumption DEF Strings, Byte
  <2> QED BY <1>1, <1>2, <2>2, <2>3, SearchAssumption
<1>5. ASSUME \A j \in 1..(i - 1) : r[j] = MaxAt(e, j)
      PROVE  r[i] \in 0 .. (IF e = NoInstr \/ i # LastAvoid(e) THEN MaxAt(e, i) ELSE MaxAt(e, i) - 1)
  <2>1. CASE e = NoInstr
    BY <1>2, <2>1 DEF MaxAt, NoInstr
  <2>2. CASE e # NoInstr /\ i \notin DOMAIN e
    <3>1. i # LastAvoid(e)
      BY <1>1, <2>2, LastAvoidIs
    <3> QED BY <1>2, <2>2, <3>1 DEF MaxAt
  <2>3. CASE e # NoInstr /\ i \in DOMAIN e
    <3> DEFINE L == LastAvoid(e)
    <3>1. e \in Instrs /\ Before(PaddedTo(s), PaddedTo(e)) /\ Before(r, PaddedTo(e))
      BY <2>3
    <3>2. PaddedTo(e) \in Strings /\ \A j \in 1..MaxLen : PaddedTo(e)[j] = MinAt(e, j)
      BY <3>1, PaddedType
    <3>3. L \in 1..MaxLen /\ \A j \in 1..MaxLen : j > L => PaddedTo(e)[j] = 0
      BY <1>1, <3>1, LastAvoidIs
    <3>4. PICK m \in 1..MaxLen : DOMAIN e = 1..m
      BY <3>1, PaddedType
    <3>5. \A j \in 1..i : j \in 1..MaxLen /\ MaxAt(e, j) = PaddedTo(e)[j]
      <4>1. TAKE j \in 1..i
      <4>2. j \in 1..MaxLen /\ j \in DOMAIN e
        BY <2>3, <3>4, SearchAssumption
      <4> QED BY <3>2, <4>2 DEF MaxAt, MinAt
    <3>6. PICK k \in 1..MaxLen : r[k] < PaddedTo(e)[k] /\ \A j \in 1..(k - 1) : r[j] = PaddedTo(e)[j]
      BY <3>1, <3>2, StringOrder
    <3>7. \A j \in 1..MaxLen : PaddedTo(e)[j] \in Int /\ r[j] \in Int /\ r[j] >= 0
      BY <1>2, <3>2, SearchAssumption DEF Strings, Byte
    <3>8. \A j \in 1..(i - 1) : r[j] = PaddedTo(e)[j]
      BY <1>5, <3>5
    <3>9. k >= i
      BY <3>6, <3>7, <3>8
    <3>10. r[i] <= PaddedTo(e)[i]
      BY <3>6, <3>7, <3>9
    <3>11. i = L => r[i] < PaddedTo(e)[i]
      <4>1. SUFFICES ASSUME i = L, k # i PROVE FALSE
        BY <3>6
      <4>2. k > L
        BY <3>9, <4>1
      <4>3. PaddedTo(e)[k] = 0
        BY <3>3, <4>2
      <4> QED BY <3>6, <3>7, <4>3
    <3> QED BY <2>3, <3>5, <3>7, <3>10, <3>11
  <2> QED BY <2>1, <2>2, <2>3
<1> QED BY Zenon, <1>4, <1>5, ChoiceBounds

(* Every string of the range may be drawn, without a byte of end. *)
LEMMA InRangeIsRandom ==
    ASSUME NEW s \in Instrs, NEW e \in Instrs \union {NoInstr},
           e # NoInstr => Before(PaddedTo(s), PaddedTo(e)),
           NEW r \in Strings, ~Before(r, PaddedTo(s)), e # NoInstr => Before(r, PaddedTo(e))
    PROVE  r \in RandomInstrBytes(s, e)
<1>1. 0 \in NumEnd(e)
  BY SearchAssumption DEF NumEnd
<1>2. \A i \in 1..MaxLen : r[i] \in ByteChoices(s, e, r, i)
  BY InRangeIsChosen
<1>3. FilledUpTo(s, e, 0, r, MaxLen)
  BY <1>2 DEF FilledUpTo
<1> QED BY <1>1, <1>3 DEF RandomInstrBytes

(* The random strings are exactly those of [start, end), as the assertions *)
(* at the end of random_instr_bytes ask, for every size of a byte and      *)
(* every length of a string.                                               *)
THEOREM RangeIsExact == PairInit => StringsAreTheRange
<1> SUFFICES ASSUME PairInit PROVE StringsAreTheRange
  OBVIOUS
<1>1. start \in Instrs /\ end \in Instrs \union {NoInstr} /\ (end # NoInstr => Before(PaddedTo(start), PaddedTo(end)))
  BY DEF PairInit
<1>2. \A r \in RandomInstrBytes(start, end) : r \in Strings /\ InBounds(r)
  <2>1. RandomInstrBytes(start, end) \subseteq Strings
    BY DEF RandomInstrBytes
  <2> QED BY <1>1, <2>1, RandomIsInRange DEF InBounds
<1>3. \A r \in Strings : InBounds(r) => r \in RandomInstrBytes(start, end)
  BY <1>1, InRangeIsRandom DEF InBounds
<1> QED BY <1>2, <1>3 DEF StringsAreTheRange

(* gen_range is never called with an empty range, which would panic: as    *)
(* long as the string follows start, the next byte of start may follow,    *)
(* and otherwise a zero.                                                   *)
THEOREM RangesNotEmpty == PairInit => NeverEmptyRange
<1> SUFFICES ASSUME PairInit, NEW r \in Strings, NEW i \in 1..MaxLen PROVE ByteChoices(start, end, r, i) # {}
  BY DEF NeverEmptyRange
<1>1. start \in Instrs /\ end \in Instrs \union {NoInstr} /\ (end # NoInstr => Before(PaddedTo(start), PaddedTo(end)))
  BY DEF PairInit
<1>2. PaddedTo(start) \in Strings /\ \A j \in 1..MaxLen : PaddedTo(start)[j] = MinAt(start, j)
  BY <1>1, PaddedType
<1>3. CASE \A j \in 1..(i - 1) : r[j] = MinAt(start, j)
  <2>1. ~Before(PaddedTo(start), PaddedTo(start))
    <3>1. \A j \in 1..MaxLen : PaddedTo(start)[j] \in Int
      BY <1>2, SearchAssumption DEF Strings, Byte
    <3> QED BY <1>2, <3>1, StringOrder
  <2>2. PaddedTo(start)[i] \in ByteChoices(start, end, PaddedTo(start), i)
    BY <1>1, <1>2, <2>1, InRangeIsChosen
  <2>3. \A j \in 1..(i - 1) : r[j] = PaddedTo(start)[j]
    BY <1>2, <1>3, SearchAssumption
  <2>4. ByteChoices(start, end, r, i) = ByteChoices(start, end, PaddedTo(start), i)
    BY <2>3 DEF ByteChoices
  <2> QED BY <2>2, <2>4
<1>4. CASE ~(\A j \in 1..(i - 1) : r[j] = MinAt(start, j))
  <2>1. MaxAt(end, i) \in Nat /\ (end # NoInstr /\ i = LastAvoid(end) => MaxAt(end, i) # 0)
    <3>1. CASE end = NoInstr
      BY <3>1, SearchAssumption DEF MaxAt, NoInstr
    <3>2. CASE end # NoInstr
      <4>1. end \in Instrs /\ Before(PaddedTo(start), PaddedTo(end))
        BY <1>1, <3>2
      <4>2. PICK m \in 1..MaxLen : end \in [1..m -> Byte] /\ DOMAIN end = 1..m
        BY <4>1, PaddedType
      <4>3. MaxAt(end, i) \in Nat
        BY <4>2, SearchAssumption DEF MaxAt, Byte
      <4>4. LastAvoid(end) \in DOMAIN end /\ PaddedTo(end)[LastAvoid(end)] # 0 /\ LastAvoid(end) \in 1..MaxLen
        BY <1>2, <4>1, LastAvoidIs
      <4>5. PaddedTo(end)[LastAvoid(end)] = MaxAt(end, LastAvoid(end))
        BY <4>1, <4>4, PaddedType DEF MaxAt, MinAt
      <4> QED BY <4>3, <4>4, <4>5
    <3> QED BY <3>1, <3>2
  <2>2. 0 \in ByteChoices(start, end, r, i)
    BY <1>4, <2>1, SearchAssumption DEF ByteChoices
  <2> QED BY <2>2
<1> QED BY <1>3, <1>4

-----------------------------------------------------------------------------
(* The search.                                                             *)

(* What the search may try: a string that is not below the start, at a     *)
(* length up to which it is too short.                                     *)
Tries(v, s) == {b \in [bytes : Strings, len : 1..MaxLen] :
                  /\ ~Before(b.bytes, PaddedTo(s))
                  /\ \A m \in 1..(b.len - 1) : v[SubSeq(b.bytes, 1, m)] = "short"}

(* e is found: it is valid and comes after the start, padded or not. *)
Found(v, s, e) == /\ e \in Instrs /\ v[e] = "ok" /\ Before(s, e) /\ Before(PaddedTo(s), PaddedTo(e))

(* The inductive invariant of the search. *)
SearchInv == /\ validity \in Validities /\ start \in Instrs /\ validity[start] = "invalid"
             /\ end # NoInstr => Found(validity, start, end)
             /\ \A p \in prefixes : validity[p] = "short"
             /\ \A i \in invalid : validity[i] = "invalid"
             /\ batch \in Seq(Tries(validity, start)) /\ newBatch \in Seq(Tries(validity, start))

(* A sequence is a function of its positions. *)
LEMMA SequenceIsFunction ==
    ASSUME NEW C, NEW x \in Seq(C)
    PROVE  DOMAIN x = 1..Len(x) /\ x \in [1..Len(x) -> C]
  OBVIOUS

(* The first bytes of a string are an instruction. *)
LEMMA PrefixIsInstr ==
    ASSUME NEW r \in Strings, NEW m \in 1..MaxLen, NEW i, i = SubSeq(r, 1, m)
    PROVE  /\ i \in Instrs /\ i \in [1..m -> Byte] /\ Len(i) = m /\ DOMAIN i = 1..m
           /\ \A k \in 1..m : i[k] = r[k]
<1>1. r \in Seq(Byte) /\ Len(r) = MaxLen /\ m \in Nat /\ m <= MaxLen
  BY SearchAssumption DEF Strings
<1>2. i \in Seq(Byte) /\ Len(i) = m /\ \A k \in 1..m : i[k] = r[k]
  BY <1>1
<1>3. DOMAIN i = 1..m /\ i \in [1..m -> Byte]
  <2>1. DOMAIN i = 1..Len(i) /\ i \in [1..Len(i) -> Byte]
    BY <1>2, SequenceIsFunction, Zenon
  <2> QED BY <1>2, <2>1, Zenon
<1> QED BY <1>2, <1>3, Zenon DEF Instrs

(* The first byte in which s and i differ, which both have. *)
FirstDifference(s, i, k) == /\ k \in DOMAIN s /\ k \in DOMAIN i /\ s[k] # i[k]
                            /\ \A j \in 1..(k - 1) : j \in DOMAIN s /\ j \in DOMAIN i /\ s[j] = i[j]

(* A valid instruction and an invalid one differ in a byte that both have. *)
LEMMA DifferInByte ==
    ASSUME NEW v, IsProcessor(v), NEW s \in Instrs, NEW i \in Instrs, v[s] = "invalid", v[i] = "ok"
    PROVE  \E k \in 1..MaxLen : FirstDifference(s, i, k)
<1>1. PICK n \in 1..MaxLen : s \in [1..n -> Byte] /\ Len(s) = n /\ DOMAIN s = 1..n
  BY PaddedType, Zenon
<1>2. PICK m \in 1..MaxLen : i \in [1..m -> Byte] /\ Len(i) = m /\ DOMAIN i = 1..m
  BY PaddedType, Zenon
<1>3. PICK D : D = {k \in 1..MaxLen : k \in DOMAIN s /\ k \in DOMAIN i /\ s[k] # i[k]}
  BY Zenon
<1>4. D # {}
  <2> SUFFICES ASSUME D = {} PROVE FALSE
    OBVIOUS
  <2>0. n \in Nat /\ m \in Nat /\ n <= MaxLen /\ m <= MaxLen /\ MaxLen \in Nat
    BY SearchAssumption
  <2>1. \A k \in 1..MaxLen : k \in DOMAIN s /\ k \in DOMAIN i => s[k] = i[k]
    BY <1>3, Zenon
  <2>2. CASE n < m
    <3>1. \A k \in 1..n : k \in 1..MaxLen /\ k \in 1..m
      BY <2>0, <2>2
    <3>2. \A k \in DOMAIN s : s[k] = i[k]
      BY <1>1, <1>2, <2>1, <3>1, Zenon
    <3>3. IsPrefixOf(s, i)
      BY <1>1, <1>2, <2>2, <3>2, Zenon DEF IsPrefixOf
    <3>4. v[s] = "short"
      BY <3>3, Zenon DEF IsProcessor
    <3> QED BY <3>4
  <2>3. CASE m < n
    <3>1. \A k \in 1..m : k \in 1..MaxLen /\ k \in 1..n
      BY <2>0, <2>3
    <3>2. \A k \in DOMAIN i : i[k] = s[k]
      BY <1>1, <1>2, <2>1, <3>1, Zenon
    <3>3. IsPrefixOf(i, s)
      BY <1>1, <1>2, <2>3, <3>2, Zenon DEF IsPrefixOf
    <3>4. v[i] = "short"
      BY <3>3, Zenon DEF IsProcessor
    <3> QED BY <3>4
  <2>4. CASE m = n
    <3>1. \A k \in 1..n : k \in 1..MaxLen
      BY <2>0
    <3>2. \A k \in 1..n : s[k] = i[k]
      BY <1>1, <1>2, <2>1, <2>4, <3>1, Zenon
    <3>3. s = i
      BY <1>1, <1>2, <2>4, <3>2
    <3> QED BY <3>3
  <2> QED BY <2>0, <2>2, <2>3, <2>4
<1>5. D \in SUBSET Nat
  BY <1>3, SearchAssumption
<1>6. PICK k \in D : \A j \in D : k <= j
  BY <1>4, <1>5, Smallest, Zenon
<1>7. k \in 1..MaxLen /\ k \in DOMAIN s /\ k \in DOMAIN i /\ s[k] # i[k]
  BY <1>3, <1>6, Zenon
<1>8. ASSUME NEW j \in 1..(k - 1) PROVE j \in DOMAIN s /\ j \in DOMAIN i /\ s[j] = i[j]
  <2>1. j \in 1..MaxLen /\ j \in 1..n /\ j \in 1..m /\ ~(k <= j)
    BY <1>1, <1>2, <1>7, SearchAssumption
  <2>2. j \notin D
    BY <1>6, <2>1, Zenon
  <2> QED BY <1>1, <1>2, <1>3, <2>1, <2>2, Zenon
<1> QED BY <1>7, <1>8, Zenon DEF FirstDifference

(* A valid instruction that the search tries comes after the start. *)
LEMMA TriedIsFound ==
    ASSUME NEW v, IsProcessor(v), NEW s \in Instrs, v[s] = "invalid",
           NEW b \in Tries(v, s), v[Instr(b)] = "ok"
    PROVE  Found(v, s, Instr(b))
<1>1. b.bytes \in Strings /\ b.len \in 1..MaxLen /\ ~Before(b.bytes, PaddedTo(s))
  BY DEF Tries
<1>r. PICK r \in Strings, m \in 1..MaxLen : r = b.bytes /\ m = b.len
  BY <1>1, Zenon
<1>2. PICK i : i = SubSeq(r, 1, m) /\ i = Instr(b)
  BY <1>r, Zenon DEF Instr
<1>3. i \in Instrs /\ DOMAIN i = 1..m /\ \A k \in 1..m : i[k] = r[k]
  <2>1. i = SubSeq(r, 1, m)
    BY <1>2, Zenon
  <2> QED BY <2>1, PrefixIsInstr, Zenon
<1>d. PICK k \in 1..MaxLen : FirstDifference(s, i, k)
  BY <1>2, <1>3, DifferInByte, Zenon
<1>4. /\ k \in DOMAIN s /\ k \in DOMAIN i /\ s[k] # i[k]
      /\ \A j \in 1..(k - 1) : j \in DOMAIN s /\ j \in DOMAIN i /\ s[j] = i[j]
  BY <1>d, Zenon DEF FirstDifference
<1>5. PICK p \in Strings, q \in Strings : p = PaddedTo(s) /\ q = PaddedTo(i)
  BY <1>3, PaddedType, Zenon
<1>6. p[k] = s[k] /\ q[k] = i[k] /\ r[k] = i[k]
  BY <1>3, <1>4, <1>5, PaddedType, Zenon DEF MinAt
<1>7. ASSUME NEW j \in 1..(k - 1) PROVE p[j] = s[j] /\ q[j] = i[j] /\ r[j] = i[j] /\ s[j] = i[j]
  <2>1. j \in 1..MaxLen /\ j \in DOMAIN s /\ j \in DOMAIN i /\ s[j] = i[j]
    BY <1>4, SearchAssumption
  <2> QED BY <1>3, <1>5, <2>1, PaddedType, Zenon DEF MinAt
<1>8. s[k] < i[k]
  <2>1. p[k] \in Int /\ r[k] \in Int
    BY SearchAssumption DEF Strings, Byte
  <2>2. ~(r[k] < p[k])
    <3> SUFFICES ASSUME r[k] < p[k] PROVE FALSE
      OBVIOUS
    <3>1. \A j \in 1..(k - 1) : r[j] = p[j]
      BY <1>7, Zenon
    <3>2. Before(r, p)
      BY <3>1, StringOrder, Zenon
    <3> QED BY <1>1, <1>5, <1>r, <3>2, Zenon
  <2>3. p[k] < r[k]
    BY <1>4, <1>6, <2>1, <2>2
  <2> QED BY <1>6, <2>3, Zenon
<1>9. Before(s, i)
  BY <1>4, <1>8, Zenon DEF Before
<1>10. Before(p, q)
  <2>1. p[k] < q[k] /\ \A j \in 1..(k - 1) : p[j] = q[j]
    BY <1>6, <1>7, <1>8, Zenon
  <2> QED BY <2>1, StringOrder, Zenon
<1> QED BY <1>2, <1>3, <1>5, <1>9, <1>10, Zenon DEF Found

(* min_length: all that is shorter is a known prefix. *)
LEMMA MinLengthIs ==
    ASSUME NEW r
    PROVE  MinLength(r) \in 1..MaxLen /\ \A m \in 1..(MinLength(r) - 1) : SubSeq(r, 1, m) \in prefixes
<1>1. PICK fresh : fresh = {n \in 1..(MaxLen - 1) : SubSeq(r, 1, n) \notin prefixes}
  BY Zenon
<1>2. MinLength(r) = IF fresh = {} THEN MaxLen ELSE CHOOSE n \in fresh : \A m \in fresh : n <= m
  BY <1>1 DEF MinLength
<1>3. CASE fresh = {}
  <2>1. MinLength(r) = MaxLen /\ MaxLen \in 1..MaxLen
    BY <1>2, <1>3, SearchAssumption
  <2>2. \A m \in 1..(MaxLen - 1) : SubSeq(r, 1, m) \in prefixes
    BY <1>1, <1>3, Zenon
  <2> QED BY <2>1, <2>2, Zenon
<1>4. CASE fresh # {}
  <2>1. fresh \in SUBSET Nat
    BY <1>1, SearchAssumption
  <2>2. \E n \in fresh : \A m \in fresh : n <= m
    BY <1>4, <2>1, Smallest, Zenon
  <2>3. PICK n \in fresh : n = MinLength(r) /\ \A m \in fresh : n <= m
    BY <1>2, <1>4, <2>2, Zenon
  <2>4. n \in 1..MaxLen /\ \A m \in 1..(n - 1) : m \in 1..(MaxLen - 1) /\ ~(n <= m)
    BY <1>1, <2>3, SearchAssumption
  <2> QED BY <1>1, <2>3, <2>4, Zenon
<1> QED BY <1>3, <1>4

(* A new string of the batch. *)
LEMMA NewIsTry ==
    ASSUME SearchInv, NEW r \in RandomInstrBytes(start, end)
    PROVE  [bytes |-> r, len |-> MinLength(r)] \in Tries(validity, start)
<1>1. /\ start \in Instrs /\ end \in Instrs \union {NoInstr} /\ (end # NoInstr => Before(PaddedTo(start), PaddedTo(end)))
      /\ \A p \in prefixes : validity[p] = "short"
  BY Zenon DEF SearchInv, Found
<1>2. r \in Strings /\ ~Before(r, PaddedTo(start))
  BY <1>1, RandomIsInRange, Zenon DEF RandomInstrBytes
<1>3. PICK l \in 1..MaxLen : l = MinLength(r) /\ \A m \in 1..(l - 1) : validity[SubSeq(r, 1, m)] = "short"
  BY <1>1, MinLengthIs, Zenon
<1>4. PICK b : b = [bytes |-> r, len |-> l]
  BY Zenon
<1>5. b \in [bytes : Strings, len : 1..MaxLen] /\ b.bytes = r /\ b.len = l
  BY <1>2, <1>4
<1>6. b \in Tries(validity, start)
  BY <1>2, <1>3, <1>5, Zenon DEF Tries
<1> QED BY <1>3, <1>4, <1>6, Zenon

(* retain leaves strings that were there. *)
LEMMA FillKeeps == SearchInv /\ FillBatch => SearchInv'
<1> SUFFICES ASSUME SearchInv, FillBatch PROVE SearchInv'
  OBVIOUS
<1>0. /\ validity' = validity /\ start' = start /\ end' = end /\ prefixes' = prefixes /\ invalid' = invalid
      /\ newBatch' = << >>
  BY DEF FillBatch
<1>1. PICK T : T = Tries(validity, start)
  BY Zenon
<1>2. newBatch \in Seq(T)
  BY <1>1, Zenon DEF SearchInv
<1>n. PICK new \in [1..(BatchLen - Len(newBatch)) -> RandomInstrBytes(start, end)] :
         LET all == newBatch \o [n \in DOMAIN new |-> [bytes |-> new[n], len |-> MinLength(new[n])]]
             kept == {n \in DOMAIN all : Instr(all[n]) \notin invalid}
         IN  \E len \in 0..Len(all) : \E at \in [1..len -> kept] : batch' = [n \in 1..len |-> all[at[n]]]
  BY Zenon DEF FillBatch
<1> DEFINE more == [n \in DOMAIN new |-> [bytes |-> new[n], len |-> MinLength(new[n])]]
           all == newBatch \o more
<1>m. more = [n \in DOMAIN new |-> [bytes |-> new[n], len |-> MinLength(new[n])]]
  BY Zenon
<1>a. \E len \in 0..Len(all) : \E at \in [1..len -> {n \in DOMAIN all : Instr(all[n]) \notin invalid}] :
         batch' = [n \in 1..len |-> all[at[n]]]
  BY <1>n, Zenon
<1>b. all = newBatch \o more
  BY Zenon
<1> HIDE DEF more, all
<1>3. PICK len \in 0..Len(all) : \E at \in [1..len -> DOMAIN all] : batch' = [n \in 1..len |-> all[at[n]]]
  <2>1. \A len : [1..len -> {n \in DOMAIN all : Instr(all[n]) \notin invalid}] \in SUBSET [1..len -> DOMAIN all]
    BY Zenon
  <2> QED BY <1>a, <2>1, Zenon
<1>p. PICK at \in [1..len -> DOMAIN all] : batch' = [n \in 1..len |-> all[at[n]]]
  BY <1>3, Zenon
<1>4. more \in Seq(T)
  <2>1. \A n \in DOMAIN new : more[n] \in T
    BY <1>1, <1>m, NewIsTry, Zenon
  <2>2. PICK k \in Int : k = BatchLen - Len(newBatch)
    <3>1. PICK n \in Nat : n = Len(newBatch)
      BY <1>2
    <3>2. BatchLen - n \in Int
      BY SearchAssumption
    <3> QED BY <3>1, <3>2, Zenon
  <2>3. DOMAIN new = 1..k /\ DOMAIN more = 1..k
    BY <1>m, <2>2, Zenon
  <2>4. PICK l \in Nat : 1..k = 1..l
    <3>1. CASE k \in Nat
      BY <3>1, Zenon
    <3>2. CASE k \notin Nat
      <4>1. 1..k = 1..0
        BY <3>2
      <4> QED BY <4>1
    <3> QED BY <3>1, <3>2
  <2>5. more = [n \in 1..l |-> more[n]] /\ \A n \in 1..l : more[n] \in T
    BY <1>m, <2>1, <2>3, <2>4, Zenon
  <2>6. more \in [1..l -> T]
    BY <2>5, Zenon
  <2> QED BY <2>4, <2>6
<1>5. all \in Seq(T) /\ Len(all) \in Nat
  BY <1>2, <1>4, <1>b
<1>6. \A n \in 1..len : all[at[n]] \in T
  <2>1. \A n \in DOMAIN all : all[n] \in T
    BY <1>5
  <2> QED BY <2>1, Zenon
<1>7. batch' \in [1..len -> T] /\ len \in Nat
  BY <1>5, <1>6, <1>p
<1>8. batch' \in Seq(T) /\ << >> \in Seq(T)
  BY <1>7
<1> QED BY <1>0, <1>1, <1>8, Zenon DEF SearchInv

(* What an answer teaches. *)
LEMMA AnswerKeeps == SearchInv /\ Answer => SearchInv'
<1> SUFFICES ASSUME SearchInv, Answer PROVE SearchInv'
  OBVIOUS
<1>1. PICK T : T = Tries(validity, start)
  BY Zenon
<1>2. batch \in Seq(T) /\ newBatch \in Seq(T) /\ batch # << >>
  BY <1>1, Zenon DEF SearchInv, Answer
<1>3. PICK b \in T : b = Head(batch)
  BY <1>2
<1>4. batch' = Tail(batch) /\ batch' \in Seq(T)
  <2>1. Tail(batch) \in Seq(T)
    BY <1>2
  <2> QED BY <2>1, Zenon DEF Answer
<1>5. PICK instr : instr = Instr(b)
  BY Zenon
<1>6. /\ validity' = validity /\ start' = start
      /\ prefixes' = IF validity[instr] = "short" THEN prefixes \union {instr} ELSE prefixes
      /\ newBatch' = IF validity[instr] = "short" THEN Append(newBatch, [b EXCEPT !.len = @ + 1]) ELSE newBatch
      /\ invalid' = IF validity[instr] = "invalid" THEN invalid \union {instr} ELSE invalid
      /\ end' = IF validity[instr] = "ok" /\ Better(instr) THEN instr ELSE end
  BY <1>3, <1>5, Zenon DEF Answer
<1>7. /\ validity \in Validities /\ IsProcessor(validity) /\ start \in Instrs /\ validity[start] = "invalid"
      /\ end # NoInstr => Found(validity, start, end)
      /\ \A p \in prefixes : validity[p] = "short"
      /\ \A i \in invalid : validity[i] = "invalid"
  BY ProcessorAssumption, Zenon DEF SearchInv
<1>8. end' # NoInstr => Found(validity, start, end')
  <2>1. validity[instr] = "ok" => Found(validity, start, instr)
    BY <1>1, <1>3, <1>5, <1>7, TriedIsFound, Zenon
  <2> QED BY <1>6, <1>7, <2>1, Zenon
<1>9. (\A p \in prefixes' : validity[p] = "short") /\ \A i \in invalid' : validity[i] = "invalid"
  BY <1>6, <1>7
<1>10. newBatch' \in Seq(T)
  <2>1. CASE validity[instr] # "short"
    BY <1>2, <1>6, <2>1, Zenon
  <2>2. CASE validity[instr] = "short"
    <3>1. PICK r \in Strings, l \in 1..MaxLen : b = [bytes |-> r, len |-> l]
      BY <1>1, <1>3 DEF Tries
    <3>2. b.bytes = r /\ b.len = l
      BY <3>1
    <3>3. ~Before(r, PaddedTo(start)) /\ \A m \in 1..(l - 1) : validity[SubSeq(r, 1, m)] = "short"
      BY <1>1, <1>3, <3>2, Zenon DEF Tries
    <3>4. instr = SubSeq(r, 1, l)
      BY <1>5, <3>2, Zenon DEF Instr
    <3>5. instr \in Instrs /\ Len(instr) = l
      BY <3>1, <3>4, PrefixIsInstr, Zenon
    <3>6. l < MaxLen
      BY <1>7, <2>2, <3>5, Zenon DEF IsProcessor
    <3>7. PICK k \in 1..MaxLen : k = l + 1 /\ k - 1 = l /\ \A m \in 1..l : m = l \/ m \in 1..(l - 1)
      BY <3>6, SearchAssumption
    <3>8. PICK c : c = [bytes |-> r, len |-> k]
      BY Zenon
    <3>9. c \in [bytes : Strings, len : 1..MaxLen] /\ c.bytes = r /\ c.len = k
      BY <3>8
    <3>10. \A m \in 1..(k - 1) : validity[SubSeq(r, 1, m)] = "short"
      BY <2>2, <3>3, <3>4, <3>7, Zenon
    <3>11. c \in T
      BY <1>1, <3>3, <3>9, <3>10, Zenon DEF Tries
    <3>12. [b EXCEPT !.len = @ + 1] = c
      BY <3>1, <3>7, <3>8
    <3>13. newBatch' = Append(newBatch, c)
      BY <1>6, <2>2, <3>12, Zenon
    <3>14. Append(newBatch, c) \in Seq(T)
      BY <1>2, <3>11
    <3> QED BY <3>13, <3>14, Zenon
  <2> QED BY <2>1, <2>2
<1> QED BY <1>1, <1>4, <1>6, <1>7, <1>8, <1>9, <1>10, Zenon DEF SearchInv

(* SearchInv holds from the start of a search, and with each batch and     *)
(* each answer.                                                            *)
THEOREM SearchInvariant == SearchSpec => []SearchInv
<1>1. SearchInit => SearchInv
  <2> SUFFICES ASSUME SearchInit PROVE SearchInv
    OBVIOUS
  <2>1. /\ validity \in Validities /\ start \in Instrs /\ validity[start] = "invalid"
        /\ end = NoInstr /\ prefixes = {} /\ invalid = {} /\ batch = << >> /\ newBatch = << >>
    BY ProcessorAssumption DEF SearchInit
  <2>2. << >> \in Seq(Tries(validity, start))
    OBVIOUS
  <2> QED BY <2>1, <2>2 DEF SearchInv
<1>2. SearchInv /\ [SearchNext]_searchVars => SearchInv'
  <2> SUFFICES ASSUME SearchInv, [SearchNext]_searchVars PROVE SearchInv'
    OBVIOUS
  <2>1. CASE UNCHANGED searchVars
    BY <2>1, Zenon DEF SearchInv, searchVars
  <2> QED BY <2>1, FillKeeps, AnswerKeeps DEF SearchNext
<1> QED BY <1>1, <1>2, PTL DEF SearchSpec

(* What the search returns is a valid instruction after the start, and     *)
(* what it takes for invalid or too short, the processor said it is.       *)
THEOREM SearchesAreSound == SearchSpec => []SearchIsSound
<1>1. SearchInv => SearchIsSound
  <2> SUFFICES ASSUME SearchInv PROVE SearchIsSound
    OBVIOUS
  <2>1. FoundIsValid
    BY Zenon DEF SearchInv, Found, FoundIsValid
  <2>2. \A n \in DOMAIN batch : batch[n] \in Tries(validity, start)
    BY DEF SearchInv
  <2>3. KnowledgeIsSound
    BY <2>2, Zenon DEF SearchInv, Tries, KnowledgeIsSound
  <2> QED BY <2>1, <2>3 DEF SearchIsSound
<1> QED BY <1>1, SearchInvariant, PTL

-----------------------------------------------------------------------------
(* The file of the cache.                                                  *)

(* The cells of a file are laid out as records: the cell at p is cell f[p].n *)
(* of its record, and as much of that record as f has is there.             *)
Cell == [instr : Instructions, result : Results, n : Nat \ {0}]
CellOf(i, v, k) == [instr |-> i, result |-> v, n |-> k]
LaidOut(f, s, i, v) == \A k \in 1 .. RecordLength(v) : s + k <= Len(f) => f[s + k] = CellOf(i, v, k)
WellFormed(f) ==
    /\ f \in Seq(Cell)
    /\ \A p \in DOMAIN f : /\ f[p].n <= p /\ f[p].n <= RecordLength(f[p].result)
                           /\ LaidOut(f, p - f[p].n, f[p].instr, f[p].result)

(* f ends with a whole record. *)
Ended(f) == f = << >> \/ f[Len(f)].n = RecordLength(f[Len(f)].result)

(* What is on file was computed. *)
Genuine(f, c) == \A p \in DOMAIN f : f[p].result \in c[f[p].instr]

(* The record that the index gives for i. *)
Indexed(f, i, o) == /\ i \in Instructions /\ o \in Nat /\ o < Len(f) /\ f[o + 1].n = 1 /\ f[o + 1].instr = i
                    /\ o + RecordLength(f[o + 1].result) <= Len(f)

Working == [at : {"idle"}] \cup [at : {"compute"}, instr : Instructions]
           \cup [at : {"save", "done"}, instr : Instructions, result : Results]

(* The inductive invariant of the cache file.  The file and what the       *)
(* writer still has are one sequence of records; it ends with a whole one  *)
(* while the cache runs.                                                   *)
FileInv == /\ file \in Seq(Cell) /\ buffer \in Seq(Cell)
           /\ WellFormed(file \o buffer) /\ Genuine(file \o buffer, computed)
           /\ running \in BOOLEAN /\ (running => Ended(file \o buffer)) /\ (~ running => buffer = << >>)
           /\ \A i \in DOMAIN index : Indexed(file, i, index[i])
           /\ \A i \in DOMAIN inner : i \in Instructions /\ inner[i] \in computed[i]
           /\ pc \in [Threads -> Working] /\ computed \in [Instructions -> SUBSET Results]
           /\ AnswersComputed

(* Facts about sequences. *)
LEMMA SameSequence ==
    ASSUME NEW C, NEW s \in Seq(C), NEW t \in Seq(C), Len(s) = Len(t), \A i \in 1 .. Len(s) : s[i] = t[i]
    PROVE  s = t
  OBVIOUS

(* What is appended to a sequence makes it as much longer. *)
LEMMA Joining ==
    ASSUME NEW C, NEW s \in Seq(C), NEW t \in Seq(C)
    PROVE  s \o t \in Seq(C) /\ Len(s \o t) = Len(s) + Len(t)
  OBVIOUS

(* A sequence is cut in two parts and is their concatenation. *)
LEMMA InTwoParts ==
    ASSUME NEW C, NEW s \in Seq(C), NEW n \in 1 .. Len(s)
    PROVE  SubSeq(s, 1, n) \o SubSeq(s, n + 1, Len(s)) = s
<1>1. PICK a, b : a = SubSeq(s, 1, n) /\ b = SubSeq(s, n + 1, Len(s))
  BY Zenon
<1>2. a \in Seq(C) /\ Len(a) = n /\ \A i \in 1 .. n : a[i] = s[i]
  BY <1>1
<1>3. b \in Seq(C) /\ Len(b) = Len(s) - n /\ \A i \in 1 .. Len(s) - n : b[i] = s[n + i]
  BY <1>1
<1>4. a \o b \in Seq(C) /\ Len(a \o b) = Len(s)
  BY <1>2, <1>3
<1>5. ASSUME NEW i \in 1 .. Len(s) PROVE (a \o b)[i] = s[i]
  BY <1>2, <1>3
<1>6. a \o b = s
  BY Zenon, <1>4, <1>5, SameSequence
<1> QED BY <1>1, <1>6, Zenon

(* A record has at least one cell. *)
LEMMA RecordHasCells == ASSUME NEW v \in Results PROVE RecordLength(v) \in Nat \ {0}
BY CacheAssumption DEF RecordLength

(* The cells of f, typed. *)
LEMMA CellFacts ==
    ASSUME NEW f, WellFormed(f), NEW p \in DOMAIN f
    PROVE  /\ f \in Seq(Cell) /\ Len(f) \in Nat /\ DOMAIN f = 1 .. Len(f)
           /\ p \in Nat /\ f[p] \in Cell /\ f[p].n \in Nat /\ f[p].n >= 1 /\ f[p].n <= p
           /\ f[p].instr \in Instructions /\ f[p].result \in Results
           /\ RecordLength(f[p].result) \in Nat /\ f[p].n <= RecordLength(f[p].result)
           /\ f[p] = CellOf(f[p].instr, f[p].result, f[p].n)
<1>1. f \in Seq(Cell) /\ f[p].n <= p /\ f[p].n <= RecordLength(f[p].result)
  BY Zenon DEF WellFormed
<1>2. Len(f) \in Nat /\ DOMAIN f = 1 .. Len(f) /\ f[p] \in Cell
  BY <1>1
<1>3. /\ f[p].n \in Nat /\ f[p].n >= 1 /\ f[p].instr \in Instructions /\ f[p].result \in Results
      /\ f[p] = CellOf(f[p].instr, f[p].result, f[p].n)
  BY <1>2 DEF Cell, CellOf
<1>4. p \in Nat
  BY <1>2
<1> QED BY <1>1, <1>2, <1>3, <1>4, RecordHasCells

(* The record that starts at p is there as far as f goes. *)
LEMMA StartLaidOut ==
    ASSUME NEW f, WellFormed(f), NEW p \in DOMAIN f, f[p].n = 1,
           NEW k \in 1 .. RecordLength(f[p].result), p - 1 + k <= Len(f)
    PROVE  f[p - 1 + k] = CellOf(f[p].instr, f[p].result, k)
<1>1. LaidOut(f, p - f[p].n, f[p].instr, f[p].result)
  BY Zenon DEF WellFormed
<1>2. LaidOut(f, p - 1, f[p].instr, f[p].result)
  BY <1>1
<1> QED BY <1>2, Zenon DEF LaidOut

(* The first cells of a file are laid out as records, too. *)
LEMMA CutLaidOut ==
    ASSUME NEW f, WellFormed(f), NEW m \in 0 .. Len(f), NEW g, g = SubSeq(f, 1, m)
    PROVE  /\ WellFormed(g) /\ Len(g) = m /\ DOMAIN g = 1 .. m
           /\ \A p \in 1 .. m : p \in DOMAIN f /\ g[p] = f[p]
<1>1. f \in Seq(Cell) /\ Len(f) \in Nat /\ m \in Nat /\ m <= Len(f)
  BY DEF WellFormed
<1>2. g \in Seq(Cell) /\ Len(g) = m /\ DOMAIN g = 1 .. m
  BY <1>1
<1>3. \A p \in 1 .. m : p \in DOMAIN f /\ g[p] = f[p]
  BY <1>1
<1>4. ASSUME NEW p \in DOMAIN g
      PROVE  /\ g[p].n <= p /\ g[p].n <= RecordLength(g[p].result)
             /\ LaidOut(g, p - g[p].n, g[p].instr, g[p].result)
  <2>1. p \in DOMAIN f /\ g[p] = f[p]
    BY <1>2, <1>3, Zenon
  <2>2. LaidOut(f, p - f[p].n, f[p].instr, f[p].result) /\ f[p].n <= p /\ f[p].n <= RecordLength(f[p].result)
    BY <2>1, Zenon DEF WellFormed
  <2>3. LaidOut(g, p - f[p].n, f[p].instr, f[p].result)
    <3> SUFFICES ASSUME NEW k \in 1 .. RecordLength(f[p].result), p - f[p].n + k <= Len(g)
                 PROVE  g[p - f[p].n + k] = CellOf(f[p].instr, f[p].result, k)
      BY Zenon DEF LaidOut
    <3>1. f[p].n \in Nat /\ f[p].n <= p /\ p \in Nat /\ RecordLength(f[p].result) \in Nat
      BY Zenon, <2>1, CellFacts
    <3>2. p - f[p].n + k \in 1 .. m /\ p - f[p].n + k <= Len(f)
      BY <1>1, <1>2, <3>1
    <3>3. f[p - f[p].n + k] = CellOf(f[p].instr, f[p].result, k)
      BY <2>2, <3>2, Zenon DEF LaidOut
    <3> QED BY <1>3, <3>2, <3>3, Zenon
  <2> QED BY <2>1, <2>2, <2>3, Zenon
<1> QED BY <1>2, <1>3, <1>4, Zenon DEF WellFormed

(* g has the cells of f and then those of the record. *)
Grown(f, g, i, v) == \A p \in DOMAIN g : (p \in DOMAIN f /\ g[p] = f[p]) \/ (g[p].instr = i /\ g[p].result = v)

(* A record is appended to a file that ends with a whole one. *)
LEMMA AppendLaidOut ==
    ASSUME NEW f, WellFormed(f), Ended(f), NEW i \in Instructions, NEW v \in Results, NEW g, g = f \o Record(i, v)
    PROVE  WellFormed(g) /\ Ended(g) /\ Grown(f, g, i, v)
<1>0. f \in Seq(Cell)
  BY Zenon DEF WellFormed
<1>1. PICK m \in Nat, l \in Nat : m = Len(f) /\ l = RecordLength(v) /\ l >= 1 /\ DOMAIN f = 1 .. m
  BY <1>0, RecordHasCells
<1>r. PICK rec : rec = Record(i, v)
  BY Zenon
<1>2. rec \in [1 .. l -> Cell] /\ \A k \in 1 .. l : rec[k] = CellOf(i, v, k)
  BY <1>1, <1>r DEF Record, Cell, CellOf
<1>3. rec \in Seq(Cell) /\ Len(rec) = l
  BY <1>2
<1>4. /\ g \in Seq(Cell) /\ Len(g) = m + l /\ DOMAIN g = 1 .. m + l
      /\ \A p \in 1 .. m + l : p <= m => g[p] = f[p]
      /\ \A p \in 1 .. m + l : ~ (p <= m) => g[p] = rec[p - m]
  <2>1. g = f \o rec
    BY <1>r, Zenon
  <2>2. g \in Seq(Cell) /\ Len(g) = m + l
    <3>1. f \o rec \in Seq(Cell) /\ Len(f \o rec) = Len(f) + Len(rec)
      BY <1>0, <1>3, Joining, Zenon
    <3> QED BY <1>1, <1>3, <2>1, <3>1, Zenon
  <2>3. \A p \in 1 .. m + l : p <= m => g[p] = f[p]
    BY <1>0, <1>1, <1>3, <2>1
  <2>4. \A p \in 1 .. m + l : ~ (p <= m) => g[p] = rec[p - m]
    BY <1>0, <1>1, <1>3, <2>1
  <2> QED BY <2>2, <2>3, <2>4
<1>5. ASSUME NEW p \in 1 .. m PROVE g[p] = f[p]
  <2>1. p \in 1 .. m + l /\ p <= m
    BY <1>1
  <2> QED BY <1>4, <2>1, Zenon
<1>6. \A k \in 1 .. l : g[m + k] = CellOf(i, v, k)
  <2> TAKE k \in 1 .. l
  <2>1. m + k \in 1 .. m + l /\ ~ (m + k <= m) /\ m + k - m = k
    OBVIOUS
  <2>2. g[m + k] = rec[m + k - m]
    BY <1>4, <2>1
  <2> QED BY Zenon, <1>2, <2>1, <2>2
<1>7. ASSUME NEW p \in 1 .. m
      PROVE  /\ g[p].n <= p /\ g[p].n <= RecordLength(g[p].result)
             /\ LaidOut(g, p - g[p].n, g[p].instr, g[p].result)
  <2>1. /\ f[p].n \in Nat /\ f[p].n >= 1 /\ f[p].n <= p /\ f[p].n <= RecordLength(f[p].result)
        /\ RecordLength(f[p].result) \in Nat /\ f[p].result \in Results
    BY Zenon, <1>1, CellFacts
  <2>2. PICK s \in Nat : s = p - f[p].n /\ s < m
    BY <2>1
  <2>3. LaidOut(f, s, f[p].instr, f[p].result)
    BY <1>1, <2>2, Zenon DEF WellFormed
  <2>4. PICK r \in Nat : r = RecordLength(f[p].result)
    BY <2>1, Zenon
  <2>5. s + r <= m
    <3> SUFFICES ASSUME ~ (s + r <= m) PROVE FALSE
      BY Zenon
    <3>1. m - s \in 1 .. r /\ s + (m - s) = m /\ m - s # r /\ m \in 1 .. m
      <4>1. s < m
        BY <2>2, Zenon
      <4> QED BY <4>1
    <3>2. f[m] = CellOf(f[p].instr, f[p].result, m - s)
      BY <1>1, <2>3, <2>4, <3>1 DEF LaidOut
    <3>3. f[m].n = m - s /\ f[m].result = f[p].result
      BY <3>2 DEF CellOf
    <3>4. f # << >>
      BY <1>1, <3>1
    <3> QED BY <1>1, <2>4, <3>1, <3>3, <3>4, Zenon DEF Ended
  <2>6. LaidOut(g, s, f[p].instr, f[p].result)
    <3> SUFFICES ASSUME NEW k \in 1 .. r PROVE g[s + k] = CellOf(f[p].instr, f[p].result, k)
      BY <2>4, Zenon DEF LaidOut
    <3>1. s + k \in 1 .. m /\ s + k <= m
      BY <2>5
    <3> QED BY <1>1, <1>5, <2>3, <2>4, <3>1, Zenon DEF LaidOut
  <2> QED BY <1>5, <2>1, <2>2, <2>6, Zenon
<1>8. ASSUME NEW p \in DOMAIN g, p \notin 1 .. m
      PROVE  /\ g[p].n <= p /\ g[p].n <= RecordLength(g[p].result)
             /\ LaidOut(g, p - g[p].n, g[p].instr, g[p].result) /\ g[p].instr = i /\ g[p].result = v
  <2>1. PICK k \in 1 .. l : p = m + k
    <3>1. p - m \in 1 .. l /\ p = m + (p - m)
      BY <1>4, <1>8
    <3> QED BY <3>1, Zenon
  <2>2. g[p].instr = i /\ g[p].result = v /\ g[p].n = k
    <3>1. g[p] = CellOf(i, v, k)
      BY <1>6, <2>1, Zenon
    <3> QED BY <3>1 DEF CellOf
  <2>3. k <= p /\ k <= l /\ p - k = m
    BY <2>1
  <2>4. LaidOut(g, m, i, v)
    BY <1>1, <1>6, Zenon DEF LaidOut
  <2> QED BY <1>1, <2>2, <2>3, <2>4, Zenon
<1>9. WellFormed(g)
  BY <1>4, <1>7, <1>8, Zenon DEF WellFormed
<1>10. Ended(g)
  <2>1. m + l \in DOMAIN g /\ l \in 1 .. l
    BY <1>1, <1>4
  <2>2. g[m + l].n = l /\ g[m + l].result = v
    <3>1. g[m + l] = CellOf(i, v, l)
      BY <1>6, <2>1, Zenon
    <3> QED BY <3>1 DEF CellOf
  <2>3. g # << >>
    BY <2>1
  <2> QED BY <1>1, <1>4, <2>2, <2>3, Zenon DEF Ended
<1>11. Grown(f, g, i, v)
  BY <1>1, <1>4, <1>5, <1>8, Zenon DEF Grown
<1> QED BY Zenon, <1>9, <1>10, <1>11

-----------------------------------------------------------------------------
(* g has the offsets that build_index goes through in its first m rounds. *)
Rounds(f, g, m) == g = [n \in 0 .. m |-> IF n = 0 THEN 0 ELSE NextOffset(f, g[n - 1])]

(* There are such offsets. *)
LEMMA RoundsExist == ASSUME NEW f, NEW m \in Nat PROVE \E g : Rounds(f, g, m)
<1> DEFINE S == {n \in Nat : ~ \E g : Rounds(f, g, n)}
<1> SUFFICES ASSUME S # {} PROVE FALSE
  BY Zenon
<1>1. PICK n \in S : \A k \in S : n <= k
  BY Smallest, S \in SUBSET Nat, Zenon
<1>2. n \in Nat /\ ~ \E g : Rounds(f, g, n)
  BY Zenon, <1>1
<1>3. CASE n = 0
  <2>1. PICK g : g = [k \in 0 .. 0 |-> 0]
    BY Zenon
  <2>2. Rounds(f, g, 0)
    BY <2>1 DEF Rounds
  <2> QED BY <1>2, <1>3, <2>2, Zenon
<1>4. CASE n # 0
  <2>1. n - 1 \in Nat /\ ~ (n <= n - 1)
    BY <1>2, <1>4
  <2>2. PICK g : Rounds(f, g, n - 1)
    BY <1>1, <2>1, Zenon
  <2>3. PICK x : x = NextOffset(f, g[n - 1])
    BY Zenon
  <2>4. PICK h : h = [k \in 0 .. n |-> IF k = n THEN x ELSE g[k]]
    BY Zenon
  <2>5. ASSUME NEW k \in 0 .. n PROVE h[k] = IF k = 0 THEN 0 ELSE NextOffset(f, h[k - 1])
    <3>1. CASE k = n
      <4>1. h[k] = x /\ h[n - 1] = g[n - 1]
        BY <1>2, <1>4, <2>4, <3>1
      <4> QED BY <1>4, <2>3, <3>1, <4>1, Zenon
    <3>2. CASE k # n
      <4>1. k \in 0 .. n - 1 /\ h[k] = g[k] /\ (k # 0 => k - 1 \in 0 .. n /\ k - 1 # n)
        BY <1>2, <2>4, <3>2
      <4>2. g[k] = IF k = 0 THEN 0 ELSE NextOffset(f, g[k - 1])
        BY Zenon, <2>2, <4>1 DEF Rounds
      <4>3. k # 0 => h[k - 1] = g[k - 1]
        BY Zenon, <2>4, <4>1
      <4> QED BY <4>1, <4>2, <4>3, Zenon
    <3> QED BY Zenon, <3>1, <3>2
  <2>6. Rounds(f, h, n)
    BY <2>4, <2>5, Zenon DEF Rounds
  <2> QED BY <1>2, <2>6, Zenon
<1> QED BY Zenon, <1>3, <1>4

(* They are what build_index gets to after some rounds of its loop. *)
LEMMA OffsetsAreRounds ==
    ASSUME NEW f, Len(f) \in Nat
    PROVE  \E g : /\ Offsets(f) = {g[n] : n \in 0 .. Len(f)}
                  /\ \A n \in 0 .. Len(f) : g[n] = IF n = 0 THEN 0 ELSE NextOffset(f, g[n - 1])
<1>1. PICK g : g = CHOOSE h : Rounds(f, h, Len(f))
  BY Zenon
<1>2. Rounds(f, g, Len(f))
  BY <1>1, RoundsExist, Zenon
<1>3. \A n \in 0 .. Len(f) : g[n] = IF n = 0 THEN 0 ELSE NextOffset(f, g[n - 1])
  BY Zenon, <1>2 DEF Rounds
<1>4. Offsets(f) = {g[n] : n \in 0 .. Len(f)}
  BY <1>1, Zenon DEF Offsets, Rounds
<1> QED BY <1>3, <1>4, Zenon

(* The cell before the offset o ends a record. *)
AtEnd(f, o) == o \in 0 .. Len(f) /\ (o = 0 \/ f[o].n = RecordLength(f[o].result))

(* From the end of a record the loop goes on to the end of the next one. *)
LEMMA NextAtEnd ==
    ASSUME NEW f, WellFormed(f), NEW o, AtEnd(f, o)
    PROVE  AtEnd(f, NextOffset(f, o)) /\ NextOffset(f, o) \in Nat
           /\ (Good(f, o) => NextOffset(f, o) >= o + 1) /\ (~ Good(f, o) => NextOffset(f, o) = o)
<1>0. f \in Seq(Cell) /\ Len(f) \in Nat /\ o \in 0 .. Len(f)
  BY DEF WellFormed, AtEnd
<1>1. CASE Good(f, o)
  <2>1. o + 1 \in DOMAIN f /\ f[o + 1].n = 1 /\ o + RecordLength(f[o + 1].result) <= Len(f)
    BY <1>0, <1>1 DEF Good
  <2>2. PICK l \in Nat : l = RecordLength(f[o + 1].result) /\ l >= 1
    BY <2>1, CellFacts, RecordHasCells
  <2>3. NextOffset(f, o) = o + l
    BY <1>1, <2>2, Zenon DEF NextOffset
  <2>4. l \in 1 .. l /\ (o + 1) - 1 + l = o + l /\ o + l <= Len(f) /\ o + l \in 0 .. Len(f) /\ o + l >= o + 1
    BY <1>0, <2>1, <2>2
  <2>5. f[o + l] = CellOf(f[o + 1].instr, f[o + 1].result, l)
    <3>1. f[(o + 1) - 1 + l] = CellOf(f[o + 1].instr, f[o + 1].result, l)
      BY Zenon, <2>1, <2>2, <2>4, StartLaidOut
    <3> QED BY Zenon, <2>4, <3>1
  <2>6. f[o + l].n = RecordLength(f[o + l].result)
    BY <2>2, <2>5 DEF CellOf
  <2> QED BY <1>0, <1>1, <2>3, <2>4, <2>6 DEF AtEnd
<1>2. CASE ~ Good(f, o)
  BY <1>0, <1>2 DEF NextOffset
<1> QED BY Zenon, <1>1, <1>2

(* The offsets are ends of records, and after a good record comes the next *)
(* one.                                                                    *)
LEMMA OffsetsFacts ==
    ASSUME NEW f, WellFormed(f)
    PROVE  /\ 0 \in Offsets(f)
           /\ \A o \in Offsets(f) : AtEnd(f, o) /\ o \in Nat /\ (Good(f, o) => NextOffset(f, o) \in Offsets(f))
<1>0. f \in Seq(Cell) /\ Len(f) \in Nat
  BY DEF WellFormed
<1>1. PICK g : /\ Offsets(f) = {g[n] : n \in 0 .. Len(f)}
               /\ \A n \in 0 .. Len(f) : g[n] = IF n = 0 THEN 0 ELSE NextOffset(f, g[n - 1])
  BY <1>0, OffsetsAreRounds, Zenon
<1> DEFINE Fine(n) == AtEnd(f, g[n]) /\ g[n] \in Nat /\ (Good(f, g[n]) => g[n] >= n)
           S == {n \in 0 .. Len(f) : ~ Fine(n)}
<1>2. S = {}
  <2> SUFFICES ASSUME S # {} PROVE FALSE
    BY Zenon
  <2>1. PICK n \in S : \A k \in S : n <= k
    <3>1. S \in SUBSET Nat
      BY <1>0
    <3> QED BY <3>1, Smallest, Zenon
  <2>2. n \in 0 .. Len(f) /\ ~ Fine(n)
    BY Zenon, <2>1
  <2>3. CASE n = 0
    <3>1. g[0] = 0
      BY <1>0, <1>1
    <3>2. AtEnd(f, 0)
      BY <1>0 DEF AtEnd
    <3> QED BY <2>2, <2>3, <3>1, <3>2
  <2>4. CASE n # 0
    <3>1. n - 1 \in 0 .. Len(f) /\ ~ (n <= n - 1) /\ n \in Nat
      BY <1>0, <2>2, <2>4
    <3>2. Fine(n - 1)
      BY <2>1, <3>1, Zenon
    <3>3. g[n] = NextOffset(f, g[n - 1])
      BY <1>1, <2>2, <2>4, Zenon
    <3>4. /\ AtEnd(f, g[n]) /\ g[n] \in Nat
          /\ (Good(f, g[n - 1]) => g[n] >= g[n - 1] + 1) /\ (~ Good(f, g[n - 1]) => g[n] = g[n - 1])
      BY <3>2, <3>3, NextAtEnd, Zenon
    <3>5. Good(f, g[n]) => Good(f, g[n - 1])
      BY <3>4, Zenon
    <3>6. Good(f, g[n]) => g[n] >= n
      BY <3>1, <3>2, <3>4, <3>5
    <3> QED BY <2>2, <3>4, <3>6, Zenon
  <2> QED BY Zenon, <2>3, <2>4
<1>3. \A n \in 0 .. Len(f) : Fine(n)
  BY Zenon, <1>2
<1>4. 0 \in Offsets(f)
  <2>1. 0 \in 0 .. Len(f)
    BY <1>0
  <2>2. g[0] = 0
    BY Zenon, <1>1, <2>1
  <2> QED BY <1>1, <2>1, <2>2, Zenon
<1>5. ASSUME NEW o \in Offsets(f)
      PROVE  AtEnd(f, o) /\ o \in Nat /\ (Good(f, o) => NextOffset(f, o) \in Offsets(f))
  <2>1. PICK n \in 0 .. Len(f) : o = g[n]
    BY <1>1, Zenon
  <2>2. AtEnd(f, o) /\ o \in Nat /\ (Good(f, o) => o >= n)
    BY <1>3, <2>1, Zenon
  <2>3. ASSUME Good(f, o) PROVE NextOffset(f, o) \in Offsets(f)
    <3>1. o < Len(f) /\ o >= n
      BY Zenon, <2>2, <2>3 DEF Good
    <3>2. n + 1 \in 0 .. Len(f) /\ n + 1 # 0 /\ n + 1 - 1 = n
      BY <1>0, <2>2, <3>1
    <3>3. g[n + 1] = NextOffset(f, o)
      BY <1>1, <2>1, <3>2
    <3> QED BY <1>1, <3>2, <3>3, Zenon
  <2> QED BY Zenon, <2>2, <2>3
<1> QED BY <1>4, <1>5, Zenon

(* Some of the offsets have a last one, where the file is cut. *)
LEMMA LastOffset ==
    ASSUME NEW f, WellFormed(f), NEW T \in SUBSET Offsets(f), T # {}
    PROVE  \E o \in T : \A p \in T : p <= o
<1>0. f \in Seq(Cell) /\ Len(f) + 1 \in Nat
  BY DEF WellFormed
<1> DEFINE S == {n \in 1 .. Len(f) + 1 : \E o \in T : n = o + 1}
<1>1. \A o \in T : o \in Nat /\ o + 1 \in S
  <2> TAKE o \in T
  <2>1. AtEnd(f, o)
    BY OffsetsFacts, Zenon
  <2>2. o \in Nat /\ o + 1 \in 1 .. Len(f) + 1
    BY <1>0, <2>1 DEF AtEnd
  <2> QED BY Zenon, <2>2
<1>2. S # {} /\ S \in SUBSET (1 .. Len(f) + 1)
  BY <1>1, Zenon
<1>3. PICK n \in S : \A m \in S : m <= n
  BY <1>0, <1>2, LastPosition, Zenon
<1>4. PICK o \in T : n = o + 1
  BY Zenon, <1>3
<1>5. \A p \in T : p <= o
  <2> TAKE p \in T
  <2>1. p + 1 <= o + 1 /\ p \in Nat /\ o \in Nat
    BY <1>1, <1>3, <1>4, Zenon
  <2> QED BY <2>1
<1> QED BY <1>5, Zenon

(* The file is cut at the last offset. *)
LEMMA LastGoodIsLast ==
    ASSUME NEW f, WellFormed(f)
    PROVE  LastGoodOffset(f) \in Offsets(f) /\ \A p \in Offsets(f) : p <= LastGoodOffset(f)
<1>1. Offsets(f) # {}
  BY OffsetsFacts, Zenon
<1>2. PICK o \in Offsets(f) : \A p \in Offsets(f) : p <= o
  BY <1>1, LastOffset, Zenon
<1> QED BY <1>2, Zenon DEF LastGoodOffset

(* The good records of an instruction; the index has the last one. *)
RecordsOf(f, i) == {o \in Offsets(f) : Good(f, o) /\ f[o + 1].instr = i}

(* Of several records of an instruction, build_index keeps the last. *)
LEMMA IndexHasLast ==
    ASSUME NEW f, WellFormed(f), NEW index_f, index_f = BuildIndex(f)
    PROVE  /\ DOMAIN index_f = {j \in Instructions : RecordsOf(f, j) # {}}
           /\ \A i \in DOMAIN index_f : /\ index_f[i] \in RecordsOf(f, i)
                                        /\ \A p \in RecordsOf(f, i) : p <= index_f[i]
<1>1. index_f = [i \in {j \in Instructions : RecordsOf(f, j) # {}} |->
                   CHOOSE o \in RecordsOf(f, i) : \A p \in RecordsOf(f, i) : p <= o]
  BY Zenon DEF BuildIndex, RecordsOf
<1>2. DOMAIN index_f = {j \in Instructions : RecordsOf(f, j) # {}}
  BY <1>1, Zenon
<1>3. ASSUME NEW i \in DOMAIN index_f
      PROVE  index_f[i] \in RecordsOf(f, i) /\ \A p \in RecordsOf(f, i) : p <= index_f[i]
  <2>1. index_f[i] = CHOOSE o \in RecordsOf(f, i) : \A p \in RecordsOf(f, i) : p <= o
    BY <1>1, <1>2, Zenon
  <2>2. RecordsOf(f, i) # {} /\ RecordsOf(f, i) \in SUBSET Offsets(f)
    BY <1>2, Zenon DEF RecordsOf
  <2>3. \E o \in RecordsOf(f, i) : \A p \in RecordsOf(f, i) : p <= o
    BY <2>2, LastOffset, Zenon
  <2> QED BY <2>1, <2>3, Zenon
<1> QED BY <1>2, <1>3, Zenon

(* build_index gets to every whole record that it can read the start of. *)
LEMMA WholeIsReached ==
    ASSUME NEW f, WellFormed(f), NEW p \in DOMAIN f, WholeAt(f, p), p + Window - 1 <= Len(f)
    PROVE  p - 1 \in Offsets(f) /\ Good(f, p - 1)
<1>0. f \in Seq(Cell) /\ Len(f) \in Nat /\ DOMAIN f = 1 .. Len(f) /\ Window \in Nat
  BY CacheAssumption DEF WellFormed
<1> DEFINE Can(q) == WholeAt(f, q) /\ q + Window - 1 <= Len(f)
           S == {q \in DOMAIN f : Can(q) /\ q - 1 \notin Offsets(f)}
<1>1. ASSUME NEW q \in DOMAIN f, Can(q) PROVE Good(f, q - 1)
  <2>1. q - 1 + 1 = q /\ q - 1 < Len(f) /\ q - 1 + Window <= Len(f)
    BY <1>0, <1>1
  <2>2. f[q].n = 1 /\ q + RecordLength(f[q].result) - 1 <= Len(f) /\ RecordLength(f[q].result) \in Nat
    BY Zenon, <1>1, CellFacts DEF WholeAt
  <2> QED BY <1>0, <2>1, <2>2 DEF Good
<1> HIDE DEF Can
<1>2. S = {}
  <2> SUFFICES ASSUME S # {} PROVE FALSE
    BY Zenon
  <2>1. PICK q \in S : \A k \in S : q <= k
    <3>1. S \in SUBSET Nat
      BY <1>0
    <3> QED BY <3>1, Smallest, Zenon
  <2>0. q \in DOMAIN f /\ Can(q) /\ q - 1 \notin Offsets(f)
    BY Zenon, <2>1
  <2>2. q \in Nat /\ q <= Len(f) /\ q \in DOMAIN f /\ q - 1 \notin Offsets(f) /\ WholeAt(f, q) /\ q + Window - 1 <= Len(f)
    BY <1>0, <2>0 DEF Can
  <2>3. q # 1
    BY <2>2, OffsetsFacts
  <2>4. PICK c \in DOMAIN f : c = q - 1
    BY <1>0, <2>2, <2>3
  <2>5. /\ f[c].n \in Nat /\ f[c].n >= 1 /\ f[c].n <= c /\ c \in Nat
        /\ RecordLength(f[c].result) \in Nat /\ f[c].n <= RecordLength(f[c].result)
    BY Zenon, CellFacts
  <2>6. PICK s \in Nat : s = c - f[c].n
    BY <2>5
  <2>7. LaidOut(f, s, f[c].instr, f[c].result)
    BY <2>6, Zenon DEF WellFormed
  <2>8. PICK l \in Nat : l = RecordLength(f[c].result) /\ l >= 1
    BY <2>5
  <2>9. PICK x \in Nat : x = f[c].n /\ x >= 1 /\ x <= l /\ c = s + x
    <3>1. PICK x \in Nat : x = f[c].n /\ x >= 1 /\ x <= l /\ s = c - x /\ c \in Nat
      BY <2>5, <2>6, <2>8, Zenon
    <3>2. c = s + x
      BY <3>1
    <3> QED BY <3>1, <3>2, Zenon
  <2>10. x = l
    <3> SUFFICES ASSUME x # l PROVE FALSE
      BY Zenon
    <3>1. x + 1 \in 1 .. l /\ s + (x + 1) = q /\ q <= Len(f)
      <4>1. c \in Nat /\ q = c + 1 /\ q <= Len(f)
        BY <2>2, <2>4, <2>5
      <4>2. x <= l /\ c = s + x
        BY <2>9, Zenon
      <4>3. x + 1 \in 1 .. l
        BY <4>2
      <4>4. s + (x + 1) = c + 1
        BY <4>2
      <4> QED BY <4>1, <4>3, <4>4, Zenon
    <3>2. f[q] = CellOf(f[c].instr, f[c].result, x + 1)
      BY Zenon, <2>7, <2>8, <3>1 DEF LaidOut
    <3>3. f[q].n = x + 1 /\ f[q].n = 1
      BY <2>2, <3>2 DEF CellOf, WholeAt
    <3>4. x + 1 = 1
      BY <3>3, Zenon
    <3>5. x \in Nat /\ x >= 1
      BY <2>9, Zenon
    <3> QED BY <3>4, <3>5
  <2>11. PICK z \in Nat : z = s + 1 /\ z - 1 = s /\ z < q /\ z + l - 1 = c /\ z \in DOMAIN f /\ z <= Len(f)
    <3>1. /\ s + 1 \in Nat /\ s + 1 - 1 = s /\ s + 1 < q /\ s + 1 + l - 1 = c
          /\ s + 1 \in 1 .. Len(f) /\ s + 1 <= Len(f)
      <4>1. PICK y \in Nat : y = Len(f)
        BY <1>0, Zenon
      <4>2. q \in Nat /\ q <= y /\ c = q - 1 /\ c = s + x /\ x = l /\ l >= 1
        BY <2>2, <2>4, <2>8, <2>9, <2>10, <4>1, Zenon
      <4>3. /\ s + 1 \in Nat /\ s + 1 - 1 = s /\ s + 1 < q /\ s + 1 + l - 1 = c
            /\ s + 1 \in 1 .. y /\ s + 1 <= y
        BY <4>2
      <4> QED BY <4>1, <4>3, Zenon
    <3>2. PICK z : z = s + 1
      BY Zenon
    <3>3. z \in Nat /\ z = s + 1 /\ z - 1 = s /\ z < q /\ z + l - 1 = c /\ z \in DOMAIN f /\ z <= Len(f)
      BY <1>0, <3>1, <3>2
    <3> QED BY <3>3, Zenon
  <2>12. f[z].n = 1 /\ f[z].result = f[c].result
    <3>1. 1 \in 1 .. l
      BY <2>8
    <3>2. f[z] = CellOf(f[c].instr, f[c].result, 1)
      BY <2>7, <2>8, <2>11, <3>1, Zenon DEF LaidOut
    <3> QED BY <3>2 DEF CellOf
  <2>13. Can(z)
    <3>1. z + l - 1 <= Len(f) /\ z + Window - 1 <= Len(f)
      BY <1>0, <2>2, <2>4, <2>11
    <3> QED BY <2>8, <2>12, <3>1, Zenon DEF WholeAt, Can
  <2>14. s \in Offsets(f)
    <3>1. ~ (q <= z)
      BY <2>2, <2>11
    <3>2. z - 1 \in Offsets(f)
      BY Zenon, <2>1, <2>11, <2>13, <3>1
    <3> QED BY <2>11, <3>2, Zenon
  <2>15. Good(f, s)
    <3>1. Good(f, z - 1)
      BY Zenon, <1>1, <2>11, <2>13
    <3> QED BY <2>11, <3>1, Zenon
  <2>16. NextOffset(f, s) = q - 1
    <3>1. f[s + 1].result = f[c].result
      BY <2>11, <2>12, Zenon
    <3>2. NextOffset(f, s) = s + l
      BY <2>8, <2>15, <3>1, Zenon DEF NextOffset
    <3> QED BY Zenon, <2>4, <2>9, <2>10, <3>2
  <2> QED BY <2>2, <2>14, <2>15, <2>16, OffsetsFacts, Zenon
<1>3. Can(p)
  BY Zenon DEF Can
<1> QED BY <1>1, <1>2, <1>3, Zenon

-----------------------------------------------------------------------------
(* The steps of the cache. *)

(* A new file has no records. *)
LEMMA CacheInit == Init => FileInv
<1> SUFFICES ASSUME Init PROVE FileInv
  BY Zenon
<1>1. << >> \o << >> = << >> /\ << >> \in Seq(Cell) /\ DOMAIN << >> = {}
  OBVIOUS
<1>2. /\ file \o buffer = << >> /\ file \in Seq(Cell) /\ buffer \in Seq(Cell)
      /\ buffer = << >> /\ running \in BOOLEAN
  BY Zenon, <1>1 DEF Init
<1>3. WellFormed(<< >>) /\ Genuine(<< >>, computed) /\ Ended(<< >>)
  BY <1>1, Zenon DEF WellFormed, Genuine, Ended
<1>4. DOMAIN index = {} /\ DOMAIN inner = {} /\ computed \in [Instructions -> SUBSET Results]
  BY Zenon DEF Init, Empty
<1>5. pc \in [Threads -> Working] /\ AnswersComputed
  BY Zenon DEF Init, Idle, Working, AnswersComputed
<1> QED BY <1>2, <1>3, <1>4, <1>5, Zenon DEF FileInv

(* One thread goes on to w, which answers with what was computed. *)
LEMMA ThreadGoesOn ==
    ASSUME FileInv, NEW t \in Threads, NEW w \in Working, pc' = [pc EXCEPT ![t] = w],
           computed' \in [Instructions -> SUBSET Results],
           \A j \in Instructions : computed[j] \in SUBSET computed'[j],
           w.at \in {"save", "done"} => w.result \in computed'[w.instr]
    PROVE  pc' \in [Threads -> Working] /\ AnswersComputed'
<1>1. pc \in [Threads -> Working] /\ AnswersComputed
  BY Zenon DEF FileInv
<1>2. pc' \in [Threads -> Working] /\ pc'[t] = w /\ \A u \in Threads \ {t} : pc'[u] = pc[u]
  BY Zenon, <1>1
<1>3. ASSUME NEW u \in Threads, pc'[u].at \in {"save", "done"} PROVE pc'[u].result \in computed'[pc'[u].instr]
  <2>1. CASE u = t
    BY <1>2, <1>3, <2>1, Zenon
  <2>2. CASE u # t
    <3>1. pc'[u] = pc[u] /\ pc[u] \in Working
      BY Zenon, <1>1, <1>2, <2>2
    <3>2. pc[u].instr \in Instructions
      BY Zenon, <1>3, <3>1 DEF Working
    <3>3. pc[u].result \in computed[pc[u].instr]
      BY <1>1, <1>3, <3>1, Zenon DEF AnswersComputed
    <3> QED BY <3>1, <3>2, <3>3, Zenon
  <2> QED BY Zenon, <2>1, <2>2
<1> QED BY <1>2, <1>3, Zenon DEF AnswersComputed

(* The file alone is laid out as records, too. *)
LEMMA FileLaidOut ==
    ASSUME FileInv
    PROVE  WellFormed(file) /\ Genuine(file, computed)
<1>1. file \in Seq(Cell) /\ buffer \in Seq(Cell) /\ WellFormed(file \o buffer) /\ Genuine(file \o buffer, computed)
  BY Zenon DEF FileInv
<1>2. file = SubSeq(file \o buffer, 1, Len(file)) /\ Len(file) \in 0 .. Len(file \o buffer)
  <2>1. Len(file \o buffer) = Len(file) + Len(buffer) /\ Len(file) \in Nat /\ Len(buffer) \in Nat
    BY <1>1
  <2>2. PICK g : g = SubSeq(file \o buffer, 1, Len(file))
    BY Zenon
  <2>3. g \in Seq(Cell) /\ Len(g) = Len(file) /\ \A p \in 1 .. Len(file) : g[p] = file[p]
    BY <1>1, <2>1, <2>2
  <2>4. g = file
    BY <1>1, <2>3, SameSequence, Zenon
  <2> QED BY <2>1, <2>2, <2>4
<1>3. /\ WellFormed(file) /\ DOMAIN file = 1 .. Len(file)
      /\ \A p \in 1 .. Len(file) : p \in DOMAIN (file \o buffer) /\ file[p] = (file \o buffer)[p]
  <2>1. PICK m : m = Len(file)
    BY Zenon
  <2> QED BY <1>1, <1>2, <2>1, CutLaidOut, Zenon
<1> QED BY <1>1, <1>3, Zenon DEF Genuine

(* get answers from the record that the index gives. *)
LEMMA StoredIsComputed ==
    ASSUME FileInv, NEW i \in DOMAIN index
    PROVE  i \in Instructions /\ Stored(i) \in computed[i]
<1>1. WellFormed(file) /\ Genuine(file, computed)
  BY Zenon, FileLaidOut
<1>2. Indexed(file, i, index[i])
  BY Zenon DEF FileInv
<1>3. PICK o \in Nat : o = index[i]
  BY <1>2, Zenon DEF Indexed
<1>4. PICK p \in DOMAIN file : p = o + 1 /\ p - 1 = o
  BY <1>1, <1>2, <1>3 DEF Indexed, WellFormed
<1>5. file[p].n = 1 /\ file[p].instr = i /\ i \in Instructions /\ o + RecordLength(file[p].result) <= Len(file)
  BY <1>2, <1>3, <1>4, Zenon DEF Indexed
<1>6. PICK l \in Nat : l = RecordLength(file[p].result) /\ l \in 1 .. l
  BY <1>1, CellFacts, RecordHasCells
<1>7. file[p - 1 + l] = CellOf(file[p].instr, file[p].result, l)
  BY <1>1, <1>4, <1>5, <1>6, StartLaidOut, Zenon
<1>8. file[o + l].result = file[p].result
  BY <1>4, <1>7 DEF CellOf
<1>9. Stored(i) = file[p].result
  BY <1>3, <1>4, <1>6, <1>8, Zenon DEF Stored
<1> QED BY <1>1, <1>5, <1>9, Zenon DEF Genuine

(* get finds a result in the index, in memory, or has to compute it. *)
LEMMA LookupKeeps == ASSUME FileInv, NEW t \in Threads, NEW i \in Instructions, Lookup(t, i) PROVE FileInv'
<1>0. UNCHANGED <<file, buffer, index, inMemory, inner, running, runs, computed>>
  BY Zenon DEF Lookup
<1>1. computed \in [Instructions -> SUBSET Results]
  BY Zenon DEF FileInv
<1>2. PICK w : /\ pc' = [pc EXCEPT ![t] = w]
               /\ w = CASE i \in DOMAIN index -> [at |-> "done", instr |-> i, result |-> Stored(i)]
                        [] i \notin DOMAIN index /\ i \in DOMAIN inner ->
                              [at |-> "save", instr |-> i, result |-> inner[i]]
                        [] OTHER -> [at |-> "compute", instr |-> i]
  BY Zenon DEF Lookup
<1>3. w \in Working /\ (w.at \in {"save", "done"} => w.result \in computed[w.instr])
  <2>1. CASE i \in DOMAIN index
    <3>1. PICK r \in computed[i] : r = Stored(i)
      BY <2>1, StoredIsComputed, Zenon
    <3>2. w = [at |-> "done", instr |-> i, result |-> r] /\ r \in Results
      BY Zenon, <1>1, <1>2, <2>1, <3>1
    <3> QED BY Zenon, <3>1, <3>2 DEF Working
  <2>2. CASE i \notin DOMAIN index /\ i \in DOMAIN inner
    <3>1. PICK r \in computed[i] : r = inner[i]
      BY <2>2, Zenon DEF FileInv
    <3>2. w = [at |-> "save", instr |-> i, result |-> r] /\ r \in Results
      BY Zenon, <1>1, <1>2, <2>2, <3>1
    <3> QED BY Zenon, <3>1, <3>2 DEF Working
  <2>3. CASE i \notin DOMAIN index /\ i \notin DOMAIN inner
    <3>1. w = [at |-> "compute", instr |-> i]
      BY Zenon, <1>2, <2>3
    <3> QED BY Zenon, <3>1 DEF Working
  <2> QED BY Zenon, <2>1, <2>2, <2>3
<1>4. pc' \in [Threads -> Working] /\ AnswersComputed'
  BY Zenon, <1>0, <1>1, <1>2, <1>3, ThreadGoesOn
<1> QED BY Zenon, <1>0, <1>4 DEF FileInv

(* The result is computed and kept in memory. *)
LEMMA ComputeKeeps == ASSUME FileInv, NEW t \in Threads, NEW v \in Results, Compute(t, v) PROVE FileInv'
<1>0. UNCHANGED <<file, buffer, index, inMemory, running, runs>> /\ pc[t].at = "compute"
  BY Zenon DEF Compute
<1>1. computed \in [Instructions -> SUBSET Results] /\ pc \in [Threads -> Working]
  BY Zenon DEF FileInv
<1>2. PICK i \in Instructions : i = pc[t].instr
  <2>1. pc[t] \in Working
    BY Zenon, <1>1
  <2> QED BY Zenon, <1>0, <2>1 DEF Working
<1>3. /\ computed' \in [Instructions -> SUBSET Results] /\ v \in computed'[i]
      /\ \A j \in Instructions : computed[j] \in SUBSET computed'[j]
  <2>1. computed' = [computed EXCEPT ![i] = @ \union {v}]
    BY Zenon, <1>2 DEF Compute
  <2> QED BY Zenon, <1>1, <2>1
<1>4. PICK w : w = [at |-> "save", instr |-> i, result |-> v]
  BY Zenon
<1>5. w \in Working /\ w.result \in computed'[w.instr] /\ pc' = [pc EXCEPT ![t] = w]
  BY Zenon, <1>2, <1>3, <1>4 DEF Working, Compute
<1>6. pc' \in [Threads -> Working] /\ AnswersComputed'
  BY Zenon, <1>3, <1>5, ThreadGoesOn
<1>7. ASSUME NEW j \in DOMAIN inner' PROVE j \in Instructions /\ inner'[j] \in computed'[j]
  <2>1. inner' = Put(inner, i, v) \/ inner' = inner
    BY Zenon, <1>2 DEF Compute
  <2>2. \A k \in DOMAIN inner : k \in Instructions /\ inner[k] \in computed'[k]
    BY <1>3, Zenon DEF FileInv
  <2> QED BY <1>2, <1>3, <1>7, <2>1, <2>2 DEF Put
<1>8. Genuine(file \o buffer, computed')
  <2>1. PICK f : f = file \o buffer
    BY Zenon
  <2>2. Genuine(f, computed) /\ WellFormed(f)
    BY <2>1, Zenon DEF FileInv
  <2>3. \A p \in DOMAIN f : f[p].instr \in Instructions
    BY Zenon, <2>2, CellFacts
  <2> QED BY <1>3, <2>1, <2>2, <2>3, Zenon DEF Genuine
<1>9. /\ file' = file /\ buffer' = buffer /\ index' = index /\ running' = running
  BY Zenon, <1>0
<1> QED BY Zenon, <1>3, <1>6, <1>7, <1>8, <1>9 DEF FileInv

(* The record is appended to what the writer has. *)
LEMMA SaveKeeps == ASSUME FileInv, NEW t \in Threads, Save(t) PROVE FileInv'
<1>0. UNCHANGED <<file, index, inMemory, inner, running, runs, computed>> /\ running /\ pc[t].at = "save"
  BY Zenon DEF Save
<1>1. /\ computed \in [Instructions -> SUBSET Results] /\ pc \in [Threads -> Working] /\ AnswersComputed
      /\ file \in Seq(Cell) /\ buffer \in Seq(Cell)
  BY Zenon DEF FileInv
<1>2. PICK i \in Instructions, v \in Results : pc[t] = [at |-> "save", instr |-> i, result |-> v]
  <2>1. pc[t] \in Working
    BY Zenon, <1>1
  <2> QED BY Zenon, <1>0, <2>1 DEF Working
<1>3. v \in computed[i]
  <2>1. pc[t].at \in {"save", "done"} /\ pc[t].instr = i /\ pc[t].result = v
    BY <1>2
  <2> QED BY <1>1, <2>1, Zenon DEF AnswersComputed
<1>4. PICK w : w = [at |-> "done", instr |-> i, result |-> v]
  BY Zenon
<1>5. w \in Working /\ w.result \in computed[w.instr] /\ pc' = [pc EXCEPT ![t] = w]
  <2>1. [pc[t] EXCEPT !.at = "done"] = w
    BY <1>2, <1>4
  <2>2. pc' = [pc EXCEPT ![t] = [pc[t] EXCEPT !.at = "done"]]
    BY Zenon DEF Save
  <2>3. w \in Working /\ w.result \in computed[w.instr]
    BY Zenon, <1>3, <1>4 DEF Working
  <2> QED BY <2>1, <2>2, <2>3, Zenon
<1>6. pc' \in [Threads -> Working] /\ AnswersComputed'
  BY Zenon, <1>0, <1>1, <1>5, ThreadGoesOn
<1>7. PICK r \in Seq(Cell) : r = Record(i, v) /\ buffer' = buffer \o r
  <2>1. RecordLength(v) \in Nat
    BY Zenon, RecordHasCells
  <2>2. Record(i, v) \in [1 .. RecordLength(v) -> Cell]
    BY <2>1 DEF Record, Cell
  <2>3. Record(i, v) \in Seq(Cell)
    BY <2>1, <2>2
  <2>4. pc[t].instr = i /\ pc[t].result = v
    BY <1>2
  <2> QED BY <2>3, <2>4, Zenon DEF Save
<1>8. buffer' \in Seq(Cell) /\ file' \o buffer' = (file \o buffer) \o r
  <2>1. buffer \o r \in Seq(Cell)
    BY <1>1, SMT
  <2>2. (file \o buffer) \o r = file \o (buffer \o r)
    BY <1>1, <1>7, SMT
  <2> QED BY Zenon, <1>0, <1>7, <2>1, <2>2
<1>9. PICK f, g : f = file \o buffer /\ g = f \o Record(i, v)
  BY Zenon
<1>10. WellFormed(f) /\ Ended(f) /\ Genuine(f, computed)
  BY <1>0, <1>9, Zenon DEF FileInv
<1>11. WellFormed(g) /\ Ended(g) /\ Grown(f, g, i, v)
  <2>1. g = f \o Record(i, v)
    BY <1>9, Zenon
  <2> QED BY <1>10, <2>1, AppendLaidOut, Zenon
<1>12. Genuine(g, computed)
  BY <1>3, <1>10, <1>11, Zenon DEF Genuine, Grown
<1>13. g = file' \o buffer'
  BY <1>7, <1>8, <1>9, Zenon
<1>14. /\ file' = file /\ index' = index /\ running' = running /\ inner' = inner /\ computed' = computed
  BY Zenon, <1>0
<1>15. WellFormed(file' \o buffer') /\ Ended(file' \o buffer') /\ Genuine(file' \o buffer', computed')
  BY <1>11, <1>12, <1>13, <1>14, Zenon
<1> QED BY <1>0, <1>6, <1>8, <1>14, <1>15 DEF FileInv

(* get returns. *)
LEMMA ReturnKeeps == ASSUME FileInv, NEW t \in Threads, Return(t) PROVE FileInv'
<1>0. UNCHANGED <<file, buffer, index, inMemory, inner, running, runs, computed>> /\ pc' = [pc EXCEPT ![t] = Idle]
  BY Zenon DEF Return
<1>1. computed \in [Instructions -> SUBSET Results]
  BY Zenon DEF FileInv
<1>2. Idle \in Working /\ Idle.at \notin {"save", "done"}
  BY Zenon DEF Working, Idle
<1>4. pc' \in [Threads -> Working] /\ AnswersComputed'
  BY Zenon, <1>0, <1>1, <1>2, ThreadGoesOn
<1> QED BY Zenon, <1>0, <1>4 DEF FileInv

(* The index stays right when the file grows. *)
LEMMA SpillKeeps == ASSUME FileInv, Spill PROVE FileInv'
<1>0. UNCHANGED <<index, inMemory, inner, pc, running, runs, computed>> /\ running
  BY Zenon DEF Spill
<1>1. file \in Seq(Cell) /\ buffer \in Seq(Cell)
  BY Zenon DEF FileInv
<1>2. PICK n \in 1 .. Len(buffer) : /\ file' = file \o SubSeq(buffer, 1, n)
                                    /\ buffer' = SubSeq(buffer, n + 1, Len(buffer))
  BY Zenon DEF Spill
<1>3. PICK a \in Seq(Cell), b \in Seq(Cell) : a = SubSeq(buffer, 1, n) /\ b = SubSeq(buffer, n + 1, Len(buffer))
  <2>1. SubSeq(buffer, 1, n) \in Seq(Cell)
    BY <1>1
  <2>2. SubSeq(buffer, n + 1, Len(buffer)) \in Seq(Cell)
    BY <1>1
  <2> QED BY <2>1, <2>2, Zenon
<1>4. a \o b = buffer
  BY <1>1, <1>3, InTwoParts, Zenon
<1>5. file' = file \o a /\ buffer' = b
  BY <1>2, <1>3, Zenon
<1>6. file' \in Seq(Cell) /\ buffer' \in Seq(Cell) /\ file' \o buffer' = file \o buffer
  <2>1. (file \o a) \o b = file \o (a \o b)
    BY <1>1, SMT
  <2>2. file \o a \in Seq(Cell)
    BY <1>1, SMT
  <2> QED BY <1>3, <1>4, <1>5, <2>1, <2>2, Zenon
<1>7. Len(file) \in Nat /\ Len(file') >= Len(file) /\ \A p \in 1 .. Len(file) : file'[p] = file[p]
  <2>1. PICK g : g = file \o a
    BY Zenon
  <2>2. Len(g) = Len(file) + Len(a) /\ Len(file) \in Nat /\ Len(a) \in Nat
    BY <1>1, <1>3, <2>1
  <2>3. \A p \in 1 .. Len(file) : g[p] = file[p]
    BY <1>1, <1>3, <2>1
  <2>4. Len(g) >= Len(file)
    BY <2>2
  <2> QED BY <1>5, <2>1, <2>2, <2>3, <2>4, Zenon
<1>8. ASSUME NEW i \in DOMAIN index PROVE Indexed(file', i, index[i])
  <2>1. Indexed(file, i, index[i]) /\ WellFormed(file)
    BY FileLaidOut, Zenon DEF FileInv
  <2>2. PICK o \in Nat : o = index[i] /\ o < Len(file) /\ o + 1 \in 1 .. Len(file) /\ o + 1 \in DOMAIN file
    BY <1>1, <2>1 DEF Indexed
  <2>3. file'[o + 1] = file[o + 1] /\ RecordLength(file[o + 1].result) \in Nat
    BY <1>7, <2>1, <2>2, CellFacts, Zenon
  <2>4. PICK l \in Nat : l = RecordLength(file[o + 1].result) /\ o + l <= Len(file)
    BY <2>1, <2>2, <2>3, Zenon DEF Indexed
  <2>5. Len(file') \in Nat
    BY <1>6
  <2>6. o < Len(file') /\ o + l <= Len(file')
    <3>1. PICK x \in Nat, y \in Nat : x = Len(file) /\ y = Len(file') /\ y >= x
      BY <1>7, <2>5, Zenon
    <3>2. o < x /\ o + l <= x
      BY <2>2, <2>4, <3>1, Zenon
    <3>3. o < y /\ o + l <= y
      BY <3>1, <3>2
    <3> QED BY <3>1, <3>3, Zenon
  <2> QED BY <2>1, <2>2, <2>3, <2>4, <2>6, Zenon DEF Indexed
<1>9. pc' = pc /\ index' = index /\ running' = running /\ inner' = inner /\ computed' = computed
  BY Zenon, <1>0
<1>10. AnswersComputed'
  BY Zenon, <1>9 DEF FileInv, AnswersComputed
<1> QED BY <1>0, <1>6, <1>8, <1>9, <1>10 DEF FileInv

(* Nothing runs: what is on file stays as it is laid out. *)
LEMMA StopKeeps == ASSUME FileInv, Kill \/ Exit PROVE FileInv'
<1>0. file \in Seq(Cell) /\ buffer \in Seq(Cell) /\ computed \in [Instructions -> SUBSET Results]
  BY Zenon DEF FileInv
<1>1. /\ running' = FALSE /\ pc' = [t \in Threads |-> Idle] /\ inner' = Empty /\ index' = Empty
      /\ buffer' = << >> /\ computed' = computed
  BY Zenon DEF Kill, Exit, Stopped
<1>2. file' \in Seq(Cell) /\ WellFormed(file') /\ Genuine(file', computed)
  <2>1. CASE Kill
    BY Zenon, <1>0, <2>1, FileLaidOut DEF Kill
  <2>2. CASE Exit
    <3>1. file' = file \o buffer
      BY Zenon, <2>2 DEF Exit
    <3> QED BY <3>1, Zenon DEF FileInv, WellFormed
  <2> QED BY Zenon, <2>1, <2>2
<1>3. file' \o buffer' = file' /\ buffer' \in Seq(Cell)
  BY <1>1, <1>2
<1>4. DOMAIN index' = {} /\ DOMAIN inner' = {}
  BY Zenon, <1>1 DEF Empty
<1>5. pc' \in [Threads -> Working] /\ AnswersComputed'
  BY Zenon, <1>1 DEF Idle, Working, AnswersComputed
<1> QED BY Zenon, <1>0, <1>1, <1>2, <1>3, <1>4, <1>5 DEF FileInv

(* The file is indexed and cut off: the records in the index are still     *)
(* there.                                                                  *)
LEMMA OpenKeepsInv == ASSUME FileInv, Open PROVE FileInv'
<1>0. /\ UNCHANGED <<buffer, inMemory, inner, pc, computed>> /\ ~ running /\ running' = TRUE
      /\ index' = BuildIndex(file) /\ file' = SubSeq(file, 1, LastGoodOffset(file))
  BY Zenon DEF Open
<1>1. file \in Seq(Cell) /\ buffer = << >> /\ WellFormed(file) /\ Genuine(file, computed)
  BY <1>0, FileLaidOut, Zenon DEF FileInv
<1>2. PICK last : last = LastGoodOffset(file)
  BY Zenon
<1>3. last \in Offsets(file) /\ \A p \in Offsets(file) : p <= last
  BY <1>1, <1>2, LastGoodIsLast, Zenon
<1>4. AtEnd(file, last) /\ last \in Nat /\ last \in 0 .. Len(file)
  BY <1>1, <1>3, OffsetsFacts, Zenon DEF AtEnd
<1>5. PICK g : g = file'
  BY Zenon
<1>6. /\ WellFormed(g) /\ Len(g) = last /\ DOMAIN g = 1 .. last
      /\ \A p \in 1 .. last : p \in DOMAIN file /\ g[p] = file[p]
  BY <1>0, <1>1, <1>2, <1>4, <1>5, CutLaidOut, Zenon
<1>7. g \in Seq(Cell) /\ Genuine(g, computed)
  BY <1>1, <1>6, Zenon DEF Genuine, WellFormed
<1>8. Ended(g)
  <2>1. CASE last = 0
    <3>1. Len(g) = 0
      BY Zenon, <1>6, <2>1
    <3>2. g = << >>
      BY <1>7, <3>1
    <3> QED BY <3>2, Zenon DEF Ended
  <2>2. CASE last # 0
    <3>1. last \in 1 .. last
      BY <1>4, <2>2
    <3>2. g[Len(g)] = file[last] /\ file[last].n = RecordLength(file[last].result)
      BY <1>4, <1>6, <2>2, <3>1, Zenon DEF AtEnd
    <3> QED BY <3>2, Zenon DEF Ended
  <2> QED BY Zenon, <2>1, <2>2
<1>9. ASSUME NEW i \in DOMAIN index' PROVE Indexed(g, i, index'[i])
  <2>1. i \in Instructions /\ index'[i] \in RecordsOf(file, i)
    BY <1>0, <1>1, <1>9, IndexHasLast, Zenon
  <2>2. PICK o \in Nat : o = index'[i] /\ o \in Offsets(file) /\ Good(file, o) /\ file[o + 1].instr = i
    BY <1>1, <2>1, OffsetsFacts, Zenon DEF RecordsOf
  <2>3. NextOffset(file, o) <= last /\ NextOffset(file, o) = o + RecordLength(file[o + 1].result)
    BY <1>1, <1>3, <2>2, OffsetsFacts, Zenon DEF NextOffset
  <2>4. o + 1 \in DOMAIN file
    BY <1>1, <2>2 DEF Good
  <2>5. PICK l \in Nat : l = RecordLength(file[o + 1].result) /\ l >= 1
    BY <1>1, <2>4, CellFacts, RecordHasCells
  <2>6. o + l <= last /\ o + 1 \in 1 .. last /\ o < last
    BY <1>4, <2>3, <2>5
  <2>7. g[o + 1] = file[o + 1] /\ file[o + 1].n = 1
    BY <1>6, <2>2, <2>6, Zenon DEF Good
  <2> QED BY <1>6, <2>1, <2>2, <2>5, <2>6, <2>7, Zenon DEF Indexed
<1>10. g \o << >> = g /\ << >> \in Seq(Cell)
  BY <1>7
<1>11. pc' = pc /\ buffer' = << >> /\ inner' = inner /\ computed' = computed
  BY Zenon, <1>0, <1>1
<1>12. AnswersComputed'
  BY Zenon, <1>11 DEF FileInv, AnswersComputed
<1> QED BY Zenon, <1>0, <1>5, <1>6, <1>7, <1>8, <1>9, <1>10, <1>11, <1>12 DEF FileInv

(* FileInv holds from the start, and each step of a thread, each spill of  *)
(* the writer's buffer, each end of a run, wherever it cuts the file, and  *)
(* each opening of the file keeps it.                                      *)
THEOREM CacheInvariant == Spec => []FileInv
<1>1. Init => FileInv
  BY Zenon, CacheInit
<1>2. FileInv /\ [Next]_vars => FileInv'
  <2> SUFFICES ASSUME FileInv, [Next]_vars PROVE FileInv'
    BY Zenon
  <2>1. CASE UNCHANGED vars
    BY Zenon, <2>1 DEF FileInv, vars, AnswersComputed
  <2>2. CASE Next
    BY <2>2, LookupKeeps, ComputeKeeps, SaveKeeps, ReturnKeeps, SpillKeeps, StopKeeps, OpenKeepsInv, Zenon DEF Next
  <2> QED BY Zenon, <2>1, <2>2
<1> QED BY <1>1, <1>2, PTL DEF Spec

(* Whatever get returns, from the index, from memory or just computed, the *)
(* function has computed for this very instruction.                        *)
THEOREM AnswersWereComputed == Spec => []AnswersComputed
<1>1. FileInv => AnswersComputed
  BY Zenon DEF FileInv
<1> QED BY <1>1, CacheInvariant, PTL

(* What opening the file keeps. *)
Reopened == ~running /\ running' =>
              \A i \in Instructions, o \in DOMAIN file :
                 Latest(file, i, o) /\ o + Window - 1 <= Len(file) => i \in DOMAIN index' /\ index'[i] = o - 1

(* Opening the file after a crash finds the latest record of each          *)
(* instruction, except when fewer cells than the window that build_index   *)
(* reads follow the record's start.                                        *)
THEOREM RecordsSurvive == Spec => OpenKeeps
<1>1. ASSUME FileInv, Next PROVE Reopened
  <2> SUFFICES ASSUME ~ running, running', NEW i \in Instructions, NEW o \in DOMAIN file,
                      Latest(file, i, o), o + Window - 1 <= Len(file)
               PROVE  i \in DOMAIN index' /\ index'[i] = o - 1
    BY Zenon DEF Reopened
  <2>1. Open
    BY Zenon, <1>1 DEF Next, Lookup, Compute, Save, Return, Spill, Kill, Exit
  <2>2. WellFormed(file) /\ index' = BuildIndex(file)
    BY Zenon, <1>1, <2>1, FileLaidOut DEF Open
  <2>3. o - 1 \in Offsets(file) /\ Good(file, o - 1)
    BY <2>2, WholeIsReached, Zenon DEF Latest
  <2>4. o \in Nat /\ o - 1 \in Nat /\ (o - 1) + 1 = o /\ Len(file) \in Nat
    <3>1. o \in Nat /\ Len(file) \in Nat
      BY <2>2, CellFacts, Zenon
    <3>2. o - 1 \in Nat
      BY <2>2, <2>3, OffsetsFacts, Zenon
    <3>3. (o - 1) + 1 = o
      BY <3>1
    <3> QED BY Zenon, <3>1, <3>2, <3>3
  <2>5. o - 1 \in RecordsOf(file, i)
    BY Zenon, <2>3, <2>4 DEF RecordsOf, Latest
  <2>6. i \in DOMAIN index' /\ index'[i] \in RecordsOf(file, i) /\ o - 1 <= index'[i]
    BY <2>2, <2>5, IndexHasLast, Zenon
  <2>7. PICK p \in Nat : p = index'[i] /\ Good(file, p) /\ file[p + 1].instr = i
    BY <2>2, <2>6, OffsetsFacts, Zenon DEF RecordsOf
  <2>8. ~ (p + 1 \in (o + 1) .. Len(file))
    <3> SUFFICES ASSUME p + 1 \in (o + 1) .. Len(file) PROVE FALSE
      BY Zenon
    <3>1. WholeAt(file, p + 1)
      <4>1. p + 1 \in DOMAIN file
        BY <2>2, <2>4 DEF WellFormed
      <4>2. RecordLength(file[p + 1].result) \in Nat
        BY Zenon, <2>2, <4>1, CellFacts
      <4>3. PICK l \in Nat, y \in Nat : /\ l = RecordLength(file[p + 1].result) /\ y = Len(file)
                                        /\ p + l <= y /\ file[p + 1].n = 1
        BY <2>4, <2>7, <4>2, Zenon DEF Good
      <4>4. p + 1 + l - 1 <= y
        BY <4>3
      <4> QED BY <4>3, <4>4, Zenon DEF WholeAt
    <3> QED BY <2>7, <3>1, Zenon DEF Latest
  <2>9. p = o - 1
    BY <2>4, <2>6, <2>7, <2>8 DEF Good
  <2> QED BY <2>6, <2>7, <2>9, Zenon
<1>2. FileInv /\ [Next]_vars => [Reopened]_vars
  BY Zenon, <1>1
<1>3. [][Reopened]_vars => OpenKeeps
  BY Zenon DEF Reopened, OpenKeeps
<1> QED BY <1>2, <1>3, CacheInvariant, PTL DEF Spec
=============================================================================
