-------------------------- MODULE InstructionFilter --------------------------
(***************************************************************************)
(* Instructions and instruction filters (liblisa/src/instr/mod.rs and      *)
(* filter.rs).  An instruction is a sequence of bytes, a filter a sequence *)
(* of byte filters.  A byte is a function from bit positions, the most     *)
(* significant first; a byte filter gives each position 0, 1 or Wildcard,  *)
(* which is the pair (mask, value) of the code with the value's bits zero  *)
(* outside the mask.  An Option of the code is a set with at most one      *)
(* element.                                                                *)
(***************************************************************************)
EXTENDS Integers, Sequences

CONSTANT BitsPerByte   \* 8 in the code

ASSUME BitsAssumption == BitsPerByte \in Nat \ {0}

Wildcard == 2
Bits == 1..BitsPerByte
Bytes == [Bits -> {0, 1}]
ByteFilters == [Bits -> {0, 1, Wildcard}]
Instructions == Seq(Bytes)
Filters == Seq(ByteFilters)

(***************************************************************************)
(* ByteFilter                                                              *)
(***************************************************************************)
ByteMatches(bf, b) == \A i \in Bits : bf[i] = Wildcard \/ bf[i] = b[i]
MatchesAnything(bf) == \A i \in Bits : bf[i] = Wildcard

ByteCovers(f, g) == \A i \in Bits : f[i] = Wildcard \/ f[i] = g[i]
CanIntersect(f, g) == \A i \in Bits : f[i] = Wildcard \/ g[i] = Wildcard \/ f[i] = g[i]

Single(S) == \E i \in S : S = {i}
DiffersAt(f, g) == {i \in Bits : f[i] # g[i]}
WiderAt(f, g) == {i \in Bits : f[i] = Wildcard /\ g[i] # Wildcard}

CanMerge(f, g) == /\ \A i \in Bits : f[i] = Wildcard <=> g[i] = Wildcard
                  /\ Single(DiffersAt(f, g))
Merge(f, g) == [i \in Bits |-> IF f[i] # g[i] THEN Wildcard ELSE f[i]]

CanExclude(f, g) == ~ByteCovers(g, f) /\ Single(WiderAt(f, g)) /\ CanIntersect(f, g)
Exclude(f, g) == [i \in Bits |-> IF i \in WiderAt(f, g) THEN 1 - g[i] ELSE f[i]]

ByteIntersect(f, g) == [i \in Bits |-> IF f[i] = Wildcard THEN g[i] ELSE f[i]]

(***************************************************************************)
(* InstructionFilter                                                       *)
(***************************************************************************)
Matches(f, instr) ==
    \A k \in DOMAIN f : IF k \in DOMAIN instr THEN ByteMatches(f[k], instr[k]) ELSE MatchesAnything(f[k])

MatchesSmallerPartially(f, instr) ==
    Len(instr) <= Len(f) /\ \A k \in DOMAIN instr : ByteMatches(f[k], instr[k])

Covers(f, g) == Len(f) <= Len(g) /\ \A k \in DOMAIN f : ByteCovers(f[k], g[k])
Overlaps(f, g) == \A k \in DOMAIN f \intersect DOMAIN g : CanIntersect(f[k], g[k])
Intersect(f, g) == [k \in DOMAIN f |-> ByteIntersect(f[k], g[k])]

(* Fault: the bytes before the merged one need not be equal. *)
MergesAtOnly(f, g, k) == CanMerge(f[k], g[k]) /\ \A j \in DOMAIN f : j > k => f[j] = g[j]
MergesAt(f, g, k) == CanMerge(f[k], g[k]) /\ \A j \in DOMAIN f : j # k => f[j] = g[j]
TryMerge(f, g) ==
    IF Len(f) # Len(g) THEN {}
    ELSE {[f EXCEPT ![k] = Merge(f[k], g[k])] : k \in {j \in DOMAIN f : MergesAt(f, g, j)}}

ExcludesAt(f, g, k) == CanExclude(f[k], g[k]) /\ \A j \in DOMAIN f : j # k => ByteCovers(g[j], f[j])
TryExclude(f, g) ==
    IF Len(f) # Len(g) THEN {}
    ELSE {[f EXCEPT ![k] = Exclude(f[k], g[k])] : k \in {j \in DOMAIN f : ExcludesAt(f, g, j)}}

(***************************************************************************)
(* Order and bits, counted from the left                                   *)
(***************************************************************************)
BitLen(x) == Len(x) * BitsPerByte
ByteOf(n) == ((n - 1) \div BitsPerByte) + 1
BitOf(n) == ((n - 1) % BitsPerByte) + 1
BitAt(x, n) == x[ByteOf(n)][BitOf(n)]
FromBits(len, bit) == [k \in 1..len |-> [i \in Bits |-> bit[(k - 1) * BitsPerByte + i]]]
SetBit(x, n, b) == [x EXCEPT ![ByteOf(n)][BitOf(n)] = b]
Shortest(a, b) == IF a <= b THEN a ELSE b

(* Ord: lexicographic; a prefix comes first. *)
Less(a, b) ==
    \/ \E n \in 1..Shortest(BitLen(a), BitLen(b)) :
          BitAt(a, n) < BitAt(b, n) /\ \A m \in 1..(n - 1) : BitAt(a, m) = BitAt(b, m)
    \/ Len(a) < Len(b) /\ \A k \in DOMAIN a : a[k] = b[k]
AtMost(a, b) == a = b \/ Less(a, b)

SmallestMatching(f) == [k \in DOMAIN f |-> [i \in Bits |-> IF f[k][i] = Wildcard THEN 0 ELSE f[k][i]]]
LargestMatching(f) == [k \in DOMAIN f |-> [i \in Bits |-> IF f[k][i] = Wildcard THEN 1 ELSE f[k][i]]]

(* The first loop of next_matching_instruction follows instr up to the     *)
(* first bit the filter does not let it follow.                            *)
Following(f, instr) ==
    LET len == Shortest(BitLen(f), BitLen(instr))
        off == {n \in 1..len : BitAt(f, n) # Wildcard /\ BitAt(f, n) # BitAt(instr, n)}
    IN  FromBits(Len(f), [n \in 1..BitLen(f) |->
            IF n <= len /\ BitAt(f, n) = Wildcard /\ \A m \in off : n < m
            THEN BitAt(instr, n) ELSE BitAt(SmallestMatching(f), n)])

(* The second loop counts up, from the right, over the wildcards that lie  *)
(* within instr: carrying out of the ones, raising the first zero that     *)
(* makes the result larger than instr.                                     *)
Raised(f, result, len, n) ==
    FromBits(Len(f), [m \in 1..BitLen(f) |->
        CASE m = n -> 1
          [] m > n /\ m <= len /\ BitAt(f, m) = Wildcard -> 0
          [] OTHER -> BitAt(result, m)])

NextMatching(f, instr) ==
    IF Less(LargestMatching(f), instr) THEN {}
    ELSE LET len == Shortest(BitLen(f), BitLen(instr))
             result == Following(f, instr)
             up == {n \in 1..len : /\ BitAt(f, n) = Wildcard /\ BitAt(result, n) = 0
                                   /\ Less(instr, Raised(f, result, len, n))}
             n == IF up = {} THEN 0 ELSE CHOOSE m \in up : \A o \in up : o <= m
         IN  {IF Less(result, instr) THEN Raised(f, result, len, n) ELSE result}
=============================================================================
