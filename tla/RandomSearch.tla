---------------------------- MODULE RandomSearch ----------------------------
(***************************************************************************)
(* The randomized search that skips invalid instructions                   *)
(* (liblisa-enc/src/skip/random_search.rs): from an invalid instruction    *)
(* on, look for the smallest valid one by trying random byte strings       *)
(* between it and the smallest valid one found so far.                     *)
(*                                                                         *)
(* Bytes are numbers up to MaxByte, an array of the code has MaxLen of     *)
(* them.  A random choice is any of the outcomes.                          *)
(***************************************************************************)
EXTENDS Integers, Sequences

CONSTANTS MaxByte,     \* 255 in the code
          MaxLen,      \* 16 in the code
          BatchLen     \* 512 in the code

ASSUME SearchAssumption == MaxByte \in Nat \ {0} /\ MaxLen \in Nat \ {0} /\ BatchLen \in Nat \ {0}

Byte == 0..MaxByte
Strings == [1..MaxLen -> Byte]
NoInstr == << >>       \* None

(***************************************************************************)
(* random_instr_bytes                                                      *)
(***************************************************************************)
MinAt(start, i) == IF i \in DOMAIN start THEN start[i] ELSE 0
MaxAt(end, i) == IF i \in DOMAIN end THEN end[i] ELSE MaxByte

(* last_max_avoid_index: where the string must be below end at the latest. *)
LastAvoid(end) == IF end = NoInstr THEN MaxLen + 1
                  ELSE CHOOSE i \in DOMAIN end : end[i] # 0 /\ \A j \in DOMAIN end : j > i => end[j] = 0

(* num_end: how many bytes of end are taken over. *)
NumEnd(end) == {n \in 0..MaxLen : n = 0 \/ (n <= Len(end) - 2 /\ n < LastAvoid(end))}

(* Fault: the last byte of end is not avoided. *)
ByteChoicesInclusive(start, end, r, i) ==
    LET isMin == \A j \in 1..(i - 1) : r[j] = MinAt(start, j)
        isMax == \A j \in 1..(i - 1) : r[j] = MaxAt(end, j)
    IN  (IF isMin THEN MinAt(start, i) ELSE 0) .. (IF isMax THEN MaxAt(end, i) ELSE MaxByte)

(* The bytes that may follow the first i - 1 bytes of r. *)
ByteChoices(start, end, r, i) ==
    LET isMin == \A j \in 1..(i - 1) : r[j] = MinAt(start, j)
        isMax == \A j \in 1..(i - 1) : r[j] = MaxAt(end, j)
        max == IF end = NoInstr \/ i # LastAvoid(end) THEN MaxAt(end, i) ELSE MaxAt(end, i) - 1
    IN  (IF isMin THEN MinAt(start, i) ELSE 0) .. (IF isMax THEN max ELSE MaxByte)

(* r is filled with bytes of end up to n and with random ones up to i. *)
FilledUpTo(start, end, n, r, i) ==
    \A j \in 1..i : IF j <= n THEN r[j] = end[j] ELSE r[j] \in ByteChoices(start, end, r, j)

RandomInstrBytes(start, end) == {r \in Strings : \E n \in NumEnd(end) : FilledUpTo(start, end, n, r, MaxLen)}

(***************************************************************************)
(* random_search_skip_invalid_instrs                                       *)
(***************************************************************************)
CONSTANTS Starts,     \* the instructions a search starts from
          Validities  \* what the processor may answer: functions of an instruction

VARIABLES validity,   \* what it does answer
          start, end, prefixes, invalid,
          batch,      \* the strings of the batch that are left, with the length to try
          newBatch    \* the strings to try again, one byte longer

searchVars == <<validity, start, end, prefixes, invalid, batch, newBatch>>

(* The order of instructions: a prefix comes first. *)
Before(a, b) == \/ \E i \in DOMAIN a \intersect DOMAIN b : a[i] < b[i] /\ \A j \in 1..(i - 1) : a[j] = b[j]
                \/ Len(a) < Len(b) /\ \A i \in DOMAIN a : a[i] = b[i]

(* Fault: a byte more than the known prefixes need. *)
MinLengthLonger(r) == LET fresh == {n \in 1..(MaxLen - 1) : SubSeq(r, 1, n) \notin prefixes}
                      IN  IF fresh = {} THEN MaxLen ELSE (CHOOSE n \in fresh : \A m \in fresh : n <= m) + 1

MinLength(r) == LET fresh == {n \in 1..(MaxLen - 1) : SubSeq(r, 1, n) \notin prefixes}
                IN  IF fresh = {} THEN MaxLen ELSE CHOOSE n \in fresh : \A m \in fresh : n <= m

SearchInit == /\ validity \in Validities /\ start \in Starts /\ validity[start] = "invalid"
              /\ end = NoInstr /\ prefixes = {} /\ invalid = {} /\ batch = << >> /\ newBatch = << >>

Instr(b) == SubSeq(b.bytes, 1, b.len)

(* The strings to try again and new ones make up a batch, less those that  *)
(* are known to be invalid: at gives the places of the others, in order.   *)
FillBatch ==
    /\ batch = << >>
    /\ \E new \in [1..(BatchLen - Len(newBatch)) -> RandomInstrBytes(start, end)] :
          LET all == newBatch \o [n \in DOMAIN new |-> [bytes |-> new[n], len |-> MinLength(new[n])]]
              kept == {n \in DOMAIN all : Instr(all[n]) \notin invalid}
          IN  \E len \in 0..Len(all) : \E at \in [1..len -> kept] :
                 /\ {at[n] : n \in 1..len} = kept /\ \A m, n \in 1..len : m < n => at[m] < at[n]
                 /\ batch' = [n \in 1..len |-> all[at[n]]]
    /\ newBatch' = << >>
    /\ UNCHANGED <<validity, start, end, prefixes, invalid>>

Better(instr) == end = NoInstr \/ Before(instr, end)

(* One answer of the batch is looked at. *)
Answer ==
    /\ batch # << >> /\ batch' = Tail(batch)
    /\ LET b == Head(batch)
           instr == Instr(b)
           is == validity[instr]
       IN  /\ prefixes' = IF is = "short" THEN prefixes \union {instr} ELSE prefixes
           /\ newBatch' = IF is = "short" THEN Append(newBatch, [b EXCEPT !.len = @ + 1]) ELSE newBatch
           /\ invalid' = IF is = "invalid" THEN invalid \union {instr} ELSE invalid
           /\ end' = IF is = "ok" /\ Better(instr) THEN instr ELSE end
    /\ UNCHANGED <<validity, start>>

SearchNext == FillBatch \/ Answer
SearchSpec == SearchInit /\ [][SearchNext]_searchVars
=============================================================================
