--------------------------- MODULE MCRandomSearch ---------------------------
(***************************************************************************)
(* The search over strings of MaxLen bytes, for processors whose valid and *)
(* invalid instructions are no prefixes of each other; and the random      *)
(* strings alone, for every pair of a start and an end.                    *)
(***************************************************************************)
EXTENDS RandomSearch

Instrs == UNION {[1..n -> Byte] : n \in 1..MaxLen}
IsPrefixOf(a, b) == Len(a) < Len(b) /\ \A i \in DOMAIN a : a[i] = b[i]

(* The prefixes of an instruction, valid or not, are too short, and a      *)
(* string of full length is not.                                           *)
IsProcessor(v) ==
    /\ v \in [Instrs -> {"ok", "invalid", "short", "long"}]
    /\ \A a \in Instrs : /\ v[a] = "short" => Len(a) < MaxLen
                         /\ \A b \in Instrs : IsPrefixOf(a, b) /\ v[b] \in {"ok", "invalid"} => v[a] = "short"

ASSUME ProcessorAssumption == Starts \subseteq Instrs /\ \A v \in Validities : IsProcessor(v)

(* A processor that answers for the strings of ok and bad and, for the     *)
(* others, that they are too short or too long.                            *)
Processor(ok, bad) ==
    [i \in Instrs |-> IF i \in ok THEN "ok" ELSE IF i \in bad THEN "invalid"
                      ELSE IF \E w \in ok \union bad : IsPrefixOf(i, w) THEN "short" ELSE "long"]
SomeProcessors ==
    LET all == {<<0>>, <<1, 0>>, <<1, 1>>, <<1, 2>>, <<2, 0>>, <<2, 1>>, <<2, 2>>}
    IN  {Processor(ok, all \ ok) : ok \in {{<<1, 2>>, <<2, 0>>}, {<<1, 0>>, <<2, 1>>}, {}}}
SomeStarts == {<<0>>, <<1, 1>>}

PaddedTo(instr) == [i \in 1..MaxLen |-> MinAt(instr, i)]

(* Every pair of a start and an end, with nothing searched. *)
PairInit == /\ start \in Instrs /\ end \in Instrs \union {NoInstr}
            /\ end # NoInstr => Before(PaddedTo(start), PaddedTo(end))
            /\ validity = << >> /\ prefixes = {} /\ invalid = {} /\ batch = << >> /\ newBatch = << >>

(* No search at all. *)
NoSearch == /\ start = NoInstr /\ end = NoInstr
            /\ validity = << >> /\ prefixes = {} /\ invalid = {} /\ batch = << >> /\ newBatch = << >>

(***************************************************************************)
(* Properties                                                              *)
(***************************************************************************)
InBounds(r) == ~Before(r, PaddedTo(start)) /\ (end # NoInstr => Before(r, PaddedTo(end)))

(* "check that result is in the range [start, end) if end is provided":    *)
(* the random strings are in the range, and each string of the range is    *)
(* one of them.                                                            *)
StringsAreTheRange == start # NoInstr => RandomInstrBytes(start, end) = {r \in Strings : InBounds(r)}

(* No random byte is drawn from an empty range, which would panic.         *)
NeverEmptyRange == start # NoInstr =>
    \A n \in NumEnd(end), r \in Strings, i \in 1..MaxLen :
        n < i /\ FilledUpTo(start, end, n, r, i - 1) => ByteChoices(start, end, r, i) # {}

(* What the search returns is a valid instruction after the start.         *)
FoundIsValid == end # NoInstr /\ validity # << >> => validity[end] = "ok" /\ Before(start, end)

(* A string is dropped as known to be invalid, or tried at a length, only  *)
(* on what the processor answered: no valid instruction is marked invalid, *)
(* and none is tried beyond its end.                                       *)
KnowledgeIsSound ==
    /\ \A i \in invalid : validity[i] = "invalid"
    /\ \A n \in DOMAIN batch : \A m \in 1..(batch[n].len - 1) : validity[SubSeq(batch[n].bytes, 1, m)] = "short"

(* What the search returns, and what it concludes on the way, is what the  *)
(* processor answered.                                                     *)
SearchIsSound == FoundIsValid /\ KnowledgeIsSound
=============================================================================
