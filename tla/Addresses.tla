------------------------------ MODULE Addresses ------------------------------
(***************************************************************************)
(* The address computations of memory accesses (liblisa/src/encoding/      *)
(* dataflows/address_computation.rs and accesses.rs).                      *)
(***************************************************************************)
EXTENDS Areas, Sequences, FiniteSets

CONSTANTS WordBits

ASSUME AddressesAssumption == WordBits \in Nat /\ Word = 2 ^ WordBits

(***************************************************************************)
(* Terms: the value, cut to a size, shifted and multiplied, once or twice. *)
(***************************************************************************)
Signed(v) == IF v >= Word \div 2 THEN v - Word ELSE v

Calc(bits, signed, right, mult) == [bits |-> bits, signed |-> signed, right |-> right, mult |-> mult]
NumValues(c) == 2 ^ c.bits

SizeApply(c, v) ==
    LET low == v % NumValues(c)
    IN  IF c.signed /\ low >= NumValues(c) \div 2 THEN (low - NumValues(c)) % Word ELSE low
ShiftApply(c, v) == ((Signed(v) \div 2 ^ c.right) * c.mult) % Word
CalcApply(c, v) == ShiftApply(c, SizeApply(c, v))

(* A term has one or two uses of the value. *)
TermApply(term, v) == IF Len(term) = 1 THEN CalcApply(term[1], v)
                      ELSE (CalcApply(term[1], v) + CalcApply(term[2], v)) % Word

Identity == <<Calc(WordBits, FALSE, 0, 1)>>
Whole(c) == c.bits = WordBits

(* all: the terms the analysis tries.  Sizes are ordered by their bits,    *)
(* the unsigned one first.                                                 *)
SizeLeq(c, d) == c.bits < d.bits \/ (c.bits = d.bits /\ (c.signed => d.signed))
AllTerms(sizes, shifts) ==
    LET calcs == {Calc(z.bits, z.signed, h.right, h.mult) : z \in sizes, h \in shifts}
        Twofold(u) == /\ u[1].right = 0 /\ SizeLeq(u[2], u[1])
                      /\ u[2].bits # u[1].bits \/ u[2].signed # u[1].signed \/ u[2].right # u[1].right
                      /\ u[1].mult * 2 ^ u[2].right >= u[2].mult
    IN  {<<c>> : c \in calcs} \union {u \in calcs \X calcs : Twofold(u)}

None == {}

(* Fault: what is left may be more than a step of the first use. *)
StepOffsetFull(term, x0, target) ==
    LET primary == term[1].mult * 2 ^ term[2].right
        full == primary + term[2].mult
        x == (x0 + (((target - TermApply(term, x0)) % Word) \div full) * 2 ^ term[2].right) % Word
        left == (target - TermApply(term, x)) % Word
    IN  IF left < full /\ left % term[1].mult = 0 THEN {(x + left \div term[1].mult) % Word} ELSE None

(* compute_step_offset: first whole steps of the second use, then of the   *)
(* first.                                                                  *)
StepOffset(term, x0, target) ==
    LET primary == term[1].mult * 2 ^ term[2].right
        full == primary + term[2].mult
        x == (x0 + (((target - TermApply(term, x0)) % Word) \div full) * 2 ^ term[2].right) % Word
        left == (target - TermApply(term, x)) % Word
    IN  IF left < primary /\ left % term[1].mult = 0 THEN {(x + left \div term[1].mult) % Word} ELSE None

(* One round of the loop over the cycles of a second use that is smaller   *)
(* than a word: the positive part of the cycle, then the negative one.     *)
InCycle(term, target, base) ==
    LET half == NumValues(term[2]) \div 2
        x == (base * NumValues(term[2])) % Word
        left == (target - TermApply(term, x)) % Word
        positive == ShiftApply(term[1], half - 1) + ShiftApply(term[2], half - 1)
        negative == (ShiftApply(term[1], half) + CalcApply(term[2], half)) % Word
        first == IF left < positive \/ ~term[2].signed THEN StepOffset(term, x, target) ELSE None
    IN  IF first # None THEN first
        ELSE IF term[2].signed /\ left >= negative THEN StepOffset(term, (x + half) % Word, target)
        ELSE None

ByCycles(term, target) ==
    LET cycle == NumValues(term[2]) * term[1].mult
        len == ShiftApply(term[2], NumValues(term[2]))
        bases == (IF target < len THEN 0 ELSE (target - len) \div cycle) .. (target \div cycle)
        fit == {b \in bases : InCycle(term, target, b) # None}
    IN  IF fit = {} THEN None ELSE InCycle(term, target, CHOOSE b \in fit : \A c \in fit : b <= c)

Divided(target, factor) == IF target % factor = 0 THEN {target \div factor} ELSE None

(* compute_relocation: the value that moves the address from current to    *)
(* target, as a set.                                                       *)
ComputeRelocation(term, value, current, goal) ==
    LET target == (goal - (current - TermApply(term, value))) % Word
        c == term[1]
        shifted == IF c.mult = 0 THEN {(target * 2 ^ c.right) % Word}
                   ELSE {(q * 2 ^ c.right) % Word : q \in Divided(target, c.mult)}
    IN  IF Len(term) = 1 THEN {v \in shifted : SizeApply(c, v) = v}
        ELSE IF ~Whole(c) THEN None
        ELSE IF ~Whole(term[2]) THEN ByCycles(term, target)
        ELSE IF term[2].right = 0 THEN Divided(target, c.mult + term[2].mult)
        ELSE StepOffset(term, 0, target)

BitLength(n) == IF n = 0 THEN 0 ELSE CHOOSE b \in 1 .. WordBits + 1 : 2 ^ (b - 1) <= n /\ n < 2 ^ b
MaxBitInfluence(c) == c.bits + (IF c.mult < 2 THEN 0 ELSE BitLength(c.mult - 1)) - c.right

Larger(x, y) == IF x > y THEN x ELSE y
Smaller(x, y) == IF x < y THEN x ELSE y

IsPossibleWithDelta(term, original, new) ==
    LET second == IF Len(term) = 1 THEN 0 ELSE MaxBitInfluence(term[2]) + 1
        bits == Smaller(Larger(MaxBitInfluence(term[1]), second), WordBits)
        low == Smaller(original, new)
        high == Larger(original, new)
        delta == IF high - low >= Word \div 2 THEN low + (Word - high) ELSE high - low
    IN  BitLength(delta) <= bits

(* The steps between the addresses a term can reach. *)
MinimumStepSize(term) ==
    IF Len(term) = 1 THEN term[1].mult
    ELSE IF term[1].right = term[2].right THEN term[1].mult + term[2].mult ELSE 1

IsValidDelta(term, oldValue, newValue, oldAddr, newAddr) ==
    (TermApply(term, newValue) - TermApply(term, oldValue)) % Word = (newAddr - oldAddr) % Word

(***************************************************************************)
(* Address computations: an offset and a term for each input; an input is  *)
(* a register or a constant.                                               *)
(***************************************************************************)
RECURSIVE SumTo(_, _)
SumTo(s, n) == IF n = 0 THEN 0 ELSE SumTo(s, n - 1) + s[n]

Register(r) == [reg |-> r, value |-> 0]
Constant(v) == [reg |-> "none", value |-> v]
IsConst(input) == input.reg = "none"
InputValue(input, regs) == IF IsConst(input) THEN input.value ELSE regs[input.reg]

ComputeAddress(access, regs) ==
    LET n == Len(access.inputs)
        parts == [i \in 1..n |-> TermApply(access.terms[i], InputValue(access.inputs[i], regs))]
    IN  (SumTo(parts, n) + access.offset) % Word

HasFixedAddr(access) == \A i \in DOMAIN access.inputs : IsConst(access.inputs[i])

(* constant_offset_considering_inputs: how far other is from self, if that *)
(* does not depend on the registers.                                       *)
Uses(access, input) == {j \in DOMAIN access.inputs : access.inputs[j] = input}
ConstantOffset(self, other) ==
    LET Regs(a) == {i \in DOMAIN a.inputs : ~IsConst(a.inputs[i])}
        Consts(a) == LET v == [i \in DOMAIN a.inputs |-> a.inputs[i].value] IN SumTo(v, Len(a.inputs))
    IN  IF /\ \A i \in Regs(self) : \E j \in Uses(other, self.inputs[i]) : self.terms[i] = other.terms[j]
           /\ \A j \in Regs(other) : Uses(self, other.inputs[j]) # {}
        THEN {Signed((other.offset - self.offset + Consts(other) - Consts(self)) % Word)}
        ELSE None
=============================================================================
