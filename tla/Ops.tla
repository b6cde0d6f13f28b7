--------------------------------- MODULE Ops ---------------------------------
(***************************************************************************)
(* The operations of computations (liblisa/src/semantics/default/ops.rs)   *)
(* on machine words, and the SMT expressions the code generator emits for  *)
(* them (codegen/smt.rs over the trait methods of smt/solver.rs).  A word  *)
(* is a natural number below 2^WordBits; the code has words of 128 bits,   *)
(* bytes of 8 bits, and takes rotation amounts modulo 2^32.  Arithmetic is *)
(* that of a release build: shift amounts of Rust's << and >> wrap.        *)
(***************************************************************************)
EXTENDS Integers, Sequences, FiniteSets, FiniteSetsExt

CONSTANTS ByteBits,    \* bits in a byte                  (8)
          NumBytes,    \* bytes in a word, a power of two (16)
          AmountBits   \* bits of a rotation amount       (32)

WordBits == ByteBits * NumBytes
HalfBits == WordBits \div 2
Modulus  == 2 ^ WordBits
Word     == 0 .. Modulus - 1
Wrap(x)  == x % Modulus

ASSUME WordsAssumption ==
    /\ ByteBits \in Nat \ {0} /\ NumBytes \in Nat \ {0} /\ AmountBits \in Nat
    /\ \E k \in 1 .. WordBits : WordBits = 2 ^ k
    /\ WordBits < 2 ^ AmountBits

(***************************************************************************)
(* A word as the set of its one bits, tabled in both directions.           *)
(***************************************************************************)
Ones == [w \in Word |-> {i \in 0 .. WordBits - 1 : (w \div 2 ^ i) % 2 = 1}]
ValueOf == [S \in SUBSET (0 .. WordBits - 1) |-> SumSet({2 ^ i : i \in S})]
FromOnes(S) == ValueOf[S]
Bit(w, i) == IF i \in Ones[w] THEN 1 ELSE 0
Signed(w) == IF WordBits - 1 \in Ones[w] THEN w - Modulus ELSE w

\* Rust's wrapping_shl, >> of an i128, >> of an u128, swap_bytes, rotate_left
ShlW(w, n)  == Wrap(w * 2 ^ (n % WordBits))
AshrW(w, n) == Wrap(Signed(w) \div 2 ^ (n % WordBits))
LshrW(w, n) == w \div 2 ^ (n % WordBits)
SwapWord(w) == FromOnes({(NumBytes - 1 - (i \div ByteBits)) * ByteBits + (i % ByteBits)
                            : i \in Ones[w]})
RotW(w, n)  == FromOnes({(i + n) % WordBits : i \in Ones[w]})
TrailingZeros(w) == IF w = 0 THEN WordBits ELSE Min(Ones[w])
LeadingZeros(w)  == IF w = 0 THEN WordBits ELSE WordBits - 1 - Max(Ones[w])
\* division of two's complement numbers rounds towards zero
Quot(x, y) == LET m == (IF x < 0 THEN -x ELSE x) \div (IF y < 0 THEN -y ELSE y)
              IN  IF (x < 0) = (y < 0) THEN m ELSE -m

\* bytes of n bits, rounded up
BytesOf(n) == (n + ByteBits - 1) \div ByteBits

\* bitmask_u128 and sign_extend of utils/mod.rs
Bitmask(n) == 2 ^ n - 1
SignExtendTo(w, n) == AshrW(ShlW(w, WordBits - n), WordBits - n)
\* switch_endianness_u128
SwitchEndianness(w, n) == LshrW(SwapWord(w), ((WordBits - n) \div ByteBits) * ByteBits)
\* deposit_bits_u128: the n-th one of the selector receives bit n of the source
DepositBits(src, sel) ==
    FromOnes({i \in Ones[sel] : Cardinality({j \in Ones[sel] : j < i}) \in Ones[src]})

----------------------------------------------------------------------------
(***************************************************************************)
(* The implementations of FastOpImpl.                                      *)
(***************************************************************************)
\* (1 << n) - 1, where a shift by the width of the word is a shift by zero
CropMask(n)        == Wrap(ShlW(1, n) - 1)
AndOp(a, b)        == FromOnes(Ones[a] \cap Ones[b])
OrOp(a, b)         == FromOnes(Ones[a] \cup Ones[b])
XorOp(a, b)        == FromOnes((Ones[a] \cup Ones[b]) \ (Ones[a] \cap Ones[b]))
NotOp(a)           == Modulus - 1 - a
CropOp(n, a)       == AndOp(a, CropMask(n))
SignExtendOp(n, a) == SignExtendTo(AndOp(a, CropMask(n)), n)
SelectOp(s, t, a)  == AndOp(AshrW(a, s), CropMask(t))
ParityOp(a)        == (Cardinality({i \in Ones[a] : i < ByteBits}) + 1) % 2
IsZeroOp(a)        == IF a = 0 THEN 1 ELSE 0
ByteMaskOp(a)      == FromOnes({i \in 0 .. NumBytes - 1 : i * ByteBits + ByteBits - 1 \in Ones[a]})
BitMaskOp(a)       == IF Signed(a) >= WordBits THEN Modulus - 1 ELSE Wrap(ShlW(1, a) - 1)
TrailingZerosOp(a) == TrailingZeros(a)
LeadingZerosOp(a)  == LeadingZeros(a)
PopCountOp(a)      == Cardinality(Ones[a])
SwapBytesOp(n, a)  == AshrW(SwapWord(a), ((WordBits - n) \div ByteBits) * ByteBits)
AddOp(a, b)        == Wrap(a + b)
SubOp(a, b)        == Wrap(a - b)
MulOp(a, b)        == Wrap(a * b)
CarrylessMulOp(a, b) ==
    FromOnes({k \in 0 .. WordBits - 1 :
        Cardinality({i \in Ones[a] : i <= k /\ k - i \in Ones[b]}) % 2 = 1})
DivOp(a, b)         == IF b = 0 THEN 0 ELSE Wrap(Quot(Signed(a), Signed(b)))
UnsignedDivOp(a, b) == IF b = 0 THEN 0 ELSE a \div b
RemOp(a, b)         == IF b = 0 THEN 0
                       ELSE Wrap(Signed(a) - Quot(Signed(a), Signed(b)) * Signed(b))
UnsignedRemOp(a, b) == IF b = 0 THEN 0 ELSE a % b
ShlOp(a, b)         == ShlW(a, b)
ShrOp(a, b)         == AshrW(a, b)
CmpLtOp(a, b)       == IF Signed(a) < Signed(b) THEN 1 ELSE 0
RolOp(n, a, b) ==
    LET low == AndOp(a, Bitmask(n))
        amt == (b % 2 ^ AmountBits) % n
    IN  AndOp(OrOp(ShlW(low, amt), AshrW(low, n - amt)), Bitmask(n))
IfZeroOp(c, a, b)   == IF c = 0 THEN a ELSE b
DepositBitsOp(a, b) == DepositBits(a, b)
\* the loop shifts the source and the selector past each selected bit
ExtractBitsOp(a, b) ==
    FromOnes({Cardinality({j \in Ones[b] : j < i}) : i \in Ones[a] \cap Ones[b]})

----------------------------------------------------------------------------
(***************************************************************************)
(* Operations as tuples <<name, parameters>>; num_args and                 *)
(* eval_from_stack.  The arguments of an operation are the last num_args   *)
(* values of the stack, oldest first.                                      *)
(***************************************************************************)
Unary   == {"Not", "IsZero", "Crop", "Select", "Parity", "SignExtend", "ByteMask",
            "BitMask", "TrailingZeros", "LeadingZeros", "PopCount", "SwapBytes"}
NumArgs(op) ==
    CASE op[1] \in {"Hole", "Const"} -> 0
      [] op[1] \in Unary             -> 1
      [] op[1] = "IfZero"            -> 3
      [] OTHER                       -> 2

Apply1(op, a) ==
    CASE op[1] = "Not"           -> NotOp(a)
      [] op[1] = "Crop"          -> CropOp(op[2], a)
      [] op[1] = "SignExtend"    -> SignExtendOp(op[2], a)
      [] op[1] = "Select"        -> SelectOp(op[2], op[3], a)
      [] op[1] = "Parity"        -> ParityOp(a)
      [] op[1] = "IsZero"        -> IsZeroOp(a)
      [] op[1] = "ByteMask"      -> ByteMaskOp(a)
      [] op[1] = "BitMask"       -> BitMaskOp(a)
      [] op[1] = "TrailingZeros" -> TrailingZerosOp(a)
      [] op[1] = "LeadingZeros"  -> LeadingZerosOp(a)
      [] op[1] = "PopCount"      -> PopCountOp(a)
      [] op[1] = "SwapBytes"     -> SwapBytesOp(op[2], a)

Apply2(op, a, b) ==
    CASE op[1] = "Add"          -> AddOp(a, b)
      [] op[1] = "Sub"          -> SubOp(a, b)
      [] op[1] = "Mul"          -> MulOp(a, b)
      [] op[1] = "CarrylessMul" -> CarrylessMulOp(a, b)
      [] op[1] = "Div"          -> DivOp(a, b)
      [] op[1] = "UnsignedDiv"  -> UnsignedDivOp(a, b)
      [] op[1] = "Rem"          -> RemOp(a, b)
      [] op[1] = "UnsignedRem"  -> UnsignedRemOp(a, b)
      [] op[1] = "Shl"          -> ShlOp(a, b)
      [] op[1] = "Shr"          -> ShrOp(a, b)
      [] op[1] = "And"          -> AndOp(a, b)
      [] op[1] = "Or"           -> OrOp(a, b)
      [] op[1] = "Xor"          -> XorOp(a, b)
      [] op[1] = "CmpLt"        -> CmpLtOp(a, b)
      [] op[1] = "Rol"          -> RolOp(op[2], a, b)
      [] op[1] = "DepositBits"  -> DepositBitsOp(a, b)
      [] op[1] = "ExtractBits"  -> ExtractBitsOp(a, b)

\* what an operation computes from its arguments (args: a sequence of words)
Compute(op, args) ==
    CASE NumArgs(op) = 1 -> Apply1(op, args[1])
      [] NumArgs(op) = 2 -> Apply2(op, args[1], args[2])
      [] NumArgs(op) = 3 -> IfZeroOp(args[1], args[2], args[3])

----------------------------------------------------------------------------
(***************************************************************************)
(* What the SMT expressions of Z3CodeGen denote.  The functions Bv* are    *)
(* those of the SMT theory of bit vectors (external); Extract(w, hi, lo)   *)
(* zero-extended is the number of the extracted bits.                      *)
(***************************************************************************)
Extract(w, hi, lo) == FromOnes({i - lo : i \in {j \in Ones[w] : lo <= j /\ j <= hi}})
BvShl(w, n)  == IF n >= WordBits THEN 0 ELSE Wrap(w * 2 ^ n)
BvAshr(w, n) == IF n >= WordBits THEN Wrap(IF Signed(w) < 0 THEN -1 ELSE 0)
                ELSE Wrap(Signed(w) \div 2 ^ n)
BvLshr(w, n) == IF n >= WordBits THEN 0 ELSE w \div 2 ^ n
BvSignExt(w, n) == IF n - 1 \in Ones[w] THEN w + (Modulus - 2 ^ n) ELSE w
BvRotl(w, n, k) == FromOnes({(i + k) % n : i \in Ones[w]})

\* the number of bits of a shift amount that count (7 for a word of 128 bits)
ShiftBits == CHOOSE k \in 0 .. WordBits : 2 ^ k = WordBits

SmtSelect(s, t, a) == Extract(a, s + t - 1, s)
SmtCrop(n, a)      == SmtSelect(0, n, a)
\* Fault: amounts that do not fit the word are not reduced.
SmtShlUnreduced(a, b) == BvShl(a, b)
SmtShl(a, b)       == BvShl(a, SmtCrop(ShiftBits, b))
SmtShr(a, b)       == BvAshr(a, SmtCrop(ShiftBits, b))
SmtRol(n, a, b) ==
    LET amt == Extract(b, AmountBits - 1, 0) % n
    IN  BvRotl(Extract(a, n - 1, 0), n,
               IF n > AmountBits THEN amt ELSE Extract(amt, n - 1, 0))
SmtSignExtend(n, a) == BvSignExt(Extract(a, n - 1, 0), n)
SmtParity(a) == 1 - (Cardinality({i \in 0 .. ByteBits - 1 : Bit(a, i) = 1}) % 2)
SmtIfZero(c, a, b) == IF c = 0 THEN a ELSE b
SmtIsZero(a)       == SmtIfZero(a, 1, 0)
SmtCmpLt(a, b)     == IF Signed(a) < Signed(b) THEN 1 ELSE 0
SmtBitMask(a)      == IF Signed(a) >= WordBits THEN Modulus - 1
                      ELSE NotOp(SmtShl(Modulus - 1, a))
\* the largest prefix (suffix) of zero bits, chosen by nested if-then-else
SmtTrailingZeros(a) == Max({0} \cup {n \in 1 .. WordBits : Extract(a, n - 1, 0) = 0})
SmtLeadingZeros(a)  == Max({0} \cup {n \in 1 .. WordBits :
                                        Extract(a, WordBits - 1, WordBits - n) = 0})
SmtPopcount(a, n)   == Cardinality({i \in 0 .. n - 1 : Bit(a, i) = 1})
\* the concatenation, first byte highest, of the lowest n bytes
SmtSwapBytes(n, a) ==
    LET b == BytesOf(n)
    IN  MapThenSumSet(LAMBDA i : Extract(a, i * ByteBits + ByteBits - 1, i * ByteBits)
                                     * 2 ^ ((b - 1 - i) * ByteBits), 0 .. b - 1)
SmtDiv(a, b)         == IF b = 0 THEN 0 ELSE Wrap(Quot(Signed(a), Signed(b)))
SmtDivUnsigned(a, b) == IF b = 0 THEN 0 ELSE a \div b
SmtRem(a, b)         == IF b = 0 THEN 0
                        ELSE Wrap(Signed(a) - Quot(Signed(a), Signed(b)) * Signed(b))
SmtRemUnsigned(a, b) == IF b = 0 THEN 0 ELSE a % b
SmtDepositBits(a, b) ==
    FromOnes({n \in Ones[b] : Bit(BvLshr(a, SmtPopcount(b, n)), 0) = 1})
SmtExtractBits(a, b) ==
    FromOnes({SmtPopcount(b, n) : n \in {k \in 0 .. WordBits - 1 : Bit(a, k) * Bit(b, k) = 1}})
SmtCarrylessMul(a, b) ==
    LET RECURSIVE Sum(_, _)
        Sum(i, acc) == IF i = WordBits THEN acc
                       ELSE Sum(i + 1, IF Bit(a, i) = 1 THEN XorOp(acc, BvShl(b, i)) ELSE acc)
    IN  Sum(0, 0)

Smt1(op, a) ==
    CASE op[1] = "Not"           -> NotOp(a)
      [] op[1] = "Crop"          -> SmtCrop(op[2], a)
      [] op[1] = "SignExtend"    -> SmtSignExtend(op[2], a)
      [] op[1] = "Select"        -> SmtSelect(op[2], op[3], a)
      [] op[1] = "Parity"        -> SmtParity(a)
      [] op[1] = "IsZero"        -> SmtIsZero(a)
      [] op[1] = "BitMask"       -> SmtBitMask(a)
      [] op[1] = "TrailingZeros" -> SmtTrailingZeros(a)
      [] op[1] = "LeadingZeros"  -> SmtLeadingZeros(a)
      [] op[1] = "PopCount"      -> SmtPopcount(a, WordBits)
      [] op[1] = "SwapBytes"     -> SmtSwapBytes(op[2], a)

Smt2(op, a, b) ==
    CASE op[1] = "CarrylessMul" -> SmtCarrylessMul(a, b)
      [] op[1] = "Div"          -> SmtDiv(a, b)
      [] op[1] = "UnsignedDiv"  -> SmtDivUnsigned(a, b)
      [] op[1] = "Rem"          -> SmtRem(a, b)
      [] op[1] = "UnsignedRem"  -> SmtRemUnsigned(a, b)
      [] op[1] = "Shl"          -> SmtShl(a, b)
      [] op[1] = "Shr"          -> SmtShr(a, b)
      [] op[1] = "CmpLt"        -> SmtCmpLt(a, b)
      [] op[1] = "Rol"          -> SmtRol(op[2], a, b)
      [] op[1] = "DepositBits"  -> SmtDepositBits(a, b)
      [] op[1] = "ExtractBits"  -> SmtExtractBits(a, b)
      [] OTHER                  -> Apply2(op, a, b)   \* bvadd, bvsub, bvmul, bvand, bvor, bvxor

SmtCompute(op, args) ==
    CASE NumArgs(op) = 1 -> Smt1(op, args[1])
      [] NumArgs(op) = 2 -> Smt2(op, args[1], args[2])
      [] NumArgs(op) = 3 -> SmtIfZero(args[1], args[2], args[3])
=============================================================================
