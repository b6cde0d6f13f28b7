------------------------------ MODULE Normalizer ------------------------------
(***************************************************************************)
(* ComputationNormalizer (liblisa-synth/src/normalizer.rs): a computation  *)
(* is turned into a tree, its constants are propagated, ten reduction      *)
(* passes rewrite the tree given the bits of the result that are needed,   *)
(* and the tree is turned back into a computation.                         *)
(***************************************************************************)
EXTENDS Computations

CONSTANTS NodeLimit,   \* trees with more nodes may become a table  (7)
          NumInputs    \* the inputs of a computation are 1 .. NumInputs

\* Node: the operation and the sequence of subtrees
Node(op, args)  == [op |-> op, args |-> args]
ConstNode(w)    == Node(<<"Const", w>>, <<>>)
ArgNode(i, n, e) == Node(<<"Arg", i, n, e>>, <<>>)
Is(t, name)     == t.op[1] = name
IsConst(t, v)   == t.op = <<"Const", Wrap(v)>>
Const(t)        == t.op[2]
Crop1(t)        == Node(<<"Crop", 1>>, <<t>>)
Op1(name, t)    == Node(<<name>>, <<t>>)
Op2(name, s, t) == Node(<<name>>, <<s, t>>)
\* the result of an assertion that fails
Panic           == Node(<<"Panic">>, <<>>)

SumSeq(s) == FoldLeft(LAMBDA x, y : x + y, 0, s)
MapSeq(f(_), s) == SubSeq([i \in DOMAIN s |-> f(s[i])], 1, Len(s))

RECURSIVE NumNodes(_)
NumNodes(t) == 1 + SumSeq(MapSeq(NumNodes, t.args))

RECURSIVE ArgNodes(_)
ArgNodes(t) == (IF Is(t, "Arg") THEN {t.op} ELSE {}) \cup
               UNION {ArgNodes(t.args[i]) : i \in DOMAIN t.args}

RECURSIVE Panics(_)
Panics(t) == t = Panic \/ \E i \in DOMAIN t.args : Panics(t.args[i])

\* eval_with: arguments are given in the order of their most significant byte
RECURSIVE EvalNode(_, _)
EvalNode(t, get) ==
    CASE Is(t, "Const") -> Const(t)
      [] Is(t, "Arg")   -> InterpretInput(Num(get[t.op[2]]), t.op[3], t.op[4])
      [] Is(t, "Panic") -> 0
      [] OTHER          -> Compute(t.op, MapSeq(LAMBDA a : EvalNode(a, get), t.args))

\* num_bits: a bound on the position of the highest one of the value
Least(x, y) == IF x < y THEN x ELSE y
RECURSIVE NumBits(_)
NumBits(t) ==
    LET bits == MapSeq(NumBits, t.args)
        most == Max({0} \cup {bits[i] : i \in DOMAIN bits})
    IN  CASE Is(t, "Arg")   -> IF IsSigned(t.op[4]) THEN WordBits
                               ELSE IF IsLe(t.op[4]) THEN BytesOf(t.op[3]) * ByteBits ELSE t.op[3]
          [] Is(t, "Const") -> WordBits - LeadingZeros(Const(t))
          [] t.op[1] \in {"Not", "SignExtend", "Sub", "Shl", "BitMask"} -> WordBits
          [] t.op[1] \in {"Crop", "Rol"}   -> t.op[2]
          [] Is(t, "Select")               -> t.op[3]
          [] t.op[1] \in {"Parity", "IsZero", "CmpLt"} -> 1
          [] Is(t, "ByteMask")             -> most \div ByteBits
          [] t.op[1] \in {"TrailingZeros", "LeadingZeros", "PopCount"} -> ShiftBits + 1
          [] Is(t, "Add")                  -> most + 1
          [] t.op[1] \in {"Mul", "CarrylessMul"} -> Least(bits[1] + bits[2], WordBits)
          [] t.op[1] \in {"Div", "UnsignedDiv", "Or", "Xor"} -> most
          [] t.op[1] \in {"Rem", "UnsignedRem", "DepositBits"} -> bits[2]
          [] Is(t, "Shr")                  -> bits[1]
          [] t.op[1] \in {"And", "ExtractBits"} -> Least(bits[1], bits[2])
          [] Is(t, "IfZero")               -> Max({bits[2], bits[3]})
          [] Is(t, "SwapBytes")            -> BytesOf(t.op[2]) * ByteBits
          [] OTHER                         -> WordBits

NumBitsMask(t) == IF NumBits(t) >= WordBits THEN Modulus - 1 ELSE 2 ^ NumBits(t) - 1

\* the position above the highest needed bit
MaxBits(need) == WordBits - LeadingZeros(need)

\* Fault: the carries of an addition are forgotten.
ChildBitsNeededNoCarry(op, need) ==
    CASE op[1] \in {"Crop", "SignExtend", "SwapBytes"} -> AndOp(need, Bitmask(op[2]))
      [] op[1] = "Select" -> IF op[2] >= WordBits THEN 0
                             ELSE ShlW(AndOp(need, Bitmask(op[3])), op[2])
      [] op[1] \in {"Not", "And", "Or", "Xor", "Add"} -> need
      [] OTHER -> Modulus - 1

ChildBitsNeeded(op, need) ==
    CASE op[1] \in {"Crop", "SignExtend", "SwapBytes"} -> AndOp(need, Bitmask(op[2]))
      [] op[1] = "Select" -> IF op[2] >= WordBits THEN 0
                             ELSE ShlW(AndOp(need, Bitmask(op[3])), op[2])
      [] op[1] \in {"Not", "And", "Or", "Xor"} -> need
      [] op[1] = "Add" -> Bitmask(MaxBits(need))
      [] OTHER -> Modulus - 1

----------------------------------------------------------------------------
(***************************************************************************)
(* The rules of reduce_internal, one operator per operation.  t is the     *)
(* tree with its children already reduced.                                 *)
(***************************************************************************)
\* a function of at most ShiftBits bits of one argument becomes a table that is shifted
UseOne(use) == Cardinality({i \in DOMAIN use : use[i] # 0}) = 1
TableApplies(t, need, use) ==
    /\ Cardinality(Ones[need]) = 1
    /\ UseOne(use)
    /\ \A i \in DOMAIN use : Cardinality(Ones[use[i]]) <= ShiftBits
    /\ NumNodes(t) > NodeLimit

Table(t, need, use) ==
    LET i    == CHOOSE k \in DOMAIN use : use[k] # 0
        bits == use[i]
        mine == {a \in ArgNodes(t) : a[2] = i}
        e    == Head(SelectSeq(<<3, 1, 2, 0>>, LAMBDA x : \E a \in mine : a[4] = x))
        n    == (CHOOSE a \in mine : TRUE)[3]
        valid == FromOnes({WordBits - 1 - x : x \in {x \in 0 .. WordBits - 1 :
                    AndOp(EvalNode(t, [k \in DOMAIN use |-> DepositBits(x, bits)]), need) # 0}})
        rotate == WordBits - TrailingZeros(valid)
    IN  IF mine # ArgNodes(t) THEN Panic
        ELSE Op2("Shl",
                 Node(<<"Select", (rotate - 1) % WordBits, 1>>,
                      <<Op2("Shl", ConstNode(RotW(valid, rotate)),
                            Op2("ExtractBits", ArgNode(i, n, e),
                                ConstNode(IF IsLe(e) THEN SwitchEndianness(bits, n) ELSE bits)))>>),
                 ConstNode(TrailingZeros(need)))

ReduceShift(t, need) ==
    LET a == t.args[1]  b == t.args[2]
    IN  IF IsConst(b, 0) THEN a
        ELSE IF Is(t, "Shr") /\ Is(b, "Const") /\ Signed(Const(b)) >= 0
                /\ Const(b) <= WordBits /\ MaxBits(need) <= WordBits - Const(b)
             THEN Node(<<"Select", Const(b), MaxBits(need)>>, <<a>>)
             ELSE t

Covers(c, t)   == Is(c, "Const") /\ AndOp(Const(c), NumBitsMask(t)) = NumBitsMask(t)
Misses(c, t)   == Is(c, "Const") /\ AndOp(Const(c), NumBitsMask(t)) = 0
LowMask(c)     == Is(c, "Const") /\ \E n \in 0 .. WordBits : Const(c) = 2 ^ n - 1
CropBy(c, t)   == Node(<<"Crop", Cardinality(Ones[Const(c)])>>, <<t>>)
ReduceAnd(t) ==
    LET a == t.args[1]  b == t.args[2]
    IN  IF Misses(a, b) \/ Misses(b, a) THEN ConstNode(0)
        ELSE IF Covers(a, b) THEN b
        ELSE IF Covers(b, a) THEN a
        ELSE IF LowMask(a) THEN CropBy(a, b)
        ELSE IF LowMask(b) THEN CropBy(b, a)
        ELSE IF Is(a, "Crop") THEN Node(a.op, <<Op2("And", a.args[1], b)>>)
        ELSE IF Is(b, "Crop") THEN Node(b.op, <<Op2("And", a, b.args[1])>>)
        ELSE t

ReduceOr(t) ==
    LET a == t.args[1]  b == t.args[2]
        both == OrOp(NumBitsMask(a), NumBitsMask(b))
        none(c) == Is(c, "Const") /\ AndOp(Const(c), both) = 0
        all(c)  == Is(c, "Const") /\ AndOp(Const(c), both) = both
    IN  IF none(a) THEN b
        ELSE IF none(b) THEN a
        ELSE IF all(a) \/ all(b) THEN ConstNode(Modulus - 1)
        ELSE t

ReduceXor(t, need) ==
    LET unneeded(c) == Is(c, "Const") /\ AndOp(Const(c), need) = 0
    IN  IF unneeded(t.args[1]) THEN t.args[2]
        ELSE IF unneeded(t.args[2]) THEN t.args[1] ELSE t

ReduceCrop(t, need) ==
    LET a == t.args[1]  n == t.op[2]
    IN  IF NumBits(a) <= n \/ n >= MaxBits(need) THEN a
        ELSE IF Is(a, "Select") THEN Node(<<"Select", a.op[2], Least(a.op[3], n)>>, a.args)
        ELSE t

\* select of a constant shifted right: the table of the constant's bits, shifted left
SelectOfTable(t) ==
    LET c      == Const(t.args[1].args[1])
        valid  == RotW(FromOnes({WordBits - 1 - i : i \in Ones[c]}), t.op[2])
        rotate == WordBits - TrailingZeros(valid)
    IN  Node(<<"Select", (rotate - 1) % (2 * WordBits), 1>>,
             <<Op2("Shl", ConstNode(RotW(valid, rotate)), t.args[1].args[2])>>)

ReduceSelect(t) ==
    LET a == t.args[1]  skip == t.op[2]  take == t.op[3]
        shiftedConst(name) == /\ take = 1 /\ Is(a, name) /\ Is(a.args[1], "Const")
                              /\ Signed(Const(a.args[1])) >= 0
        c    == Const(a.args[1])
        drop == Least(TrailingZeros(c), skip)
        by   == Const(a.args[2])
    IN  IF skip = 0 THEN Node(<<"Crop", take>>, <<a>>)
        ELSE IF Is(a, "Select")
             THEN Node(<<"Select", skip + a.op[2], Least(take, Max({0, a.op[3] - skip}))>>, a.args)
        ELSE IF shiftedConst("Shr") THEN SelectOfTable(t)
        ELSE IF shiftedConst("Shl") /\ TrailingZeros(c) > 0
             THEN Node(<<"Select", skip - drop, take>>,
                       <<Op2("Shl", ConstNode(AshrW(c, drop)), a.args[2])>>)
        ELSE IF Is(a, "Shl") /\ Is(a.args[2], "Const")
             THEN IF Signed(by) > skip
                  THEN Node(<<"Select", 0, take>>, <<Op2("Shl", a.args[1], ConstNode(by))>>)
                  ELSE Node(<<"Select", skip - by, take>>, <<Op2("Shl", a.args[1], ConstNode(0))>>)
        ELSE IF NumBits(a) >= skip
             THEN Node(<<"Select", skip, Least(take, NumBits(a) - skip)>>, <<a>>)
        ELSE ConstNode(0)

ReduceSignExtend(t) == IF t.op[2] > NumBits(t.args[1]) THEN t.args[1] ELSE t

\* a choice between constants, or of one bit, is a Boolean operation
BooleanIfZero(c, z, nz) ==
    IF IsConst(nz, 1) THEN Op2("Or", c, z)
    ELSE IF IsConst(z, 1) THEN Op2("Or", Crop1(Op1("Not", c)), nz)
    ELSE IF IsConst(nz, 0) THEN Op2("And", Crop1(Op1("Not", c)), z)
    ELSE Op2("And", c, nz)

\* the four rules for nested choices with a result in common
NestedIfZero(t) ==
    LET c == t.args[1]  z == t.args[2]  nz == t.args[3]
        no(x)  == Op1("IsZero", x)
        yes(x) == Op1("Not", Op1("IsZero", x))
        if(cond, x, y) == Node(<<"IfZero">>, <<cond, x, y>>)
    IN  IF Is(z, "IfZero") /\ z.args[2] = nz
            THEN if(Op2("And", no(c), yes(z.args[1])), nz, z.args[3])
        ELSE IF Is(z, "IfZero") /\ z.args[3] = nz
            THEN if(Op2("And", no(c), no(z.args[1])), nz, z.args[2])
        ELSE IF Is(nz, "IfZero") /\ nz.args[2] = z
            THEN if(Op2("Or", no(c), no(nz.args[1])), nz.args[3], z)
        ELSE IF Is(nz, "IfZero") /\ nz.args[3] = z
            THEN if(Op2("And", yes(c), no(nz.args[1])), z, nz.args[2])
        ELSE t

ReduceIfZero(t, need) ==
    LET c == t.args[1]  z == t.args[2]  nz == t.args[3]
        oneBitOfNot == /\ (Is(c, "Crop") /\ c.op[2] = 1) \/ (Is(c, "Select") /\ c.op[3] = 1)
                       /\ Is(c.args[1], "Not")
    IN  IF Is(c, "Const") THEN (IF Const(c) = 0 THEN z ELSE nz)
        ELSE IF z = nz THEN z
        ELSE IF IsConst(z, 0) /\ IsConst(nz, 1) THEN Crop1(Op1("Not", Op1("IsZero", c)))
        ELSE IF IsConst(z, 1) /\ IsConst(nz, 0) THEN Op1("IsZero", c)
        ELSE IF MaxBits(need) = 1 /\ NumBits(c) = 1 /\ \E v \in {0, 1} : IsConst(z, v) \/ IsConst(nz, v)
             THEN BooleanIfZero(c, z, nz)
        ELSE IF oneBitOfNot
             THEN Node(t.op, <<Node(c.op, c.args[1].args), nz, z>>)
        ELSE IF Is(c, "IsZero") THEN Node(t.op, <<c.args[1], nz, z>>)
        ELSE NestedIfZero(t)

ReduceIsZero(t) ==
    LET a == t.args[1]
    IN  IF Is(a, "Sub") /\ NumBits(a.args[1]) = 1 /\ IsConst(a.args[2], 1) THEN Crop1(a.args[1])
        ELSE IF NumBits(a) = 1 THEN Crop1(Op1("Not", a))
        ELSE t

ReduceNot(t) ==
    LET a == t.args[1]
        anyNot == \E i \in DOMAIN a.args : Is(a.args[i], "Not")
    IN  IF Is(a, "Not") THEN a.args[1]
        ELSE IF a.op[1] \in {"And", "Or"} /\ anyNot
             THEN Node(<<IF Is(a, "And") THEN "Or" ELSE "And">>,
                       MapSeq(LAMBDA x : Op1("Not", x), a.args))
        ELSE t

\* constants of nested sums are merged: sum is the constant, on the side it was
AddSub == {"Add", "Sub"}
MergeConst(inner, left, right) ==
    IF Is(inner.args[1], "Const") THEN Node(inner.op, <<ConstNode(left), inner.args[2]>>)
    ELSE Node(inner.op, <<inner.args[1], ConstNode(right)>>)
HasConst(t) == t.op[1] \in AddSub /\ \E i \in 1 .. 2 : Is(t.args[i], "Const")
ConstOf(t)  == IF Is(t.args[1], "Const") THEN Const(t.args[1]) ELSE Const(t.args[2])
Negatable(t) == Is(t, "Const") /\ Signed(Const(t)) < 0 /\ Const(t) # 2 ^ (WordBits - 1)
Negated(t)   == ConstNode(Wrap(0 - Const(t)))

ReduceAdd(t, need) ==
    LET a == t.args[1]  b == t.args[2]
        merge(inner, k) ==
            LET d == ConstOf(inner)
            IN  MergeConst(inner, AddOp(d, k), IF Is(inner, "Add") THEN AddOp(d, k) ELSE SubOp(d, k))
        above(x, y) == /\ Is(x, "Shl") /\ Is(x.args[2], "Const")
                       /\ Const(x.args[2]) \in 1 .. WordBits - 1 /\ NumBits(y) <= Const(x.args[2])
    IN  IF MaxBits(need) = 1 /\ IsConst(b, 1) THEN Op1("Not", a)
        ELSE IF MaxBits(need) = 1 /\ IsConst(a, 1) THEN Op1("Not", b)
        ELSE IF IsConst(a, 0) THEN b
        ELSE IF IsConst(b, 0) THEN a
        ELSE IF Negatable(a) THEN Op2("Sub", b, Negated(a))
        ELSE IF Negatable(b) THEN Op2("Sub", a, Negated(b))
        ELSE IF HasConst(a) /\ Is(b, "Const") THEN merge(a, Const(b))
        ELSE IF HasConst(b) /\ Is(a, "Const") THEN merge(b, Const(a))
        ELSE IF above(b, a) \/ above(a, b) THEN Op2("Or", a, b)
        ELSE t

ReduceSub(t, need) ==
    LET a == t.args[1]  b == t.args[2]
        merge(inner, k) ==
            LET d == ConstOf(inner)
            IN  MergeConst(inner, SubOp(d, k), IF Is(inner, "Add") THEN SubOp(d, k) ELSE AddOp(d, k))
    IN  IF MaxBits(need) = 1 /\ IsConst(b, 1) THEN Op1("Not", a)
        ELSE IF IsConst(b, 0) THEN a
        ELSE IF Negatable(b) THEN Op2("Add", a, Negated(b))
        ELSE IF HasConst(a) /\ Is(b, "Const") THEN merge(a, Const(b))
        ELSE IF HasConst(b) /\ Is(a, "Const") THEN merge(b, Const(a))
        ELSE t

\* n with t the constant 2^n; the highest power is not looked at
PowerOf(t) == {n \in 0 .. WordBits - 2 : IsConst(t, 2 ^ n)}
ThePower(t) == ConstNode(CHOOSE n \in PowerOf(t) : TRUE)
ReduceMul(t) ==
    LET a == t.args[1]  b == t.args[2]
    IN  IF IsConst(a, 1) THEN b
        ELSE IF IsConst(b, 1) THEN a
        ELSE IF PowerOf(a) # {} /\ (PowerOf(b) = {} \/ Const(a) <= Const(b)) THEN Op2("Shl", b, ThePower(a))
        ELSE IF PowerOf(b) # {} THEN Op2("Shl", a, ThePower(b))
        ELSE t
ReduceUnsignedDiv(t) ==
    LET a == t.args[1]  b == t.args[2]
    IN  IF IsConst(b, 1) THEN a ELSE IF PowerOf(b) # {} THEN Op2("Shr", a, ThePower(b)) ELSE t
ReduceDiv(t) ==
    LET a == t.args[1]  b == t.args[2]
    IN  IF IsConst(b, 1) THEN a
        ELSE IF NumBits(a) < WordBits /\ PowerOf(b) # {} THEN Op2("Shr", a, ThePower(b))
        ELSE t

\* extraction of consecutive bits is a selection
ReduceExtractBits(t) ==
    LET b    == t.args[2]
        skip == TrailingZeros(Const(b))
        take == TrailingZeros(NotOp(AshrW(Const(b), skip)))
    IN  IF ~Is(b, "Const") THEN t
        ELSE IF Const(b) = 0 THEN ConstNode(0)
        ELSE IF Const(b) = ShlW(Bitmask(take), skip) THEN Node(<<"Select", skip, take>>, <<t.args[1]>>)
        ELSE t

Rules(t, need) ==
    CASE t.op[1] \in {"Shl", "Shr"} -> ReduceShift(t, need)
      [] Is(t, "And")         -> ReduceAnd(t)
      [] Is(t, "Or")          -> ReduceOr(t)
      [] Is(t, "Xor")         -> ReduceXor(t, need)
      [] Is(t, "Crop")        -> ReduceCrop(t, need)
      [] Is(t, "Select")      -> ReduceSelect(t)
      [] Is(t, "SignExtend")  -> ReduceSignExtend(t)
      [] Is(t, "IfZero")      -> ReduceIfZero(t, need)
      [] Is(t, "IsZero")      -> ReduceIsZero(t)
      [] Is(t, "Not")         -> ReduceNot(t)
      [] Is(t, "Add")         -> ReduceAdd(t, need)
      [] Is(t, "Sub")         -> ReduceSub(t, need)
      [] Is(t, "Mul")         -> ReduceMul(t)
      [] Is(t, "UnsignedDiv") -> ReduceUnsignedDiv(t)
      [] Is(t, "Div")         -> ReduceDiv(t)
      [] Is(t, "ExtractBits") -> ReduceExtractBits(t)
      [] OTHER                -> t

ReduceInternal(t, need, use) ==
    IF TableApplies(t, need, use)
    THEN LET table == Table(t, need, use) IN IF table = Panic THEN Panic ELSE Rules(table, need)
    ELSE Rules(t, need)

----------------------------------------------------------------------------
(***************************************************************************)
(* reduce: the children first, each with the bits needed of it, then the   *)
(* rules.  use: the bits of every input the tree depends on.               *)
(***************************************************************************)
NoUse == [i \in 1 .. NumInputs |-> 0]
Union(uses) == SubSeq([i \in 1 .. NumInputs |-> FoldLeft(OrOp, 0, MapSeq(LAMBDA u : u[i], uses))], 1, NumInputs)

\* the bits needed of the children of an operation
ChildrenNeeded(t, need) ==
    LET amounts == 0 .. 2 ^ Least(NumBits(t.args[2]), ShiftBits) - 1
    IN  CASE Is(t, "IfZero") -> <<Modulus - 1, need, need>>
          [] Is(t, "Rol")    -> <<Bitmask(t.op[2]), Modulus - 1>>
          [] Is(t, "Shl")    -> <<FromOnes(UNION {Ones[LshrW(need, k)] : k \in amounts}), WordBits - 1>>
          [] Is(t, "Shr")    -> <<FromOnes(UNION {Ones[ShlW(need, k)] : k \in amounts}), WordBits - 1>>
          [] OTHER           -> [i \in DOMAIN t.args |-> ChildBitsNeeded(t.op, need)]

RECURSIVE Reduce(_, _)
Reduce(t, need) ==
    CASE need = 0 -> [node |-> ConstNode(0), use |-> NoUse]
      [] need # 0 /\ Is(t, "Const") ->
            [node |-> ConstNode(AndOp(Const(t), need)), use |-> NoUse]
      [] need # 0 /\ Is(t, "Arg") ->
            [node |-> t,
             use  |-> [NoUse EXCEPT ![t.op[2]] =
                AndOp(IF IsLe(t.op[4]) THEN SwitchEndianness(need, t.op[3]) ELSE need,
                      Bitmask(t.op[3]))]]
      [] OTHER ->
            LET wanted == ChildrenNeeded(t, need)
                kids   == SubSeq([i \in DOMAIN t.args |-> Reduce(t.args[i], wanted[i])], 1, Len(t.args))
                use    == Union(MapSeq(LAMBDA k : k.use, kids))
            IN  [node |-> ReduceInternal(Node(t.op, MapSeq(LAMBDA k : k.node, kids)), need, use),
                 use  |-> use]

RECURSIVE PropagateConstants(_)
PropagateConstants(t) ==
    LET args == MapSeq(PropagateConstants, t.args)
    IN  IF t.args # <<>> /\ \A i \in DOMAIN args : Is(args[i], "Const")
        THEN ConstNode(Compute(t.op, MapSeq(Const, args)))
        ELSE Node(t.op, args)

\* tree_from: the operations run on a stack of trees
TreeFrom(c) ==
    LET leaf(arg) == CASE arg[1] = "Input" -> ArgNode(arg[2], arg[3], arg[4])
                       [] arg[1] = "Tiny"  -> ConstNode(Wrap(arg[2]))
                       [] arg[1] = "Const" -> ConstNode(c.consts[arg[2]])
        step(stack, op) ==
            LET k == Len(stack) - NumArgs(op)
            IN  Append(SubSeq(stack, 1, k),
                       CASE op[1] = "Hole"  -> leaf(c.args[op[2]])
                         [] op[1] = "Const" -> ConstNode(Wrap(op[2]))
                         [] OTHER           -> Node(op, SubSeq(stack, k + 1, Len(stack))))
        run[i \in 0 .. Len(c.ops)] == IF i = 0 THEN <<>> ELSE step(run[i - 1], c.ops[i])
    IN  Last(run[Len(c.ops)])

\* create_template: a constant that fits a byte stays in the operation
SmallConst(w) == Signed(w) \in -(2 ^ (HalfBits - 1)) .. 2 ^ (HalfBits - 1) - 1
RECURSIVE CreateTemplate(_, _)
CreateTemplate(t, c) ==
    LET hole == Len(c.args) + 1
        put(op, d) == [d EXCEPT !.ops = Append(@, op)]
    IN  CASE Is(t, "Arg") ->
               put(<<"Hole", hole>>, [c EXCEPT !.args = Append(@, <<"Input", t.op[2], t.op[3], t.op[4]>>)])
          [] Is(t, "Const") /\ SmallConst(Const(t)) -> put(<<"Const", Signed(Const(t))>>, c)
          [] Is(t, "Const") /\ ~SmallConst(Const(t)) ->
               put(<<"Hole", hole>>, [c EXCEPT !.args   = Append(@, <<"Const", Len(c.consts) + 1>>),
                                               !.consts = Append(@, Const(t))])
          [] OTHER -> put(t.op, FoldLeft(LAMBDA d, arg : CreateTemplate(arg, d), c, t.args))

\* create_computation
CreateComputation(t, c) == CreateTemplate(t, [c EXCEPT !.ops = <<>>, !.args = <<>>, !.consts = <<>>])
=============================================================================
