----------------------------- MODULE Computations -----------------------------
(***************************************************************************)
(* Computations (liblisa/src/semantics/default/computation.rs): a list of  *)
(* operations run on a stack, the interpretation of its arguments, and the *)
(* conversion of its result to an output; the combinators that build new   *)
(* computations from old ones; and the SMT expression the code generator   *)
(* (codegen/mod.rs) produces for a computation.                            *)
(***************************************************************************)
EXTENDS Ops, SequencesExt

(***************************************************************************)
(* An input value is a number or a sequence of bytes.  Encodings of        *)
(* arguments carry the discriminants of ArgEncoding: 0 signed LE,          *)
(* 1 signed BE, 2 unsigned LE, 3 unsigned BE.                              *)
(***************************************************************************)
Num(n)     == [bytes |-> FALSE, v |-> n]
BytesV(bs) == [bytes |-> TRUE,  v |-> bs]
Byte(w, i) == (w \div 2 ^ (i * ByteBits)) % 2 ^ ByteBits
FromLeBytes(bs) == FoldRight(LAMBDA b, acc : acc * 2 ^ ByteBits + b, bs, 0)
ToLeBytes(w, n) == [i \in 1 .. n |-> Byte(w, i - 1)]
ToBeBytes(w, n) == [i \in 1 .. n |-> Byte(w, n - i)]

IsSigned(e) == e < 2
IsLe(e)     == e % 2 = 0

\* interpret_be_u64 for numbers; interpret_le_u64 and interpret_u128 for bytes
InterpretInput(value, n, e) ==
    LET raw   == IF value.bytes THEN FromLeBytes(value.v) ELSE value.v
        order == IF value.bytes = IsLe(e) THEN raw ELSE SwitchEndianness(raw, n)
    IN  IF IsSigned(e) THEN SignExtendTo(order, n) ELSE order

\* Arg::interpret_inputs.  Inputs and constants are indexed from 1.
Interpret(arg, inputs, consts) ==
    CASE arg[1] = "Input" -> InterpretInput(inputs[arg[2]], arg[3], arg[4])
      [] arg[1] = "Tiny"  -> Wrap(arg[2])
      [] arg[1] = "Const" -> consts[arg[2]]

\* one operation of Expr::evaluate_on_stack; vals are the interpreted arguments
StepStack(stack, op, vals) ==
    LET k == Len(stack) - NumArgs(op)
    IN  Append(SubSeq(stack, 1, k),
               CASE op[1] = "Hole"  -> vals[op[2]]
                 [] op[1] = "Const" -> Wrap(op[2])
                 [] OTHER           -> Compute(op, SubSeq(stack, k + 1, Len(stack))))
EvalOps(ops, vals) ==
    LET run[i \in 0 .. Len(ops)] == IF i = 0 THEN <<>> ELSE StepStack(run[i - 1], ops[i], vals)
    IN  Last(run[Len(ops)])

----------------------------------------------------------------------------
(***************************************************************************)
(* Outputs.  out.n counts bits of a number (OutputType::Number keeps the   *)
(* mask of these bits) or bytes; enc is "le" or "be".                      *)
(***************************************************************************)
OutBits(out) == IF out.bytes THEN out.n * ByteBits ELSE out.n

ToOutput(c, r) ==
    IF ~c.out.bytes THEN Num(r % 2 ^ c.out.n)
    ELSE BytesV(IF c.enc = "le" THEN ToLeBytes(r, c.out.n) ELSE ToBeBytes(r, c.out.n))

ArgValues(c, inputs) == [i \in DOMAIN c.args |-> Interpret(c.args[i], inputs, c.consts)]
Result(c, inputs)    == EvalOps(c.ops, ArgValues(c, inputs))
Evaluate(c, inputs)  == ToOutput(c, Result(c, inputs))

\* i128_compare_eq
CompareEq(c, expected, r) ==
    IF ~c.out.bytes THEN expected = Num(r % 2 ^ c.out.n)
    ELSE /\ Len(expected.v) = c.out.n
         /\ \A i \in 1 .. c.out.n :
                expected.v[i] = Byte(r, IF c.enc = "le" THEN i - 1 ELSE c.out.n - i)

\* PreparedComparison::from
Prepare(value) ==
    IF ~value.bytes THEN [le |-> value.v, be |-> value.v]
    ELSE LET v == FromLeBytes(value.v)
         IN  [le |-> v, be |-> SwitchEndianness(v, Len(value.v) * ByteBits)]

\* !(-1 << 8 * n): an empty mask for a full word
ByteCountMask(n) == NotOp(ShlW(Modulus - 1, n * ByteBits))

\* compare and prepared_compare_eq_with_args_indirect
PreparedCompare(c, prepared, r) ==
    IF ~c.out.bytes THEN r % 2 ^ c.out.n = prepared.be % 2 ^ c.out.n
    ELSE LET mask == ByteCountMask(c.out.n)
         IN  AndOp(r, mask) = AndOp(IF c.enc = "le" THEN prepared.le ELSE prepared.be, mask)

\* compare_dual
CompareDual(c, prepared, r) ==
    LET mask == IF c.out.n = NumBytes THEN Modulus - 1 ELSE ByteCountMask(c.out.n)
        eq(v) == IF ~c.out.bytes THEN r % 2 ^ c.out.n = prepared.be % 2 ^ c.out.n
                 ELSE AndOp(r, mask) = AndOp(v, mask)
    IN  [le |-> eq(prepared.le), be |-> eq(prepared.be)]

\* used_input_indices and is_identity
UsedInputs(c) == {c.args[i][2] : i \in {j \in DOMAIN c.args : c.args[j][1] = "Input"}}
IsIdentity(c) ==
    /\ Len(c.args) = 1
    /\ c.args[1][1] = "Input"
    /\ c.args[1][2] = 1 /\ c.args[1][3] >= OutBits(c.out)
    /\ IsLe(c.args[1][4]) = (c.enc = "le")
    /\ c.ops = << <<"Hole", 1>> >>

----------------------------------------------------------------------------
(***************************************************************************)
(* Combinators of AsComputationRef.                                        *)
(***************************************************************************)
\* Fault: the constants of the parts are not told apart.
ShiftConstForgotten(args, k) == args
ShiftConst(args, k) ==
    [i \in DOMAIN args |-> IF args[i][1] = "Const" THEN <<"Const", args[i][2] + k>> ELSE args[i]]
ShiftHoles(ops, k) ==
    [i \in DOMAIN ops |-> IF ops[i][1] = "Hole" THEN <<"Hole", ops[i][2] + k>> ELSE ops[i]]

IfZero(cond, zero, nonzero) ==
    LET swap == OutBits(zero.out) > ByteBits /\ zero.enc # nonzero.enc
        na   == Len(nonzero.args)
        nc   == Len(nonzero.consts)
    IN  [ops    |-> ShiftHoles(cond.ops, na + Len(zero.args))
                    \o << <<"Crop", OutBits(cond.out)>> >>
                    \o ShiftHoles(zero.ops, na)
                    \o << <<"Crop", OutBits(zero.out)>> >>
                    \o nonzero.ops
                    \o << <<"Crop", OutBits(nonzero.out)>> >>
                    \o (IF swap THEN << <<"SwapBytes", OutBits(nonzero.out)>> >> ELSE <<>>)
                    \o << <<"IfZero">> >>,
         args   |-> nonzero.args \o ShiftConst(zero.args, nc)
                                 \o ShiftConst(cond.args, nc + Len(zero.consts)),
         consts |-> nonzero.consts \o zero.consts \o cond.consts,
         enc    |-> zero.enc,
         out    |-> zero.out]

\* the assertions of chain
Chainable(self, other) ==
    self.out = other.out /\ (OutBits(self.out) > ByteBits => self.enc = other.enc)

\* arguments of self are looked up among those of other before they are added
Chain(self, other) ==
    LET step(acc, op) ==
            IF op[1] # "Hole" THEN [acc EXCEPT !.ops = Append(@, op)]
            ELSE LET arg == self.args[op[2]]
                     at  == IF Contains(acc.args, arg) THEN SelectInSeq(acc.args, LAMBDA x : x = arg)
                            ELSE Len(acc.args) + 1
                 IN  [ops  |-> Append(acc.ops, <<"Hole", at>>),
                      args |-> IF Contains(acc.args, arg) THEN acc.args ELSE Append(acc.args, arg)]
        all == FoldLeft(step, [ops |-> other.ops, args |-> ShiftConst(other.args, Len(self.consts))],
                        self.ops)
    IN  [ops |-> all.ops, args |-> all.args, consts |-> self.consts \o other.consts,
         enc |-> self.enc, out |-> self.out]

PushOp(c, op)       == [c EXCEPT !.ops = Append(@, op)]
AndC(self, other)   == PushOp(Chain(self, other), <<"And">>)
OrC(self, other)    == PushOp(Chain(self, other), <<"Or">>)
NotC(self)          == PushOp(self, <<"Not">>)
NotCrop(self)       == PushOp(NotC(self), <<"Crop", 1>>)
Always(b) == [ops |-> << <<"Const", b>> >>, args |-> <<>>, consts |-> <<>>, enc |-> "be",
              out |-> [bytes |-> FALSE, n |-> 1]]

\* Switch::instantiate_with_outputs: cases are <<condition, output>>, folded from the last
InstantiateSwitch(cases) ==
    FoldRight(LAMBDA case, acc : IfZero(case[1], acc, case[2]),
              Front(cases), Last(cases)[2])

----------------------------------------------------------------------------
(***************************************************************************)
(* Code generation.  A term is an expression with operations that are      *)
(* applied when the term is used; a pair of equal swaps cancels.           *)
(***************************************************************************)
Term(w) == [data |-> w, ops |-> <<>>]

RECURSIVE Cancel(_)
Cancel(ops) ==
    LET pairs == {i \in 1 .. Len(ops) - 1 : ops[i][1] = "SwapBytes" /\ ops[i] = ops[i + 1]}
    IN  IF pairs = {} THEN ops
        ELSE Cancel(RemoveAt(RemoveAt(ops, Min(pairs)), Min(pairs)))

Unwrap(term) == IF term.ops = <<>> THEN term.data
                ELSE FoldLeft(LAMBDA w, op : Smt1(op, w), term.data, Cancel(term.ops))

\* a hole of codegen_template; inputs are the bit vectors of the inputs
LeafTerm(arg, inputs, consts) ==
    IF arg[1] # "Input" THEN Term(Interpret(arg, inputs, consts))
    ELSE [data |-> inputs[arg[2]],
          ops  |-> (IF IsLe(arg[4]) THEN << <<"SwapBytes", arg[3]>> >> ELSE <<>>) \o
                   (IF IsSigned(arg[4]) /\ arg[3] # WordBits THEN << <<"SignExtend", arg[3]>> >>
                    ELSE <<>>)]

StepTerms(stack, op, args, inputs, consts) ==
    LET k    == Len(stack) - NumArgs(op)
        used == SubSeq(stack, k + 1, Len(stack))
    IN  Append(SubSeq(stack, 1, k),
               CASE op[1] = "Hole"      -> LeafTerm(args[op[2]], inputs, consts)
                 [] op[1] = "Const"     -> Term(Wrap(op[2]))
                 [] op[1] = "SwapBytes" -> [used[1] EXCEPT !.ops = Append(@, op)]
                 [] OTHER -> Term(SmtCompute(op, [i \in DOMAIN used |-> Unwrap(used[i])])))

SmtTemplate(c, inputs) ==
    LET run[i \in 0 .. Len(c.ops)] ==
            IF i = 0 THEN <<>> ELSE StepTerms(run[i - 1], c.ops[i], c.args, inputs, c.consts)
    IN  Unwrap(Last(run[Len(c.ops)]))

\* codegen_computation
SmtComputation(c, inputs) ==
    LET n       == OutBits(c.out)
        cropped == SmtCrop(n, SmtTemplate(c, inputs))
    IN  IF c.enc = "le" THEN SmtSwapBytes(n, cropped) ELSE cropped

\* create_normal and get_sized: byte values are read with their first byte on top
SmtInput(value) ==
    IF value.bytes THEN SmtSwapBytes(Len(value.v) * ByteBits, FromLeBytes(value.v)) ELSE value.v
=============================================================================
