----------------------------- MODULE MCSemantics -----------------------------
(***************************************************************************)
(* Model of the computations: expressions evaluated and translated to SMT  *)
(* operation by operation (part "stack"), computations built by the        *)
(* combinators (part "combine"), and computations rewritten by the passes  *)
(* of the normalizer (part "normalize").                                   *)
(***************************************************************************)
EXTENDS Normalizer

CONSTANTS MaxOps,     \* operations of an expression
          MaxCombine, \* combinators applied to a computation
          MaxPasses,  \* passes of the normalizer (10)
          Parts,      \* the parts of the model that are explored
          WithSub     \* whether trees have subtractions

VARIABLES part,   \* the part of the model, fixed initially
          inputs, \* "stack": the inputs
          args,   \* "stack": the interpretation of the arguments
          stack,  \* "stack": the values
          terms,  \* "stack": the terms of the code generator
          comp,   \* "combine", "normalize": the computation
          spec,   \* what the computation must return, for every sampled input
          tree,   \* "normalize": the tree
          count   \* operations, combinators or passes so far

vars == <<part, inputs, args, stack, terms, comp, spec, tree, count>>

\* numbers are at most half a word wide
Bits(value) == IF value.bytes THEN Len(value.v) * ByteBits ELSE HalfBits
InputArg(i, value, e) == <<"Input", i, Bits(value), e>>

----------------------------------------------------------------------------
(* Part "stack".                                                           *)
FirstInputs  == {Num(1), Num(9), Num(15), BytesV(<<2, 1, 3, 2>>), BytesV(<<3, 0, 0, 2>>), BytesV(<<1, 2>>)}
SecondInputs == {Num(0), Num(14), BytesV(<<3, 3, 3, 3>>), BytesV(<<1, 3, 2>>)}

UnaryOps  == {<<"Not">>, <<"IsZero">>, <<"Crop", 3>>, <<"Select", 2, 5>>, <<"Select", 7, 1>>, <<"Parity">>,
              <<"SignExtend", 1>>, <<"SignExtend", 5>>, <<"BitMask">>, <<"TrailingZeros">>,
              <<"LeadingZeros">>, <<"PopCount">>}
BinaryOps == {<<"Add">>, <<"Sub">>, <<"Mul">>, <<"CarrylessMul">>, <<"Div">>, <<"UnsignedDiv">>,
              <<"Rem">>, <<"UnsignedRem">>, <<"Shl">>, <<"Shr">>, <<"And">>, <<"Or">>, <<"Xor">>,
              <<"CmpLt">>, <<"Rol", 3>>, <<"Rol", 7>>, <<"DepositBits">>, <<"ExtractBits">>}
StackOps  == {<<"Hole", 1>>, <<"Hole", 2>>, <<"Const", -2>>, <<"IfZero">>} \cup UnaryOps \cup BinaryOps

InitStack ==
    /\ \E x \in FirstInputs, y \in SecondInputs, e \in 0 .. 3, f \in {1, 2} :
            /\ inputs = <<x, y>>
            /\ args   = <<InputArg(1, x, e), InputArg(2, y, f)>>
    /\ comp = <<>> /\ spec = <<>> /\ tree = <<>>

\* one operation of the expression, evaluated and translated
Emit ==
    /\ part = "stack" /\ count < MaxOps
    /\ \E op \in StackOps :
        /\ NumArgs(op) <= Len(stack)
        /\ Len(stack) - NumArgs(op) < 3
        /\ stack' = StepStack(stack, op, [i \in 1 .. 2 |-> Interpret(args[i], inputs, <<>>)])
        /\ terms' = StepTerms(terms, op, args, [i \in 1 .. 2 |-> SmtInput(inputs[i])], <<>>)
    /\ count' = count + 1
    /\ UNCHANGED <<part, inputs, args, comp, spec, tree>>

----------------------------------------------------------------------------
(* Part "combine": input 1 is two bytes, input 2 a number.                 *)
Samples == {<<BytesV(<<a, b>>), Num(n)>> : a \in {0, 3}, b \in {2}, n \in {0, 1, 6, 13}}
In1(e) == <<"Input", 1, 2 * ByteBits, e>>
In2(e) == <<"Input", 2, HalfBits, e>>
Computation(ops, as, cs, enc, bytes, n) ==
    [ops |-> ops, args |-> as, consts |-> cs, enc |-> enc, out |-> [bytes |-> bytes, n |-> n]]
H(i) == <<"Hole", i>>

\* conditions: numbers of one bit
Conditions ==
    {Computation(<<H(1), H(2), <<"CmpLt">>>>, <<In1(0), In2(3)>>, <<>>, "be", FALSE, 1),
     Computation(<<H(1), H(2), <<"And">>, <<"IsZero">>>>, <<In2(1), <<"Const", 1>>>>, <<6>>, "be", FALSE, 1),
     Computation(<<H(1)>>, <<In2(2)>>, <<>>, "be", FALSE, 1)}
\* outputs: two bytes in both orders, three bytes, and a number
Outputs ==
    {Computation(<<H(1), H(2), <<"Add">>>>, <<In1(2), In2(1)>>, <<>>, "le", TRUE, 2),
     Computation(<<H(1)>>, <<In1(2)>>, <<>>, "le", TRUE, 2),
     Computation(<<H(1), H(2), <<"Xor">>>>, <<In1(1), <<"Const", 1>>>>, <<201>>, "be", TRUE, 2),
     Computation(<<H(1), <<"Const", -3>>, <<"Mul">>>>, <<In1(3)>>, <<>>, "be", TRUE, 3),
     Computation(<<H(2), H(1), <<"Sub">>>>, <<In2(3), <<"Tiny", 5>>>>, <<>>, "be", FALSE, 3)}

\* the value of an output as the SMT expression of a computation denotes it
Canonical(value) == IF value.bytes THEN Prepare(value).be ELSE value.v
MeaningAt(c, s) == Canonical(Evaluate(c, s))

InitCombine ==
    /\ comp \in Outputs \cup Conditions \cup {Always(0), Always(1)}
    /\ spec = [s \in Samples |-> MeaningAt(comp, s)]
    /\ inputs = <<>> /\ args = <<>> /\ tree = <<>>

\* the combinators, each with what it must compute
Combine ==
    /\ part = "combine" /\ count < MaxCombine
    /\ \/ \E c \in Conditions, o \in Outputs :
            /\ o.out = comp.out
            /\ \/ /\ comp' = IfZero(c, comp, o)
                  /\ spec' = [s \in Samples |-> IF MeaningAt(c, s) = 0 THEN spec[s] ELSE MeaningAt(o, s)]
               \/ /\ comp' = IfZero(c, o, comp)
                  /\ spec' = [s \in Samples |-> IF MeaningAt(c, s) = 0 THEN MeaningAt(o, s) ELSE spec[s]]
       \/ \E o, p \in Outputs :
            /\ o.out = p.out
            /\ comp' = IfZero(comp, o, p)
            /\ spec' = [s \in Samples |-> IF spec[s] = 0 THEN MeaningAt(o, s) ELSE MeaningAt(p, s)]
       \/ \E o \in Outputs \cup Conditions :
            /\ Chainable(comp, o)
            /\ \/ /\ comp' = AndC(comp, o)
                  /\ spec' = [s \in Samples |-> AndOp(spec[s], MeaningAt(o, s))]
               \/ /\ comp' = OrC(comp, o)
                  /\ spec' = [s \in Samples |-> OrOp(spec[s], MeaningAt(o, s))]
       \/ /\ OutBits(comp.out) = 1
          /\ comp' = NotCrop(comp)
          /\ spec' = [s \in Samples |-> 1 - spec[s]]
       \/ \E c, d \in Conditions, o, p \in Outputs :
            /\ count = 0 /\ o.out = comp.out /\ p.out = comp.out
            /\ comp' = InstantiateSwitch(<< <<c, comp>>, <<d, o>>, <<Always(1), p>> >>)
            /\ spec' = [s \in Samples |-> IF MeaningAt(c, s) # 0 THEN spec[s]
                                          ELSE IF MeaningAt(d, s) # 0 THEN MeaningAt(o, s) ELSE MeaningAt(p, s)]
    /\ count' = count + 1
    /\ UNCHANGED <<part, inputs, args, stack, terms, tree>>

----------------------------------------------------------------------------
(* Part "normalize": the passes of the normalizer over a tree.  The trees  *)
(* have the shapes that switches and templates produce.                    *)
Leaves     == {ArgNode(1, 4, 3), ArgNode(1, 4, 1), ArgNode(2, 2, 2)}
SomeConsts == {ConstNode(1), ConstNode(6)}
SomeAtoms  == {ArgNode(1, 4, 3), ConstNode(1)}
Atoms      == Leaves \cup SomeConsts
UnaryForms  == {<<"Not">>, <<"IsZero">>, <<"Crop", 1>>, <<"Select", 1, 1>>, <<"Parity">>}
BinaryForms == {<<"Add">>, <<"And">>, <<"Mul">>, <<"Div">>, <<"Shl">>, <<"Shr">>, <<"CmpLt">>, <<"ExtractBits">>}
OuterForms  == {<<"Add">>, <<"And">>, <<"Xor">>}
Differences == IF WithSub THEN {<<"Sub">>} ELSE {}

Small == {Node(u, <<x>>) : u \in UnaryForms, x \in Leaves} \cup
         {Node(b, <<x, y>>) : b \in BinaryForms \cup Differences, x \in Leaves, y \in Atoms} \cup
         {Node(b, <<x, y>>) : b \in BinaryForms \cup Differences, x \in SomeConsts, y \in Leaves}
\* conditions and results of choices
SomeBits    == {Op1("IsZero", ArgNode(1, 4, 1)), Crop1(ArgNode(1, 4, 3)), Op1("Parity", ArgNode(1, 4, 3)),
                Op2("CmpLt", ArgNode(1, 4, 1), ArgNode(2, 2, 2)), Crop1(Op1("Not", ArgNode(2, 2, 2)))}
SomeResults == {ConstNode(0), ConstNode(6), ArgNode(1, 4, 3)}
IfZeroNode(c, x, y) == Node(<<"IfZero">>, <<c, x, y>>)

IsTree(t) ==
    \/ \E u \in UnaryForms, x \in Small : t = Node(u, <<x>>)
    \/ \E b \in OuterForms \cup Differences, x \in Small, y \in SomeAtoms :
            t \in {Node(b, <<x, y>>), Node(b, <<y, x>>)}
    \/ \E c \in Small, x, y \in {ConstNode(0), ConstNode(1), ArgNode(1, 4, 3)} : t = IfZeroNode(c, x, y)
    \/ \E c, d \in SomeBits, x, y \in SomeResults :
            \E inner \in {IfZeroNode(d, x, y), IfZeroNode(d, y, x)} :
                t \in {IfZeroNode(c, inner, x), IfZeroNode(c, x, inner)}

Valuations == {<<Num(x), Num(y)>> : x \in {0, 1, 6, 8, 15}, y \in {0, 3}}
Values(c) == [s \in Valuations |-> Evaluate(c, s)]

InitNormalize ==
    /\ IsTree(tree)
    /\ \E n \in {1, 3} : comp = CreateComputation(tree, Computation(<<>>, <<>>, <<>>, "be", FALSE, n))
    /\ spec = Values(comp)
    /\ inputs = <<>> /\ args = <<>>

\* normalize: the constants, then the passes
Propagate ==
    /\ part = "normalize" /\ count = 0
    /\ tree' = PropagateConstants(TreeFrom(comp))
    /\ count' = 1
    /\ UNCHANGED <<part, inputs, args, stack, terms, comp, spec>>
Pass ==
    /\ part = "normalize" /\ count \in 1 .. MaxPasses
    /\ tree' = Reduce(tree, Bitmask(OutBits(comp.out))).node
    /\ count' = IF tree' = tree THEN MaxPasses + 1 ELSE count + 1  \* later passes do nothing
    /\ UNCHANGED <<part, inputs, args, stack, terms, comp, spec>>

----------------------------------------------------------------------------
Init ==
    /\ part \in Parts
    /\ stack = <<>> /\ terms = <<>> /\ count = 0
    /\ \/ part = "stack" /\ InitStack
       \/ part = "combine" /\ InitCombine
       \/ part = "normalize" /\ InitNormalize
Next == Emit \/ Combine \/ Propagate \/ Pass
Spec == Init /\ [][Next]_vars

(* The SMT expression generated for an expression denotes, for all inputs  *)
(* and after every operation, the values Expr::evaluate has on its stack.  *)
ExpressionsAgree ==
    part = "stack" => \A i \in DOMAIN stack : Unwrap(terms[i]) = stack[i]

(* A computation built by the combinators returns what the combination of  *)
(* its parts returns, whatever their encodings; its SMT expression denotes *)
(* that value; the comparisons agree with equality of the values; and      *)
(* used_input_indices and is_identity are right about it.                  *)
CombinatorsCompute ==
    part = "combine" =>
        \A s \in Samples : \E r \in {Result(comp, s)} :
            /\ \A t \in Samples : (\A i \in UsedInputs(comp) : s[i] = t[i]) => spec[s] = spec[t]
            /\ IsIdentity(comp) => ToOutput(comp, r) = s[1]
            /\ Canonical(ToOutput(comp, r)) = spec[s]
            /\ SmtComputation(comp, <<SmtInput(s[1]), SmtInput(s[2])>>) = spec[s]
            /\ \A w \in {r, r + 1, 0} : \E o \in {ToOutput(comp, Wrap(w))} :
                LET equal == o = ToOutput(comp, r)
                    dual  == CompareDual(comp, Prepare(o), r)
                IN  /\ CompareEq(comp, o, r) = equal
                    /\ PreparedCompare(comp, Prepare(o), r) = equal
                    /\ (IF comp.enc = "le" THEN dual.le ELSE dual.be) = equal

(* No pass of the normalizer changes what the computation returns, and     *)
(* none runs into an assertion: the check of into_computation holds.       *)
NormalizeKeeps ==
    part = "normalize" =>
        /\ ~Panics(tree)
        /\ Values(CreateComputation(tree, comp)) = spec
=============================================================================
