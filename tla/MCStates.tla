------------------------------ MODULE MCStates ------------------------------
(***************************************************************************)
(* States, addresses and areas with words of 5 bits and pages of 4 bytes.  *)
(* Part "states" generates, changes and shares states for a few sets of    *)
(* accesses; the other parts check the computations on every input they    *)
(* list.                                                                   *)
(***************************************************************************)
EXTENDS JitStates

CONSTANTS Parts

VARIABLES part, input

vars == <<genVars, jitVars, part, input>>

MCMappable == Words \ ((0 .. 3) \union (20 .. 23))
MCChoice == [r \in Regs |-> CASE r = "pc" -> {4, 9} [] r = "r" -> {4, 7, 10, 28} [] OTHER -> {0, 7}]
MCFillWidths == <<2, WordBits>>

(***************************************************************************)
(* Memory accesses.                                                        *)
(***************************************************************************)
Access(k, inputs, terms, offset, size, align) ==
    [kind |-> k, inputs |-> inputs, terms |-> terms, offset |-> offset, size |-> size, align |-> align]
Instr(size) == Access("exec", <<Register("pc")>>, <<Identity>>, 0, size, 1)
Data(regs, offset, size, align) ==
    Access("inout", [i \in DOMAIN regs |-> Register(regs[i])], [i \in DOMAIN regs |-> Identity], offset, size, align)

Twice == Access("in", <<Register("r")>>, <<<<Calc(WordBits, FALSE, 0, 2)>>>>, 1, 1, 1)
Const(inputs, offset) == Access("in", inputs, [i \in DOMAIN inputs |-> Identity], offset, 1, 1)

DataAccesses ==
    {Data(<<"r">>, 0, 2, 1), Data(<<"r">>, 3, 1, 1), Data(<<"r">>, 28, 2, 2), Data(<<"pc">>, 3, 1, 1),
     Data(<<"pc">>, 30, 1, 1), Data(<<"pc">>, 4, 2, 1), Data(<<"pc", "r">>, 0, 1, 1), Data(<<>>, 9, 1, 1),
     Data(<<>>, 11, 2, 1), Data(<<>>, 21, 1, 1), Const(<<Constant(10)>>, 3),
     Const(<<Register("pc"), Constant(2)>>, 2), Twice}

StateSets == {<<Instr(2), d, Data(<<"pc", "r">>, 0, 1, 1)>> : d \in {Data(<<"r">>, 0, 2, 1), Data(<<"r">>, 28, 2, 2)}}
             \union {<<Instr(2), Data(<<>>, 9, 1, 1), Twice>>, <<Instr(2), Const(<<Constant(10)>>, 11)>>}

ConstraintSets == {<<Instr(2), d>> : d \in DataAccesses} \union {<<Instr(n), d, e>> : n \in {1, 2}, d, e \in DataAccesses}

(***************************************************************************)
(* Areas and terms.                                                        *)
(***************************************************************************)
SmallAreas == {Area(a, n) : a \in Words, n \in {1, 2, 5}}
AreaPairs == {[a |-> a, b |-> b] : a, b \in SmallAreas}

Terms == AllTerms({[bits |-> 3, signed |-> FALSE], [bits |-> 3, signed |-> TRUE], [bits |-> WordBits, signed |-> FALSE]},
                  {[right |-> 0, mult |-> 1], [right |-> 0, mult |-> 2], [right |-> 1, mult |-> 1],
                   [right |-> 1, mult |-> 4], [right |-> 2, mult |-> 1]})
Moves == {[term |-> t, value |-> v, goal |-> g] : t \in Terms, v \in {0, 5, 13}, g \in Words}

(***************************************************************************)
(* The specification.                                                      *)
(***************************************************************************)
Idle == pc = "idle" /\ s = 0 /\ job = NoJob

Init ==
    /\ part \in Parts
    /\ JitInit
    /\ CASE part = "states" -> GenInit(StateSets) /\ input = 0
         [] part = "constraints" -> accesses \in ConstraintSets /\ Idle /\ input = 0
         [] part = "areas" -> input \in AreaPairs /\ Idle /\ accesses = << >>
         [] part = "terms" -> input \in Moves /\ Idle /\ accesses = << >>

Next == /\ part = "states"
        /\ (GenNext /\ UNCHANGED jitVars) \/ JitNext
        /\ UNCHANGED <<part, input>>

Spec == Init /\ [][Next]_vars

(* A state that is handed out has its mappings where its accesses go,      *)
(* whatever failed or was undone before: adapt accepts exactly what fits,  *)
(* and a just-in-time state shows the base state with its own changes.     *)
StatesFit == part = "states" => AdaptIsExact /\ ViewsAreTheirStates

RegionsNecessary == part = "constraints" => ConstraintsNecessary

(* Areas overlap when they have an address in common, and share a page     *)
(* when they have addresses on one page, also around the end of memory.    *)
Covered(a) == {(a.addr + k) % Word : k \in 0 .. a.size - 1}
AreasAreSets ==
    part = "areas" =>
        LET a == input.a
            b == input.b
            Pages(x) == {PageOf(addr) : addr \in Covered(x)}
        IN  /\ OverlapsWith(a, b) <=> Covered(a) \cap Covered(b) # {}
            /\ SharesPageWith(a, b) <=> Pages(a) \cap Pages(b) # {}
            /\ CrossesPageBounds(a) <=> Cardinality(Pages(a)) > 1
            /\ \A addr \in Words : AreaContains(a, addr) <=> addr \in Covered(a)

(* is_possible_with_delta "determines whether this term could be part of   *)
(* an address calculation, if modifying only this term changes the address *)
(* of a memory access from original_address to new_address": it accepts    *)
(* every change of the address that the term can cause.                    *)
DeltaAccepted ==
    part = "terms" => \A v \in Words : IsPossibleWithDelta(input.term, TermApply(input.term, input.value),
                                                                        TermApply(input.term, v))

(* A relocation moves the address where it was asked to, as long as the    *)
(* shift back stays in the positive words, and the delta of a change of a  *)
(* term that uses its value once is accepted as possible.                  *)
TermsMove ==
    part = "terms" =>
        LET term == input.term
            current == 11
            old == TermApply(term, input.value)
            target == (input.goal - current + old) % Word
        IN  /\ term[1].right = 0 \/ target * 2 ^ term[1].right < Word \div 2 =>
                 \A v \in ComputeRelocation(term, input.value, current, input.goal) :
                    IsValidDelta(term, input.value, v, current, input.goal)
            /\ Len(term) = 1 => DeltaAccepted
            /\ Len(term) = 1 => \A v \in Words : (TermApply(term, v) - old) % MinimumStepSize(term) = 0
=============================================================================
