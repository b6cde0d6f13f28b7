------------------------- MODULE InstructionCounter -------------------------
(***************************************************************************)
(* InstructionCounter (liblisa/src/instr/counter.rs): the position of an   *)
(* enumeration in the space of instructions.  It steps to the next         *)
(* instruction at the tunnel position, which moves to the left when a byte *)
(* overflows, grows and shrinks, and moves on over what filters match.     *)
(*                                                                         *)
(* The operations take a counter and return the changed one and whether    *)
(* there is an instruction left.  The array is longer than any instruction *)
(* and keeps what was written beyond the current length.                   *)
(***************************************************************************)
EXTENDS FilterList, FilterTree

CONSTANTS DataLen,     \* bytes of the array, 32 in the code
          TreeLimit    \* nodes at which a filter tree is pruned, 2^24 in the code

ASSUME CounterAssumption == DataLen \in Nat \ {0} /\ TreeLimit \in Nat

NoEnd == << >>
Zero == [i \in Bits |-> 0]
Ones == [i \in Bits |-> 1]

CounterRange(start, end) ==
    [data |-> [k \in 1..DataLen |-> IF k \in DOMAIN start THEN start[k] ELSE Zero],
     len |-> Len(start), end |-> end, tunnelPos |-> Len(start), numTunneled |-> 0]

Current(c) == SubSeq(c.data, 1, c.len)
InRange(c) == c.end = NoEnd \/ AtMost(Current(c), c.end)

SetCurrent(c, instr) ==
    [c EXCEPT !.data = [k \in 1..DataLen |-> IF k \in DOMAIN instr THEN instr[k] ELSE @[k]],
              !.len = Len(instr), !.tunnelPos = Len(instr)]

ExtendInternal(c, fast) ==
    [c EXCEPT !.data[c.len + 1] = Zero, !.len = @ + 1,
              !.tunnelPos = IF fast THEN @ ELSE c.len + 1, !.numTunneled = IF fast THEN @ ELSE 0]

(* The byte after b, which is not all ones. *)
Successor(b) == LET last == CHOOSE i \in Bits : b[i] = 0 /\ \A j \in Bits : j > i => b[j] = 1
                IN  [i \in Bits |-> IF i < last THEN b[i] ELSE IF i = last THEN 1 ELSE 0]

NextSingle(c) ==
    LET room == {k \in 1..c.tunnelPos : c.data[k] # Ones}
        at == CHOOSE k \in room : \A j \in room : j <= k
        next == [c EXCEPT !.data = [k \in 1..DataLen |-> CASE k = at -> Successor(@[k])
                                                           [] k > at /\ k <= c.tunnelPos -> Zero
                                                           [] OTHER -> @[k]],
                          !.tunnelPos = at]
    IN  IF room = {} THEN [ok |-> FALSE, c |-> [c EXCEPT !.data = [k \in 1..DataLen |-> Ones], !.tunnelPos = 1]]
        ELSE [ok |-> InRange(next), c |-> next]

(***************************************************************************)
(* apply_filters_to_current.  The tree is made at the first filter that    *)
(* matches.                                                                *)
(***************************************************************************)
NoTree == [entries |-> << >>, empty |-> << >>]

RECURSIVE Extended(_, _)
Extended(c, filters) == IF ShouldExtend(filters, Current(c)) THEN Extended(ExtendInternal(c, FALSE), filters) ELSE c

BelowEnd(tree, end) == IF end = NoEnd THEN tree ELSE FilteredAbove(tree, end)

TreeLen(tree) == Len(tree.entries) - Len(tree.empty)
RECURSIVE PrunedToSize(_, _)
PrunedToSize(tree, instr) == IF TreeLen(tree) >= TreeLimit THEN PrunedToSize(Pruned(tree, instr), instr) ELSE tree

TreeFor(tree, c) == IF tree # NoTree /\ TreeLen(tree) < TreeLimit THEN tree
                    ELSE BelowEnd(IF tree = NoTree THEN NewTree ELSE PrunedToSize(tree, Current(c)), c.end)

(* One round of the loop, for the extended counter; then the jump to the   *)
(* next instruction the tree, grown by the matching filter, leaves.        *)
RECURSIVE Advanced(_, _, _)
Jumped(c, filters, grown) ==
    LET next == FindNext(grown, Current(c))
    IN  IF next = {} THEN [ok |-> FALSE, c |-> c]
        ELSE Advanced(Extended(SetCurrent(c, CHOOSE i \in next : TRUE), filters), filters,
                      FilteredBelow(grown, Current(c)))
Advanced(c, filters, tree) ==
    LET matching == MatchingFilter(filters, Current(c))
    IN  IF matching = {} THEN [ok |-> InRange(c), c |-> c]
        ELSE Jumped(c, filters, Filtered(TreeFor(tree, c), CHOOSE f \in matching : TRUE))

ApplyFilters(c, filters, wasReduced) ==
    IF \A k \in 1..DataLen : c.data[k] = Ones THEN [ok |-> FALSE, c |-> c]
    ELSE Advanced(IF wasReduced THEN c ELSE Extended(c, filters), filters, NoTree)

(***************************************************************************)
(* The operations, each up to the filters it applies to its result: the    *)
(* counter they are applied to, unless the operation has failed before.    *)
(***************************************************************************)
ToFilter(c) == [ok |-> TRUE, c |-> c, wasReduced |-> FALSE]

ExtendBy(c, fast) == ToFilter(ExtendInternal(c, fast))

Reduce(c, fast) ==
    LET reset == ~fast \/ c.tunnelPos >= c.len
    IN  [ok |-> TRUE, wasReduced |-> TRUE,
         c |-> [c EXCEPT !.data[c.len] = Zero, !.len = @ - 1,
                         !.tunnelPos = IF reset THEN c.len - 1 ELSE @, !.numTunneled = IF reset THEN 0 ELSE @]]

(* Until it has tunnelled tunnel_delay times, tunnel_next steps at the     *)
(* last byte and takes off the bytes that overflow.                        *)
TunnelNext(c, delay) ==
    LET slow == c.numTunneled + 1 < delay
        next == NextSingle([c EXCEPT !.numTunneled = @ + 1,
                                     !.tunnelPos = IF slow \/ @ > c.len THEN c.len ELSE @])
    IN  IF ~next.ok THEN next
        ELSE ToFilter(IF slow THEN [next.c EXCEPT !.len = next.c.tunnelPos] ELSE next.c)

TunnelNextIgnoreFilters(c) == NextSingle(c)
=============================================================================
