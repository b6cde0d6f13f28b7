--------------------------- MODULE UncoveredInstr ---------------------------
(***************************************************************************)
(* InstructionFilter::find_uncovered_instr (liblisa/src/instr/filter.rs):  *)
(* an instruction that a filter matches and none of a list of others. It   *)
(* narrows the filter (ExtendedFilter::new_ex, instr/extended.rs) and asks *)
(* the solver of utils/minisat.rs. All filters are equally long.           *)
(***************************************************************************)
EXTENDS InstructionFilter, FiniteSetsExt, SequencesExt

-----------------------------------------------------------------------------
(***************************************************************************)
(* SatSolver. Terms and assignments: what a bit is, and Wildcard for       *)
(* Option::None. A disjunction is a list of [bit, is] terms.               *)
(***************************************************************************)
Negated(terms) == [k \in DOMAIN terms |-> [terms[k] EXCEPT !.is = 1 - @]]
Satisfied(d, assigned) == \E k \in DOMAIN d : assigned[d[k].bit] = d[k].is

(* The search of check_disjunctions: it makes a term of the disjunction at *)
(* depth true, goes on with the next one that is not satisfied yet, and    *)
(* takes back the term when that fails.                                    *)
RECURSIVE CheckDisjunctions(_, _, _)
CheckDisjunctions(ds, depth, assigned) ==
    LET next(now) ==
            LET later == {e \in (depth + 1)..Len(ds) : ~Satisfied(ds[e], now)}
            IN  IF later = {} THEN {now} ELSE CheckDisjunctions(ds, Min(later), now)
        d == ds[depth]
        tried[k \in 0..Len(d)] ==
            IF k = 0 THEN {}
            ELSE LET before == tried[k - 1]
                 IN  IF before # {} \/ assigned[d[k].bit] # Wildcard THEN before
                     ELSE next([assigned EXCEPT ![d[k].bit] = d[k].is])
    IN  tried[Len(d)]

(* solve: terms that the conjunction already makes false go, the shortest  *)
(* disjunctions come first, and what is not assigned in the end is 0.      *)
Solve(terms, disjunctions) ==
    LET possible == [n \in DOMAIN disjunctions |->
                        SelectSeq(disjunctions[n], LAMBDA t : terms[t.bit] \in {Wildcard, t.is})]
        sorted == SortSeq(possible, LAMBDA d, e : Len(d) < Len(e))
        found == IF sorted = <<>> THEN {terms} ELSE CheckDisjunctions(sorted, 1, terms)
    IN  {[n \in DOMAIN terms |-> IF assigned[n] = Wildcard THEN 0 ELSE assigned[n]] : assigned \in found}

-----------------------------------------------------------------------------
(***************************************************************************)
(* ExtendedFilter                                                          *)
(***************************************************************************)
AsTerms(f) ==
    LET fixed == SelectSeq([n \in 1..BitLen(f) |-> n], LAMBDA n : BitAt(f, n) # Wildcard)
    IN  [k \in DOMAIN fixed |-> [bit |-> fixed[k], is |-> BitAt(f, fixed[k])]]

(* merge_filters: from the last to the first, a filter swallows those      *)
(* behind it that it merges with.                                          *)
RECURSIVE MergeFrom(_, _)
MergeFrom(list, index) ==
    LET into == {j \in (index + 1)..Len(list) : TryMerge(list[index], list[j]) # {}}
    IN  IF index = 0 THEN list
        ELSE IF into = {} THEN MergeFrom(list, index - 1)
        ELSE LET merged == CHOOSE m \in TryMerge(list[index], list[Min(into)]) : TRUE
             IN  MergeFrom(RemoveAt([list EXCEPT ![index] = merged], Min(into)), index)
MergeFilters(list) == MergeFrom(list, Len(list))

Excluding(f, other) == LET e == TryExclude(f, other) IN IF e = {} THEN f ELSE CHOOSE g \in e : TRUE

(* Fault: filters that do not overlap stay. *)
RECURSIVE NarrowedByAll(_, _, _)
NarrowedByAll(matching, nonmatching, merge) ==
    LET merged == IF merge THEN MergeFilters(nonmatching) ELSE nonmatching
        smaller == FoldLeft(Excluding, matching, merged)
    IN  IF \E n \in DOMAIN nonmatching : Covers(nonmatching[n], matching) THEN {}
        ELSE IF Len(merged) = Len(nonmatching) /\ smaller = matching
        THEN {[matching |-> matching, nonmatching |-> merged]}
        ELSE NarrowedByAll(smaller, merged, merge)

(* The loop of new_ex. *)
RECURSIVE Narrowed(_, _, _)
Narrowed(matching, nonmatching, merge) ==
    LET kept == SelectSeq(nonmatching, LAMBDA f : Overlaps(f, matching))
        merged == IF merge THEN MergeFilters(kept) ELSE kept
        smaller == FoldLeft(Excluding, matching, merged)
    IN  IF \E n \in DOMAIN nonmatching : Covers(nonmatching[n], matching) THEN {}
        ELSE IF Len(merged) = Len(nonmatching) /\ smaller = matching
        THEN {[matching |-> matching, nonmatching |-> merged]}
        ELSE Narrowed(smaller, merged, merge)

(* new_ex: the narrowed filter with an instruction in it, or none. *)
ExtendedFilter(matching, nonmatching, merge) ==
    UNION {LET conf == Solve([n \in 1..BitLen(ef.matching) |-> BitAt(ef.matching, n)],
                             [n \in DOMAIN ef.nonmatching |-> Negated(AsTerms(ef.nonmatching[n]))])
           IN  {[matching |-> ef.matching, nonmatching |-> ef.nonmatching,
                 instr |-> FromBits(Len(matching), bits)] : bits \in conf}
           : ef \in Narrowed(matching, nonmatching, merge)}

FindUncoveredInstr(filter, covering) == {ef.instr : ef \in ExtendedFilter(filter, covering, FALSE)}
=============================================================================
