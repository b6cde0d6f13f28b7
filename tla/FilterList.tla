----------------------------- MODULE FilterList -----------------------------
(***************************************************************************)
(* FilterList (liblisa/src/instr/set.rs): the filters of the encodings an  *)
(* enumeration has found, merged as they are added.                        *)
(***************************************************************************)
EXTENDS InstructionFilter, SequencesExt

Redundant(list, filter) == \E n \in DOMAIN list : Covers(list[n], filter)

(* One step of either loop: f becomes what try_merge makes of it and other.*)
MergedWith(f, other) ==
    LET merged == {m \in TryMerge(f, other) : Covers(m, f)}
    IN  IF merged = {} THEN f ELSE CHOOSE m \in merged : TRUE

(* Fault: the filters the new one overlaps are dropped. *)
AddOverOverlapping(list, filter) ==
    IF Redundant(list, filter) THEN list
    ELSE LET grown == [n \in DOMAIN list |-> MergedWith(list[n], filter)]
             new == FoldLeft(LAMBDA acc, f : MergedWith(acc, f), filter, grown)
         IN  SelectSeq(grown, LAMBDA f : ~Overlaps(new, f)) \o <<new>>

Add(list, filter) ==
    IF Redundant(list, filter) THEN list
    ELSE LET grown == [n \in DOMAIN list |-> MergedWith(list[n], filter)]
             new == FoldLeft(LAMBDA acc, f : MergedWith(acc, f), filter, grown)
         IN  SelectSeq(grown, LAMBDA f : ~Covers(new, f)) \o <<new>>

AddNoMerge(list, filter) == IF Redundant(list, filter) THEN list ELSE Append(list, filter)

ShouldExtend(list, instr) ==
    \E n \in DOMAIN list : Len(instr) < Len(list[n]) /\ MatchesSmallerPartially(list[n], instr)

(* Fault: only the filters as long as the instruction are looked at. *)
MatchingFilterSameLength(list, instr) ==
    LET at == {n \in DOMAIN list : Len(list[n]) = Len(instr) /\ Matches(list[n], instr)}
    IN  {list[n] : n \in {m \in at : \A o \in at : o <= m}}

(* The last filter that matches; bytes beyond the instruction are wild. *)
MatchingFilter(list, instr) ==
    LET at == {n \in DOMAIN list : Matches(list[n], instr)}
    IN  {list[n] : n \in {m \in at : \A o \in at : o <= m}}
=============================================================================
