-------------------------- MODULE MCEnumerationRun --------------------------
(***************************************************************************)
(* EnumerationRun over four instruction spaces: three work items that      *)
(* compete for the same one-byte encodings; one or two items over one- and *)
(* two-byte instructions of every kind; two items in a process that is     *)
(* killed and started again.                                               *)
(***************************************************************************)
EXTENDS EnumerationRun

All == 0 .. 5
Competing == [bytes |-> 6, base |-> 0, kinds |-> {"ok"}, bests |-> {}, items |-> 3, threads |-> 2, covers |-> 5,
              starts |-> {<<0, 2, 4>>}, restarts |-> 0]
Mixed     == [bytes |-> 2, base |-> 2, kinds |-> {"ok", "error", "memory"}, bests |-> All, items |-> 2, threads |-> 1, covers |-> 6,
              starts |-> {<<0>>, <<0, 3>>}, restarts |-> 0]
Invalid   == [bytes |-> 2, base |-> 2, kinds |-> {"ok", "invalid"}, bests |-> All, items |-> 2, threads |-> 1, covers |-> 6,
              starts |-> {<<0>>, <<0, 3>>}, restarts |-> 0]
Killed    == [bytes |-> 2, base |-> 2, kinds |-> {"ok", "error"}, bests |-> {1, 3}, items |-> 2, threads |-> 2, covers |-> 6,
              starts |-> {<<0, 3>>}, restarts |-> 1]
Guessing  == [bytes |-> 2, base |-> 2, kinds |-> {"ok", "error"}, bests |-> All, items |-> 2, threads |-> 1, covers |-> 6,
              starts |-> {<<0>>}, restarts |-> 0]

MCSpaces   == {Competing, Mixed, Invalid, Killed}
OneItem    == {[Invalid EXCEPT !.starts = {<<0>>}]}
GuessSpace == {Guessing}
=============================================================================
