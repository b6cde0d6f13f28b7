------------------------- MODULE MCFileBackedCache -------------------------
(***************************************************************************)
(* FileBackedCache with two threads, two instructions and two results, one *)
(* so short that its record is shorter than what build_index reads.        *)
(***************************************************************************)
EXTENDS FileBackedCache

ShortOrLong(v) == IF v = "short" THEN 1 ELSE 3
=============================================================================
