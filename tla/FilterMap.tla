----------------------------- MODULE FilterMap -----------------------------
(***************************************************************************)
(* FilterMap (liblisa/src/instr/map.rs): filters with data, in buckets by  *)
(* the filter's length and the values its first byte matches.  Adding a    *)
(* filter does not overwrite the data of the filters that are there.       *)
(***************************************************************************)
EXTENDS InstructionFilter

EmptyMap(maxBytes) == [len \in 1..maxBytes |-> [b \in Bytes |-> << >>]]

MapAdd(map, f, d) ==
    [map EXCEPT ![Len(f)] = [b \in Bytes |-> IF ByteMatches(f[1], b) THEN Append(@[b], <<f, d>>) ELSE @[b]]]

(* The data of the first filter of the bucket that matches. *)
Lookup(map, instr) ==
    LET bucket == map[Len(instr)][instr[1]]
        found == {n \in DOMAIN bucket : Matches(bucket[n][1], instr)}
    IN  {bucket[n][2] : n \in {m \in found : \A o \in found : m <= o}}
=============================================================================
