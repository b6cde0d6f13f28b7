-------------------------- MODULE FileBackedCache --------------------------
(***************************************************************************)
(* One cache file of the enumeration (threadpool/cache.rs): worker threads *)
(* look up an instruction in the index made when the file was opened, then *)
(* in an in-memory cache (liblisa-enc/src/cache.rs), compute what neither  *)
(* has, and append a record to the file through a BufWriter that is never  *)
(* flushed before it is dropped.  The process may be killed at any point;  *)
(* opening the file again indexes it and cuts off what follows the last    *)
(* good record.                                                            *)
(*                                                                         *)
(* The file is a sequence of cells.  A record is a header of Header cells  *)
(* (the length of the instruction, its bytes, the length of the data)      *)
(* followed by the data; build_index reads Window cells at the start of    *)
(* every record, whatever the record's length.                             *)
(***************************************************************************)
EXTENDS Naturals, Sequences, FiniteSets

CONSTANTS Threads, Instructions, Results,
          Size(_),              \* cells of a serialized result
          Header, Window,
          MaxRecords, MaxRuns   \* bounds

ASSUME CacheAssumption ==
    /\ Header \in Nat \ {0} /\ Window \in Nat \ {0}
    /\ \A v \in Results : Size(v) \in Nat
    /\ MaxRecords \in Nat /\ MaxRuns \in Nat

VARIABLES file,      \* cells on disk
          buffer,    \* cells in the BufWriter
          index,     \* instruction -> offset of its record, for the file as it was opened
          inMemory,  \* TRUE: a HashMapCache inside, FALSE: a NoCache
          inner,     \* instruction -> result: what the HashMapCache holds
          pc,        \* what each thread does
          running, runs,
          computed   \* ghost: the results ever computed, per instruction

vars == <<file, buffer, index, inMemory, inner, pc, running, runs, computed>>

Idle == [at |-> "idle"]
RecordLength(v) == Header + Size(v)
Record(i, v) == [n \in 1..RecordLength(v) |-> [instr |-> i, result |-> v, n |-> n]]
Cells == UNION {{Record(i, v)[n] : n \in 1..RecordLength(v)} : i \in Instructions, v \in Results}
Put(f, i, v) == [j \in DOMAIN f \union {i} |-> IF j = i THEN v ELSE f[j]]
Empty == [i \in {} |-> 0]

(* build_index: is there a good record at offset o of f, and where does the *)
(* next one start?  A record is good when Window cells can be read at its   *)
(* start and all of it is on file.                                          *)
Good(f, o) ==
    /\ o < Len(f) /\ o + Window <= Len(f)
    /\ f[o + 1].n = 1
    /\ o + RecordLength(f[o + 1].result) <= Len(f)
NextOffset(f, o) == IF Good(f, o) THEN o + RecordLength(f[o + 1].result) ELSE o

(* Where build_index looks for records.  A record has at least one cell. *)
Offsets(f) == LET offset[n \in 0..Len(f)] == IF n = 0 THEN 0 ELSE NextOffset(f, offset[n - 1])
              IN  {offset[n] : n \in 0..Len(f)}
LastGoodOffset(f) == CHOOSE o \in Offsets(f) : \A p \in Offsets(f) : p <= o

(* A later record of an instruction replaces an earlier one in the index. *)
FirstRecordWins(f) ==
    LET at(i) == {o \in Offsets(f) : Good(f, o) /\ f[o + 1].instr = i}
    IN  [i \in {j \in Instructions : at(j) # {}} |-> CHOOSE o \in at(i) : \A p \in at(i) : o <= p]
BuildIndex(f) ==
    LET at(i) == {o \in Offsets(f) : Good(f, o) /\ f[o + 1].instr = i}
    IN  [i \in {j \in Instructions : at(j) # {}} |-> CHOOSE o \in at(i) : \A p \in at(i) : p <= o]

Init == /\ file = << >> /\ buffer = << >> /\ index = Empty /\ inner = Empty
        /\ inMemory \in BOOLEAN
        /\ pc = [t \in Threads |-> Idle]
        /\ running = TRUE /\ runs = 1
        /\ computed = [i \in Instructions |-> {}]

(* get, for an indexed instruction: the header says how long the data is;  *)
(* the answer is what the data says.                                       *)
Stored(i) == file[index[i] + RecordLength(file[index[i] + 1].result)].result

(* get_or_insert_with up to the computation: the index, then the inner     *)
(* cache, which answers under its own lock or lets go of it.               *)
Lookup(t, i) ==
    /\ running /\ pc[t] = Idle
    /\ pc' = [pc EXCEPT ![t] = CASE i \in DOMAIN index -> [at |-> "done", instr |-> i, result |-> Stored(i)]
                                 [] i \notin DOMAIN index /\ i \in DOMAIN inner ->
                                       [at |-> "save", instr |-> i, result |-> inner[i]]
                                 [] OTHER -> [at |-> "compute", instr |-> i]]
    /\ UNCHANGED <<file, buffer, index, inMemory, inner, running, runs, computed>>

(* The analysis is randomized: it may find any of the results.  The inner  *)
(* cache takes it, even when another thread was faster.                    *)
Compute(t, v) ==
    /\ running /\ pc[t].at = "compute"
    /\ pc' = [pc EXCEPT ![t] = [at |-> "save", instr |-> pc[t].instr, result |-> v]]
    /\ inner' = IF inMemory THEN Put(inner, pc[t].instr, v) ELSE inner
    /\ computed' = [computed EXCEPT ![pc[t].instr] = @ \union {v}]
    /\ UNCHANGED <<file, buffer, index, inMemory, running, runs>>

Written == {n \in DOMAIN (file \o buffer) : (file \o buffer)[n].n = 1}

(* save, under the lock of the writer. *)
Save(t) ==
    /\ running /\ pc[t].at = "save" /\ Cardinality(Written) < MaxRecords
    /\ buffer' = buffer \o Record(pc[t].instr, pc[t].result)
    /\ pc' = [pc EXCEPT ![t].at = "done"]
    /\ UNCHANGED <<file, index, inMemory, inner, running, runs, computed>>

Return(t) ==
    /\ pc[t].at = "done"
    /\ pc' = [pc EXCEPT ![t] = Idle]
    /\ UNCHANGED <<file, buffer, index, inMemory, inner, running, runs, computed>>

(* BufWriter, external: when a write does not fit, what is buffered goes   *)
(* to the file, in as many system calls as the kernel likes.               *)
Spill == \E n \in 1..Len(buffer) :
            /\ running
            /\ file' = file \o SubSeq(buffer, 1, n) /\ buffer' = SubSeq(buffer, n + 1, Len(buffer))
            /\ UNCHANGED <<index, inMemory, inner, pc, running, runs, computed>>

Stopped == /\ running' = FALSE /\ pc' = [t \in Threads |-> Idle]
           /\ inner' = Empty /\ index' = Empty /\ buffer' = << >>
           /\ UNCHANGED <<inMemory, runs, computed>>
Kill == running /\ Stopped /\ UNCHANGED file
Exit == running /\ (\A t \in Threads : pc[t] = Idle) /\ Stopped /\ file' = file \o buffer

(* Fault: the file is not cut off; new records follow the torn one. *)
OpenUncut ==
    /\ ~running /\ runs < MaxRuns
    /\ index' = BuildIndex(file)
    /\ running' = TRUE /\ runs' = runs + 1
    /\ UNCHANGED <<file, buffer, inMemory, inner, pc, computed>>

(* FileBackedCacheImpl::new *)
Open ==
    /\ ~running /\ runs < MaxRuns
    /\ index' = BuildIndex(file)
    /\ file' = SubSeq(file, 1, LastGoodOffset(file))
    /\ running' = TRUE /\ runs' = runs + 1
    /\ UNCHANGED <<buffer, inMemory, inner, pc, computed>>

Next == \/ \E t \in Threads : \/ \E i \in Instructions : Lookup(t, i)
                              \/ \E v \in Results : Compute(t, v)
                              \/ Save(t)
                              \/ Return(t)
        \/ Spill \/ Kill \/ Exit \/ Open

Spec == Init /\ [][Next]_vars

(***************************************************************************)
(* Properties                                                              *)
(***************************************************************************)
StartsRecord(f, o) == f[o].n = 1
ContinuesRecord(f, o) == /\ f[o].n = f[o - 1].n + 1
                         /\ f[o].instr = f[o - 1].instr /\ f[o].result = f[o - 1].result
EndsRecord(f, o) == f[o].n = RecordLength(f[o].result)

(* A lookup answers with a result that was computed for that instruction,  *)
(* in this run or before a restart, never with another instruction's data, *)
(* a part of a record or the bytes of a torn one (get).                    *)
AnswersComputed ==
    \A t \in Threads : pc[t].at \in {"save", "done"} => pc[t].result \in computed[pc[t].instr]

(* Opening the file loses no whole record but, when it is shorter than     *)
(* what build_index reads at the start of a record, the last one: the      *)
(* answers for all other instructions survive the restart, and the latest  *)
(* one is given.                                                           *)
WholeAt(f, o) == f[o].n = 1 /\ o + RecordLength(f[o].result) - 1 <= Len(f)
Latest(f, i, o) == f[o].instr = i /\ WholeAt(f, o) /\ \A p \in (o + 1)..Len(f) : f[p].instr = i => ~WholeAt(f, p)
OpenKeeps ==
    [][~running /\ running' =>
         \A i \in Instructions, o \in DOMAIN file :
            Latest(file, i, o) /\ o + Window - 1 <= Len(file) => i \in DOMAIN index' /\ index'[i] = o - 1]_vars
=============================================================================
