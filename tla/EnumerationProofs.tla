------------------------- MODULE EnumerationProofs --------------------------
(***************************************************************************)
(* No instruction is lost by the work queue of Enumeration and the runs of *)
(* EnumerationRun, on the invariant of EnumerationStalls.                  *)
(***************************************************************************)
EXTENDS EnumerationStalls

(* The first instruction that an item with counter c still has. *)
At(c) == IF c \in Instr /\ truth[c] = "long" THEN Prefix(c) ELSE c
Has(w, x) == ~w.done /\ At(w.counter) <= x /\ x < w.to

Kept(ws) == \A x \in Valid : x \in artifacts \/ \E i \in DOMAIN ws : Has(ws[i], x)

(* Filters cover what an encoding covers, whole. *)
Closed(F) == \A f \in F : \E y \in Ok : f \in Covered(y) /\ Covered(y) \subseteq F

(* No filter ever covers x. *)
Pinned(x) == truth[x] \in {"error", "invalid", "memory"} \/ (truth[x] = "short" /\ Base = 0)
PinnedInv == \A i \in DOMAIN work : request[i] # NoRequest /\ Pinned(request[i].instr) =>
                work[i].counter = request[i].instr /\ ~work[i].done

KeptInv == /\ Kept(work) /\ filters \subseteq artifacts /\ Closed(filters)
           /\ Kept(saved.work) /\ saved.filters \subseteq artifacts /\ Closed(saved.filters)

-----------------------------------------------------------------------------
(* A first byte is an instruction, and everything behind it is too long,   *)
(* or it is too short, and everything behind it is an instruction.         *)
LEMMA ByteFacts ==
    ASSUME space \in Spaces, truth \in Truths, NEW x \in Instr, ~Long(x)
    PROVE  /\ truth[x] \in Kinds \/ truth[x] = "short"
           /\ truth[x] # "short" => \A y \in Group(x) \ {x} : truth[y] = "long"
           /\ truth[x] = "short" => \A y \in Group(x) \ {x} : truth[y] \in Kinds
<1>1. \/ truth[x] \in Kinds /\ \A y \in Group(x) \ {x} : truth[y] = "long"
      \/ truth[x] = "short" /\ \A y \in Group(x) \ {x} : truth[y] \in Kinds
  BY DEF Truths
<1>2. Kinds \subseteq {"ok", "invalid", "error", "memory"}
  BY EnumAssumption DEF Kinds
<1> QED BY <1>1, <1>2

(* An instruction and its prefix are in the group of the prefix. *)
LEMMA InGroup ==
    ASSUME space \in Spaces, NEW x \in Instr
    PROVE  x \in Group(Prefix(x)) /\ Prefix(x) \in Group(Prefix(x))
<1>1. PICK p \in Instr : p = Prefix(x)
  BY PrefixFacts
<1>2. Prefix(p) = p /\ p \in Nat /\ x \in Nat /\ Base \in Nat /\ p <= x /\ x <= p + Base
  BY <1>1, PrefixFacts, InstrFacts
<1>3. x \in Group(p) /\ p \in Group(p)
  BY <1>2 DEF Group
<1> QED BY <1>1, <1>3

(* An instruction that is too long has a prefix that is an instruction. *)
LEMMA LongFacts ==
    ASSUME space \in Spaces, truth \in Truths, NEW c \in Instr, truth[c] = "long"
    PROVE  Long(c) /\ \A y \in Group(Prefix(c)) \ {Prefix(c)} : truth[y] = "long"
<1>1. Kinds \subseteq {"ok", "invalid", "error", "memory"}
  BY EnumAssumption DEF Kinds
<1>2. Long(c)
  BY <1>1, ByteFacts
<1>3. PICK p \in Instr : p = Prefix(c) /\ ~Long(p) /\ c \in Group(p)
  BY PrefixFacts, InGroup
<1>4. truth[p] # "short"
  BY <1>1, <1>2, <1>3, ByteFacts
<1> QED BY <1>2, <1>3, <1>4, ByteFacts

(* No filter covers an instruction that is covered by no encoding. *)
LEMMA CoveredIs ==
    ASSUME space \in Spaces, truth \in Truths, NEW y \in Ok, NEW f \in Covered(y)
    PROVE  f \in Instr /\ (f = y \/ (truth[f] = "long" /\ Prefix(f) = y)) /\ y \in Covered(y)
<1>1. y \in Instr /\ truth[y] = "ok"
  BY DEF Ok, Exact
<1>2. CASE Long(y)
  BY <1>1, <1>2 DEF Covered
<1>3. CASE ~Long(y)
  <2>1. Covered(y) = Group(y)
    BY <1>3 DEF Covered
  <2>2. f \in Instr /\ Prefix(f) = y
    BY <1>1, <1>3, <2>1, GroupFacts
  <2>3. f # y => truth[f] = "long"
    BY <1>1, <1>3, <2>1, ByteFacts
  <2>4. y \in Group(y)
    BY <2>2, InGroup
  <2> QED BY <2>1, <2>2, <2>3, <2>4
<1> QED BY <1>2, <1>3

(* What no encoding covers stays free. *)
LEMMA PinnedIsFree ==
    ASSUME space \in Spaces, truth \in Truths, NEW x \in Instr, Pinned(x), NEW F, Closed(F)
    PROVE  x \in Free(F)
<1>1. x \notin F
  <2> SUFFICES ASSUME x \in F PROVE FALSE
    OBVIOUS
  <2>1. PICK y \in Ok : x \in Covered(y)
    BY DEF Closed
  <2>2. x = y \/ truth[x] = "long"
    BY <2>1, CoveredIs
  <2>3. truth[y] = "ok"
    BY DEF Ok
  <2> QED BY <2>2, <2>3 DEF Pinned
<1>2. ASSUME ~Long(x), NEW f \in Group(x), f \in F
      PROVE  FALSE
  <2>1. PICK y \in Ok : f \in Covered(y)
    BY <1>2 DEF Closed
  <2>2. f \in Instr /\ Prefix(f) = x /\ (f # x => Long(f)) /\ x <= f /\ f <= x + Base
    BY <1>2, GroupFacts
  <2>3. f # x
    BY <1>1, <1>2
  <2>4. truth[f] = "ok" \/ (truth[f] = "long" /\ Prefix(f) = y /\ truth[y] = "ok")
    <3>1. f = y \/ (truth[f] = "long" /\ Prefix(f) = y)
      BY <2>1, CoveredIs
    <3>2. truth[y] = "ok"
      BY DEF Ok
    <3> QED BY <3>1, <3>2
  <2>5. truth[x] # "ok"
    BY DEF Pinned
  <2>6. truth[f] = "ok"
    BY <2>2, <2>4, <2>5
  <2>7. truth[x] = "short"
    BY <1>2, <2>3, <2>6, ByteFacts
  <2>8. Base = 0 /\ x \in Int /\ f \in Int
    BY <2>2, <2>7, InstrFacts DEF Pinned
  <2> QED BY <2>2, <2>3, <2>8
<1> QED BY <1>1, <1>2 DEF Free

(* An instruction that no filter covers is not skipped. *)
LEMMA ValidIsFree ==
    ASSUME space \in Spaces, truth \in Truths, NEW x \in Valid, NEW F, Closed(F), x \notin F
    PROVE  x \in Free(F)
<1>1. x \in Instr /\ truth[x] # "short" /\ truth[x] # "long"
  BY DEF Valid, Exact
<1>2. ASSUME ~Long(x), NEW f \in Group(x), f \in F
      PROVE  FALSE
  <2>1. PICK y \in Ok : f \in Covered(y) /\ Covered(y) \subseteq F
    BY <1>2 DEF Closed
  <2>2. f = y \/ Prefix(f) = y
    BY <2>1, CoveredIs
  <2>3. Prefix(f) = x /\ f # x
    BY <1>1, <1>2, GroupFacts
  <2>4. truth[f] = "long"
    BY <1>1, <1>2, <2>3, ByteFacts
  <2>5. f # y
    BY <2>4 DEF Ok
  <2>6. x = y /\ y \in Covered(y)
    BY <2>1, <2>2, <2>3, <2>5, CoveredIs
  <2> QED BY <2>1, <2>6
<1> QED BY <1>1, <1>2 DEF Free

(* Filters that cover an instruction that is too long cover its prefix. *)
LEMMA LongCovered ==
    ASSUME space \in Spaces, truth \in Truths, NEW c \in Instr, truth[c] = "long", NEW F, Closed(F), Prefix(c) \notin F
    PROVE  c \in Free(F)
<1>1. Long(c)
  BY LongFacts
<1>2. ASSUME c \in F PROVE FALSE
  <2>1. PICK y \in Ok : c \in Covered(y) /\ Covered(y) \subseteq F
    BY <1>2 DEF Closed
  <2>2. (c = y \/ Prefix(c) = y) /\ y \in Covered(y)
    BY <2>1, CoveredIs
  <2>3. c # y
    BY DEF Ok
  <2> QED BY <2>1, <2>2, <2>3
<1> QED BY <1>1, <1>2 DEF Free

(* The first instruction an item still has is its counter or the prefix of it. *)
LEMMA AtFacts ==
    ASSUME space \in Spaces, NEW c \in Instr
    PROVE  At(c) \in Nat /\ At(c) <= c /\ Prefix(c) \in Nat /\ Prefix(c) <= At(c) /\ c \in Nat
<1>1. Prefix(c) \in Instr /\ Prefix(c) <= c
  BY PrefixFacts
<1>2. Prefix(c) \in Nat /\ c \in Nat
  BY <1>1, InstrFacts
<1> QED BY <1>1, <1>2 DEF At

(* The only instruction between At(c) and c is the first one. *)
LEMMA BeforeCounter ==
    ASSUME space \in Spaces, truth \in Truths, NEW c \in Instr, NEW x \in Valid, At(c) <= x, x < c
    PROVE  truth[c] = "long" /\ x = Prefix(c)
<1>1. x \in Instr /\ x \in Nat /\ c \in Nat /\ truth[x] # "long" /\ Base \in Nat
  BY InstrFacts DEF Valid, Exact
<1>2. truth[c] = "long" /\ At(c) = Prefix(c)
  BY <1>1 DEF At
<1>3. Prefix(c) \in Nat /\ c <= Prefix(c) + Base /\ Prefix(Prefix(c)) = Prefix(c)
  BY PrefixFacts, InstrFacts
<1>4. x \in Group(Prefix(c))
  <2>1. x \in Prefix(c) .. Prefix(c) + Base
    BY <1>1, <1>2, <1>3
  <2> QED BY <1>3, <2>1 DEF Group
<1> QED BY <1>1, <1>2, <1>4, LongFacts

-----------------------------------------------------------------------------
(* A counter that moves to the first free instruction skips none that is free. *)
LEMMA MoveKeeps ==
    ASSUME space \in Spaces, NEW w \in Item, NEW free \in SUBSET Instr, NEW x \in free, NEW start \in Int,
           start <= x, x < w.to, NEW m, m = Moved(w, FirstFree(free, start, w.to))
    PROVE  Has(m, x) /\ m.next = w.next
<1>1. x \in Nat /\ w.to \in Nat /\ x <= w.to
  BY InstrFacts DEF Item
<1>2. PICK y : y = FirstFree(free, start, w.to)
  OBVIOUS
<1>3. y \in free /\ y <= x
  BY <1>1, <1>2, FirstFreeIs
<1>4. y \in Instr /\ y # None
  BY <1>3, InstrFacts
<1>5. m = [w EXCEPT !.counter = y, !.done = FALSE]
  BY <1>2, <1>4 DEF Moved
<1>6. m.counter = y /\ m.done = FALSE /\ m.to = w.to /\ m.next = w.next
  BY <1>5 DEF Item
<1>7. At(y) \in Nat /\ At(y) <= y /\ y \in Nat
  BY <1>4, AtFacts
<1> QED BY <1>1, <1>3, <1>6, <1>7 DEF Has

(* Moving a counter to the first free instruction from where it is keeps the rest. *)
LEMMA MoveFromCounter ==
    ASSUME space \in Spaces, truth \in Truths, NEW w \in Item, NEW F, Closed(F), NEW x \in Valid, x \notin F,
           w.counter \in Instr, w.counter <= w.to, At(w.counter) <= x, x < w.to,
           NEW m, m = Moved(w, FirstFree(Free(F), w.counter, w.to))
    PROVE  Has(m, x)
<1>1. x \in Free(F) /\ Free(F) \in SUBSET Instr
  BY ValidIsFree DEF Free
<1>2. x \in Nat /\ w.counter \in Nat /\ w.to \in Nat
  BY <1>1, InstrFacts DEF Item
<1>3. CASE w.counter <= x
  BY <1>1, <1>2, <1>3, MoveKeeps
<1>4. CASE x < w.counter
  <2>1. truth[w.counter] = "long" /\ x = Prefix(w.counter)
    BY <1>4, BeforeCounter
  <2>2. w.counter \in Free(F)
    BY <2>1, LongCovered
  <2>3. FirstFree(Free(F), w.counter, w.to) = w.counter /\ w.counter # None
    BY <1>1, <1>2, <2>2, FirstFreeIs, InstrFacts
  <2>4. m = [w EXCEPT !.counter = w.counter, !.done = FALSE]
    BY <2>3 DEF Moved
  <2>5. m.counter = w.counter /\ m.done = FALSE /\ m.to = w.to
    BY <2>4 DEF Item
  <2> QED BY <2>5 DEF Has
<1> QED BY <1>2, <1>3, <1>4

(* The fields of an item. *)
LEMMA ItemFacts ==
    ASSUME NEW w \in Items
    PROVE  /\ w \in Item /\ w.to \in Nat /\ w.next \in Ok \cup {None} /\ w.counter \in Int /\ w.done \in BOOLEAN
           /\ ~w.done => w.counter \in Instr /\ w.counter <= w.to
BY DEF Items, Item

(* apply_filters skips no instruction that its filters do not cover. *)
LEMMA AppliedKeeps ==
    ASSUME space \in Spaces, truth \in Truths, NEW w \in Items, NEW F, Closed(F), NEW x \in Valid, x \notin F, Has(w, x)
    PROVE  Has(Applied(w, Free(F)), x)
<1>1. ~w.done /\ w \in Item /\ w.counter \in Instr /\ w.counter <= w.to /\ At(w.counter) <= x /\ x < w.to
  BY ItemFacts DEF Has
<1>2. Applied(w, Free(F)) = Moved(w, FirstFree(Free(F), w.counter, w.to))
  BY <1>1 DEF Applied
<1> QED BY <1>1, <1>2, MoveFromCounter

(* An instruction that no filter ever covers stays where a counter is. *)
LEMMA AppliedStays ==
    ASSUME space \in Spaces, truth \in Truths, NEW w \in Items, NEW F, Closed(F), Pinned(w.counter), ~w.done
    PROVE  Applied(w, Free(F)).counter = w.counter /\ ~Applied(w, Free(F)).done
<1>1. w \in Item /\ w.counter \in Instr /\ w.counter <= w.to /\ w.to \in Nat /\ w.counter \in Int
  BY ItemFacts
<1>2. w.counter \in Free(F) /\ Free(F) \in SUBSET Instr
  BY <1>1, PinnedIsFree DEF Free
<1>3. FirstFree(Free(F), w.counter, w.to) = w.counter /\ w.counter # None
  <2>1. w.counter # None
    BY <1>1, InstrFacts
  <2> QED BY Zenon, <1>1, <1>2, <2>1, FirstFreeIs
<1>4. Applied(w, Free(F)) = [w EXCEPT !.counter = w.counter, !.done = FALSE]
  BY <1>3 DEF Applied, Moved
<1> QED BY <1>1, <1>4 DEF Item

(* The filters of a result cover what its encoding covers. *)
LEMMA ResultFilters ==
    ASSUME space \in Spaces, truth \in Truths, NEW r \in RequestSet, NEW res \in Results(r)
    PROVE  Closed(NewFilters(res)) /\ (res.kind = "ok" => truth[r.instr] = "ok")
<1>0. r.instr \in Instr
  BY DEF RequestSet
<1>1. CASE truth[r.instr] = "ok"
  <2>1. PICK S \in {T \cup {r.instr} : T \in Covers({x \in Ok : Long(x) = Long(r.instr)} \ {r.instr})} :
              res \in {[kind |-> "ok", best |-> b, filters |-> UNION {Covered(x) : x \in S}] : b \in (S \cap Bests) \cup {None}}
    BY <1>1 DEF Results
  <2>2. S \subseteq Ok
    BY <1>0, <1>1, <2>1 DEF Covers, Ok, Exact
  <2>3. NewFilters(res) = UNION {Covered(x) : x \in S}
    BY <2>1 DEF NewFilters
  <2>4. ASSUME NEW f \in NewFilters(res)
        PROVE  \E y \in Ok : f \in Covered(y) /\ Covered(y) \subseteq NewFilters(res)
    BY <2>2, <2>3
  <2> QED BY <1>1, <2>4 DEF Closed
<1>2. CASE truth[r.instr] # "ok"
  <2>1. res.kind # "ok"
    BY <1>2 DEF Results, SkipInvalid, SkipMemoryErrors
  <2> QED BY <2>1 DEF NewFilters, Closed
<1> QED BY <1>1, <1>2

-----------------------------------------------------------------------------
(* The instructions that the artifact of a result is about. *)
ArtifactOf(r, res) == CASE res.kind = "ok"    -> res.filters
                        [] res.kind = "error" -> {r.instr}
                        [] res.kind = "skip"  -> r.instr .. res.counter - 1
                        [] OTHER -> {}

(* The completion of an item skips no instruction that its filters or its  *)
(* artifact do not cover.                                                  *)
LEMMA ItemCompleteKeeps ==
    ASSUME space \in Spaces, truth \in Truths, NEW w0 \in Items, NEW r \in RequestSet, NEW res \in Results(r),
           NEW F \in SUBSET Int, Closed(F), NEW x \in Valid, x \notin F, x \notin ArtifactOf(r, res), Has(w0, x),
           Pinned(r.instr) => w0.counter = r.instr
    PROVE  Has(ItemComplete(w0, r, F, res), x)
<1>1. PICK w : w = [w0 EXCEPT !.last = MinEnd(@ + 1, GuessAfter), !.next = IF w0.next = r.instr THEN None ELSE @]
  OBVIOUS
<1>2. PICK c : c = w.counter
  OBVIOUS
<1>3. w \in Item /\ c = w0.counter /\ w.to = w0.to /\ ~w.done /\ c \in Instr /\ c <= w.to /\ At(c) <= x /\ x < w.to /\ w.to \in Nat
  <2>1. MinEnd(w0.last + 1, GuessAfter) \in Nat
    BY EnumAssumption DEF Items, Item, MinEnd
  <2>2. w0 \in Item /\ ~w0.done /\ w0.counter \in Instr /\ w0.counter <= w0.to /\ w0.next \in Nat
    BY ItemFacts DEF Has, Item
  <2>3. w \in Item /\ w.counter = w0.counter /\ w.to = w0.to /\ w.done = w0.done
    BY Zenon, <1>1, <2>1, <2>2, InstrFacts DEF Item
  <2> QED BY <1>2, <2>2, <2>3, ItemFacts DEF Has
<1>4. x \in Free(F) /\ Free(F) \in SUBSET Instr /\ x \in Instr /\ x \in Nat /\ c \in Nat /\ Base \in Nat
  BY <1>3, ValidIsFree, InstrFacts DEF Free
<1>5. r.instr \in Instr /\ r.instr \in Nat /\ r.end \in Nat /\ r.next_filtered \in Nat
  BY InstrFacts DEF RequestSet
<1>6. Has(w, x)
  BY <1>2, <1>3 DEF Has
<1>7. CASE res.kind = "ok"
  <2>1. PICK m : m = Moved(w, FirstFree(Free(F), w.counter, w.to))
    OBVIOUS
  <2>2. Has(m, x)
    BY Zenon, <1>2, <1>3, <2>1, MoveFromCounter
  <2>3. \/ ItemComplete(w0, r, F, res) = [m EXCEPT !.next = res.best]
        \/ ItemComplete(w0, r, F, res) = [m EXCEPT !.next = m.next]
    BY <1>1, <1>7, <2>1 DEF ItemComplete
  <2>4. m \in Item
    <3>1. w.next \in Nat /\ w.counter \in Int
      BY <1>3 DEF Item
    <3>2. w.next \in Ok \cup {None}
      BY <1>1, ItemFacts DEF Items, Item
    <3> QED BY Zenon, <1>3, <1>4, <2>1, <3>1, <3>2, MovedFits, ItemFacts
  <2>5. PICK d : d = ItemComplete(w0, r, F, res)
    OBVIOUS
  <2>6. d.done = m.done /\ d.counter = m.counter /\ d.to = m.to
    BY <2>3, <2>4, <2>5 DEF Item
  <2> QED BY <2>2, <2>5, <2>6 DEF Has
<1>8. CASE res.kind = "short"
  <2>1. ItemComplete(w0, r, F, res) = w \/ ItemComplete(w0, r, F, res) = Extend(w, F)
    BY Zenon, <1>1, <1>8 DEF ItemComplete
  <2>2. Has(Extend(w, F), x)
    <3>1. CASE Long(c)
      <4>1. Extend(w, F) = Moved(w, FirstFree(Free(F), w.counter, w.to))
        BY <1>2, <3>1 DEF Extend
      <4> QED BY Zenon, <1>2, <1>3, <4>1, MoveFromCounter
    <3>2. CASE ~Long(c)
      <4>1. Extend(w, F) = Moved(w, FirstFree(Free(F), c + 1, w.to))
        BY <1>2, <3>2 DEF Extend
      <4>2. At(c) = c
        BY <1>3, <3>2, LongFacts DEF At
      <4>3. CASE x # c
        <5>1. c + 1 \in Int /\ c + 1 <= x
          BY <1>3, <1>4, <4>2, <4>3
        <5> QED BY <1>3, <1>4, <4>1, <5>1, MoveKeeps
      <4>4. CASE x = c
        <5>1. truth[r.instr] = "short"
          BY <1>5, <1>8 DEF Results, SkipInvalid, SkipMemoryErrors
        <5>2. truth[c] # "short"
          BY <4>4 DEF Valid, Exact
        <5>3. Base # 0
          BY <1>3, <5>1, <5>2 DEF Pinned
        <5>4. c + 1 \in Group(c) \ {c}
          <6>1. Prefix(c) = c
            BY <1>3, <3>2, PrefixFacts
          <6> QED BY <1>4, <5>3, <6>1 DEF Group
        <5>5. c + 1 \in Instr /\ Prefix(c + 1) = c /\ truth[c + 1] = "long"
          BY <1>3, <3>2, <5>2, <5>4, GroupFacts, ByteFacts
        <5>6. c + 1 \in Free(F) /\ c + 1 <= w.to /\ c + 1 \in Int
          BY <1>3, <1>4, <4>4, <5>5, LongCovered
        <5>7. FirstFree(Free(F), c + 1, w.to) = c + 1 /\ c + 1 # None
          <6>1. c + 1 # None
            BY <5>5, InstrFacts
          <6> QED BY <1>3, <1>4, <5>6, <6>1, FirstFreeIs
        <5>8. Extend(w, F) = [w EXCEPT !.counter = c + 1, !.done = FALSE]
          BY Zenon, <4>1, <5>7 DEF Moved
        <5>9. PICK d : d = Extend(w, F)
          OBVIOUS
        <5>10. d.counter = c + 1 /\ d.done = FALSE /\ d.to = w.to
          BY <1>3, <5>8, <5>9 DEF Item
        <5>11. At(c + 1) = c
          BY <5>5 DEF At
        <5> QED BY <1>3, <4>2, <5>9, <5>10, <5>11 DEF Has
      <4> QED BY <4>3, <4>4
    <3> QED BY <3>1, <3>2
  <2> QED BY <1>6, <2>1, <2>2
<1>9. CASE res.kind = "long"
  <2>1. ItemComplete(w0, r, F, res) = w \/ ItemComplete(w0, r, F, res) = Reduce(w, F)
    BY Zenon, <1>1, <1>9 DEF ItemComplete
  <2>2. Has(Reduce(w, F), x)
    <3>1. PICK p : p = Prefix(c)
      OBVIOUS
    <3>2. p \in Instr /\ p \in Int /\ p <= x
      <4>1. At(c) \in Nat /\ Prefix(c) \in Nat /\ Prefix(c) <= At(c) /\ Prefix(c) \in Instr
        BY <1>3, AtFacts, PrefixFacts
      <4> QED BY <1>3, <1>4, <3>1, <4>1
    <3>3. PICK free : free = Free(F) \cup ({p} \ F)
      BY Zenon
    <3>4. free \in SUBSET Instr /\ x \in free
      BY <1>4, <3>2, <3>3
    <3>5. Reduce(w, F) = Moved(w, FirstFree(free, p, w.to))
      BY <1>2, <3>1, <3>3 DEF Reduce
    <3> QED BY <1>3, <3>2, <3>4, <3>5, MoveKeeps
  <2> QED BY <1>6, <2>1, <2>2
<1>10. CASE res.kind = "skip"
  <2>1. PICK to : to = IF res.end = w.to THEN [w EXCEPT !.counter = res.counter, !.errors = 0] ELSE [w EXCEPT !.errors = 0]
    BY Zenon
  <2>2. ItemComplete(w0, r, F, res) = [Moved(to, FirstFree(Free(F), to.counter, w.to)) EXCEPT !.done = @ \/ res.done]
    BY <1>1, <1>10, <2>1 DEF ItemComplete
  <2>3. truth[r.instr] \in {"invalid", "memory"}
    <3>1. truth[r.instr] # "skip"
      <4>1. Kinds \subseteq {"ok", "invalid", "error", "memory"}
        BY EnumAssumption DEF Kinds
      <4> QED BY <1>5, <4>1 DEF Truths
    <3> QED BY <1>10, <3>1 DEF Results
  <2>4. c = r.instr /\ At(c) = c /\ c <= x
    BY <1>3, <2>3 DEF Pinned, At
  <2>5. res.counter \in Int /\ res.counter <= x /\ res.done = FALSE
    <3>1. res.counter \in Int
      BY <1>10, ResultTypes DEF ResultSet
    <3>2. CASE truth[r.instr] = "invalid"
      <4>1. PICK next : next = {y \in Valid : y > r.instr}
        BY Zenon
      <4>2. x \in next
        <5>1. x # c
          BY <2>4, <3>2 DEF Valid
        <5> QED BY <1>4, <2>4, <4>1, <5>1
      <4>3. next \in SUBSET Nat /\ next # {}
        BY <4>1, <4>2, InstrFacts DEF Valid, Exact
      <4>4. PICK least : least = First(next)
        OBVIOUS
      <4>5. least <= x
        BY <4>2, <4>3, <4>4, FirstIsLeast
      <4>6. res = SkipInvalid(r)
        BY <3>2 DEF Results
      <4>7. res.counter = least /\ res.done = FALSE
        BY Zenon, <4>1, <4>3, <4>4, <4>6 DEF SkipInvalid
      <4> QED BY <3>1, <4>5, <4>7
    <3>3. CASE truth[r.instr] = "memory"
      <4>1. res.done = FALSE
        BY <3>3 DEF Results, SkipMemoryErrors
      <4>2. x \notin r.instr .. res.counter - 1
        BY <1>10 DEF ArtifactOf
      <4> QED BY <1>4, <2>4, <3>1, <4>1, <4>2
    <3> QED BY Zenon, <2>3, <3>2, <3>3
  <2>6. to \in Item /\ to.to = w.to /\ to.counter \in Int /\ to.counter <= x
    BY Zenon, <1>2, <1>3, <1>4, <2>1, <2>4, <2>5 DEF Item
  <2>7. PICK m : m = Moved(to, FirstFree(Free(F), to.counter, to.to))
    OBVIOUS
  <2>8. Has(m, x)
    BY <1>3, <1>4, <2>6, <2>7, MoveKeeps
  <2>9. PICK d : d = ItemComplete(w0, r, F, res)
    OBVIOUS
  <2>10. d = [m EXCEPT !.done = m.done \/ FALSE]
    BY <2>2, <2>5, <2>6, <2>7, <2>9
  <2>11. m \in Item
    <3>1. to.next \in Ok \cup {None}
      BY <1>1, <1>3, <2>1, ItemFacts DEF Items, Item
    <3> QED BY <1>4, <2>6, <2>7, <3>1, MovedFits, ItemFacts
  <2>12. d.counter = m.counter /\ d.to = m.to /\ ~d.done
    BY <2>8, <2>10, <2>11 DEF Item, Has
  <2> QED BY <2>8, <2>9, <2>12 DEF Has
<1>11. CASE res.kind = "error"
  <2>1. PICK e : e = [w EXCEPT !.errors = MinEnd(@ + 1, ErrorLimit)]
    BY Zenon
  <2>2. ItemComplete(w0, r, F, res) = IF e.next # None THEN [e EXCEPT !.next = None]
                    ELSE IF e.errors >= ErrorLimit
                         THEN Moved(e, FirstFree(Instr, Tunnel(e.counter), e.to))
                         ELSE TunnelNext(e, F)
    BY <1>1, <1>11, <2>1 DEF ItemComplete
  <2>3. MinEnd(w.errors + 1, ErrorLimit) \in Nat
    BY <1>3, EnumAssumption DEF Item, MinEnd
  <2>4. e \in Item /\ e.counter = c /\ e.to = w.to /\ ~e.done
    BY Zenon, <1>2, <1>3, <2>1, <2>3 DEF Item
  <2>5. truth[r.instr] = "error"
    BY <1>5, <1>11 DEF Results, SkipInvalid, SkipMemoryErrors
  <2>6. c = r.instr /\ At(c) = c
    BY <1>3, <2>5 DEF Pinned, At
  <2>7. x > c
    <3>1. x # r.instr
      BY <1>11 DEF ArtifactOf
    <3> QED BY <1>3, <1>4, <2>6, <3>1
  <2>8. Tunnel(c) \in Int /\ Tunnel(c) <= x
    <3>1. CASE Long(c)
      BY <1>4, <2>7, <3>1 DEF Tunnel
    <3>2. CASE ~Long(c)
      <4>1. x \notin Group(c)
        <5>1. truth[x] # "long"
          BY DEF Valid, Exact
        <5> QED BY <1>3, <1>4, <2>5, <2>6, <2>7, <3>2, <5>1, ByteFacts
      <4>2. Prefix(c) = c
        BY <1>3, <3>2, PrefixFacts
      <4>3. ~(x <= c + Base)
        BY <1>4, <2>7, <4>1, <4>2 DEF Group
      <4> QED BY <1>4, <3>2, <4>3 DEF Tunnel
    <3> QED BY <3>1, <3>2
  <2>9. CASE e.next # None
    <3>1. PICK d : d = ItemComplete(w0, r, F, res)
      OBVIOUS
    <3>2. d = [e EXCEPT !.next = None]
      BY <2>2, <2>9, <3>1
    <3>3. d.counter = c /\ d.to = w.to /\ ~d.done
      BY <2>4, <3>2 DEF Item
    <3> QED BY Zenon, <1>3, <3>1, <3>3 DEF Has
  <2>10. CASE e.next = None
    <3>1. Has(Moved(e, FirstFree(Instr, Tunnel(e.counter), e.to)), x)
      BY <1>3, <1>4, <2>4, <2>8, MoveKeeps
    <3>2. Has(TunnelNext(e, F), x)
      BY <1>3, <1>4, <2>4, <2>8, MoveKeeps DEF TunnelNext
    <3> QED BY <2>2, <2>10, <3>1, <3>2
  <2> QED BY <2>9, <2>10
<1>12. ResultSet(res)
  BY ResultTypes
<1> QED BY <1>7, <1>8, <1>9, <1>10, <1>11, <1>12 DEF ResultSet

-----------------------------------------------------------------------------
(* What the completion c of item i keeps. *)
KeptBy(i, c) ==
    /\ Closed(c.filters) /\ c.filters \subseteq artifacts \cup c.artifact
    /\ \A j \in DOMAIN work : \A x \in Valid \ (artifacts \cup c.artifact) : Has(work[j], x) => Has(c.work[j], x)
    /\ \A j \in DOMAIN work : j # i /\ ~work[j].done /\ Pinned(work[j].counter) => ~c.work[j].done /\ c.work[j].counter = work[j].counter

(* complete keeps, in every item, what neither a filter nor an artifact    *)
(* covers: the filters are in the artifacts when they move the counters.   *)
LEMMA CompletedKeeps ==
    ASSUME TypeInv, RequestInv, PinnedInv, Closed(filters), filters \subseteq artifacts, NEW i \in DOMAIN work, request[i] # NoRequest,
           NEW res \in Results(request[i]), NEW long, NEW moved, NEW c, c = Completed(i, res, long, moved)
    PROVE  KeptBy(i, c)
<1>1. /\ space \in Spaces /\ truth \in Truths /\ request[i] \in RequestSet
      /\ \A j \in DOMAIN work : work[j] \in Items
  BY DEF TypeInv
<1>2. PICK F : F = filters \cup NewFilters(res)
  BY Zenon
<1>3. ResultSet(res) /\ Closed(NewFilters(res))
  BY <1>1, ResultTypes, ResultFilters
<1>4. F \in SUBSET Int /\ Closed(F)
  <2>1. F \in SUBSET Int
    BY Zenon, <1>2, <1>3 DEF TypeInv, NewFilters, ResultSet
  <2>2. Closed(F)
    BY <1>2, <1>3 DEF Closed
  <2> QED BY <2>1, <2>2
<1>5. c.artifact = ArtifactOf(request[i], res) /\ c.filters = F
  BY Zenon, <1>2 DEF Completed, ArtifactOf
<1>6. F \subseteq artifacts \cup c.artifact
  BY <1>2, <1>5 DEF NewFilters, ArtifactOf
<1>7. PICK wi : wi = Applied(work[i], Free(F))
  BY Zenon
<1>8. PICK held : held = Held(IF NewFilters(res) # {} \/ wi.done \/ long THEN [unstall EXCEPT ![i] = Remaining(@, wi.done)] ELSE unstall, i,
                              NewFilters(res) # {} \/ wi.done \/ long)
  OBVIOUS
<1>9. PICK new : new = [j \in DOMAIN work |-> IF held THEN work[j] ELSE Applied(work[j], Free(NewFilters(res)))]
  BY Zenon
<1>10. PICK hits : hits = {j \in DOMAIN work \ {i} : /\ ~held /\ ~work[j].done
                                          /\ IF new[j].done THEN j \in moved ELSE new[j].counter # work[j].counter}
  BY Zenon
<1>11. c.work = [j \in DOMAIN work |-> IF j = i THEN ItemComplete(wi, request[i], F, res)
                                       ELSE IF j \in hits THEN Applied(new[j], Free(F)) ELSE new[j]]
  BY Zenon, <1>2, <1>7, <1>8, <1>9, <1>10 DEF Completed
<1>12. \A j \in DOMAIN work : new[j] = work[j] \/ new[j] = Applied(work[j], Free(NewFilters(res)))
  BY <1>9
<1>13. \A j \in DOMAIN work : new[j] \in Items
  <2>1. Free(NewFilters(res)) \in SUBSET Instr
    BY DEF Free
  <2> QED BY <1>1, <1>12, <2>1, AppliedFits
<1>14. ASSUME NEW j \in DOMAIN work, NEW x \in Valid, x \notin artifacts, x \notin c.artifact, Has(work[j], x)
       PROVE  Has(c.work[j], x)
  <2>1. x \notin F /\ x \notin NewFilters(res)
    BY Zenon, <1>2, <1>6, <1>14
  <2>2. CASE j = i
    <3>1. Has(wi, x) /\ wi \in Items
      <4>1. Free(F) \in SUBSET Instr
        BY Zenon DEF Free
      <4> QED BY <1>1, <1>4, <1>7, <1>14, <2>1, <2>2, <4>1, AppliedKeeps, AppliedFits
    <3>2. Pinned(request[i].instr) => wi.counter = request[i].instr
      BY Zenon, <1>1, <1>4, <1>7, AppliedStays DEF PinnedInv
    <3>3. c.work[j] = ItemComplete(wi, request[i], F, res)
      BY Zenon, <1>11, <2>2
    <3> QED BY <1>1, <1>4, <1>5, <1>14, <2>1, <3>1, <3>2, <3>3, ItemCompleteKeeps
  <2>3. CASE j # i
    <3>1. Has(new[j], x)
      BY Zenon, <1>1, <1>3, <1>12, <1>14, <2>1, AppliedKeeps
    <3>2. Has(Applied(new[j], Free(F)), x)
      BY Zenon, <1>1, <1>4, <1>13, <2>1, <3>1, AppliedKeeps
    <3>3. c.work[j] = new[j] \/ c.work[j] = Applied(new[j], Free(F))
      BY Zenon, <1>11, <2>3
    <3> QED BY Zenon, <3>1, <3>2, <3>3
  <2> QED BY <2>2, <2>3
<1>15. ASSUME NEW j \in DOMAIN work, j # i, ~work[j].done, Pinned(work[j].counter)
       PROVE  ~c.work[j].done /\ c.work[j].counter = work[j].counter
  <2>1. ~new[j].done /\ new[j].counter = work[j].counter
    BY Zenon, <1>1, <1>3, <1>12, <1>15, AppliedStays
  <2>2. ~Applied(new[j], Free(F)).done /\ Applied(new[j], Free(F)).counter = work[j].counter
    BY Zenon, <1>1, <1>4, <1>13, <1>15, <2>1, AppliedStays
  <2>3. c.work[j] = new[j] \/ c.work[j] = Applied(new[j], Free(F))
    BY <1>11, <1>15
  <2> QED BY Zenon, <2>1, <2>2, <2>3
<1> QED BY <1>4, <1>5, <1>6, <1>14, <1>15 DEF KeptBy

(* The predicates of this part depend on the space and the truth alone. *)
LEMMA SameTruth ==
    ASSUME space' = space, truth' = truth
    PROVE  /\ Valid' = Valid /\ NoRequest' = NoRequest
           /\ \A x : Pinned(x)' <=> Pinned(x)
           /\ \A w, x : Has(w, x)' <=> Has(w, x)
           /\ \A F : Closed(F)' <=> Closed(F)
<1>1. Base' = Base /\ Instr' = Instr
  BY SameSpace DEF Base
<1>2. \A x : Pinned(x)' <=> Pinned(x)
  BY <1>1 DEF Pinned
<1>3. \A w, x : Has(w, x)' <=> Has(w, x)
  BY <1>1 DEF Has, At, Prefix
<1>4. \A F : Closed(F)' <=> Closed(F)
  BY <1>1, SameSpace DEF Closed, Covered, Group, Long, Prefix
<1> QED BY <1>2, <1>3, <1>4, SameSpace

(* Every nonempty set of positions has a last one. *)
LEMMA LastPosition ==
    ASSUME NEW N \in Nat, NEW S \in SUBSET (1..N), S # {}
    PROVE  \E i \in S : \A j \in S : j <= i
<1> DEFINE T == {n \in Nat : \E i \in S : n = N - i}
<1>1. T # {}
  <2>1. PICK i \in S : TRUE
    BY Zenon
  <2>2. N - i \in T
    BY <2>1
  <2> QED BY Zenon, <2>2
<1>2. PICK t \in T : \A u \in T : t <= u
  <2>1. T \in SUBSET Nat
    OBVIOUS
  <2> QED BY Zenon, <1>1, <2>1, Smallest
<1>3. PICK i \in S : t = N - i
  OBVIOUS
<1>4. \A j \in S : N - j \in T
  OBVIOUS
<1> QED BY <1>2, <1>3, <1>4

(* The items of the initial state are adjacent and start at 0. *)
LEMMA InitKept == RunInit => PinnedInv /\ KeptInv
<1> SUFFICES ASSUME RunInit PROVE PinnedInv /\ KeptInv
  OBVIOUS
<1>1. space \in Spaces /\ truth \in Truths /\ filters = {} /\ saved.work = work /\ saved.filters = filters
  BY DEF RunInit, Init, Snapshot
<1>2. PinnedInv
  BY DEF RunInit, Init, PinnedInv
<1>3. ASSUME NEW x \in Valid
      PROVE  \E i \in DOMAIN work : Has(work[i], x)
  <2>1. PICK starts \in space.starts : work = [i \in DOMAIN starts |-> NewItem(starts[i], IF i = Len(starts) THEN NoEnd ELSE starts[i + 1])]
    BY DEF RunInit, Init
  <2>2. PICK n : n = Len(starts)
    BY Zenon
  <2>3. starts \in Seq(Instr) /\ starts # << >> /\ starts[1] = 0
    BY <1>1, EnumAssumption DEF Instr, NoEnd, Bytes, Base
  <2>4. n \in Nat /\ n # 0 /\ DOMAIN starts = 1 .. n /\ \A i \in 1 .. n : starts[i] \in Instr
    BY <2>2, <2>3
  <2>5. x \in Nat /\ x < NoEnd /\ NoEnd \in Nat
    BY <1>1, InstrFacts DEF Valid, Exact
  <2>6. PICK i \in 1 .. n : starts[i] <= x /\ \A j \in 1 .. n : starts[j] <= x => j <= i
    <3>1. PICK S : S = {j \in 1 .. n : starts[j] <= x}
      BY Zenon
    <3>2. S \in SUBSET (1 .. n) /\ 1 \in S
      BY <2>3, <2>4, <2>5, <3>1
    <3>3. PICK i \in S : \A j \in S : j <= i
      <4>1. S # {}
        BY <3>2
      <4> QED BY Zenon, <2>4, <3>2, <4>1, LastPosition
    <3> QED BY <3>1, <3>3
  <2>7. PICK to : to = IF i = n THEN NoEnd ELSE starts[i + 1]
    OBVIOUS
  <2>8. x < to
    <3>1. CASE i = n
      BY <2>5, <2>7, <3>1
    <3>2. CASE i # n
      <4>1. i + 1 \in 1 .. n /\ ~(i + 1 <= i)
        BY <2>4, <3>2
      <4>2. ~(starts[i + 1] <= x)
        BY <2>6, <4>1
      <4>3. starts[i + 1] \in Nat
        BY <1>1, <2>4, <4>1, InstrFacts
      <4> QED BY <2>5, <2>7, <3>2, <4>2, <4>3
    <3> QED BY <3>1, <3>2
  <2>9. work[i] = NewItem(starts[i], to)
    BY Zenon, <2>1, <2>2, <2>4, <2>7
  <2>10. work[i].counter = starts[i] /\ work[i].to = to /\ ~work[i].done
    BY <2>9 DEF NewItem
  <2>11. At(starts[i]) <= x
    <3>1. starts[i] \in Instr
      BY <2>4
    <3>2. At(starts[i]) \in Nat /\ At(starts[i]) <= starts[i] /\ starts[i] \in Nat
      BY <1>1, <3>1, AtFacts
    <3> QED BY <2>5, <2>6, <3>2
  <2>12. i \in DOMAIN work
    BY <2>1, <2>4
  <2> QED BY <2>8, <2>10, <2>11, <2>12 DEF Has
<1>4. Closed(filters)
  BY <1>1 DEF Closed
<1> QED BY <1>1, <1>2, <1>3, <1>4 DEF KeptInv, Kept

(* Every step keeps every instruction, in the work queue and in the state  *)
(* file: what the file lacks is on file as an artifact.                    *)
LEMMA NextKept ==
    ASSUME Guesses = {}, IInv, IInv', PinnedInv, KeptInv, [RunNext]_runVars
    PROVE  PinnedInv' /\ KeptInv'
<1>0. /\ space \in Spaces /\ truth \in Truths /\ work \in Seq(Items) /\ Len(work) \in Nat /\ DOMAIN work = 1 .. Len(work)
      /\ request \in Seq(RequestSet \cup {NoRequest}) /\ Len(request) = Len(work)
  BY DEF IInv, TypeInv
<1>1. ASSUME NEW i \in DOMAIN work, TakeNext(i), UNCHANGED <<saved, restarts>>
      PROVE  PinnedInv' /\ KeptInv'
  <2>1. space' = space /\ truth' = truth /\ UNCHANGED <<work, filters, artifacts, saved>> /\ ~work[i].done
    BY Zenon, <1>1 DEF TakeNext, CanRun
  <2>2. KeptInv'
    BY <2>1, SameTruth DEF KeptInv, Kept
  <2>3. PICK r \in Requests(work[i]) :
            request' = [request EXCEPT ![i] = [instr |-> r.instr, end |-> r.end, next_filtered |-> NextFiltered(r.instr)]]
    BY Zenon, <1>1 DEF TakeNext
  <2>4. /\ \A j \in DOMAIN work : j # i => request'[j] = request[j]
        /\ request'[i].instr = r.instr
    BY <1>0, <2>3
  <2>5. r.instr = work[i].counter \/ r.instr \in Ok
    <3>1. work[i].next \in Ok \cup {None}
      BY <1>0, ItemFacts
    <3> QED BY <3>1 DEF Requests
  <2>6. Pinned(r.instr) => work[i].counter = r.instr
    BY Zenon, <2>5 DEF Ok, Pinned
  <2> QED BY Zenon, <2>1, <2>2, <2>4, <2>6, SameTruth DEF PinnedInv
<1>2. ASSUME NothingToDo, UNCHANGED <<saved, restarts>>
      PROVE  PinnedInv' /\ KeptInv'
  <2>1. space' = space /\ truth' = truth /\ UNCHANGED <<work, filters, artifacts, saved, request>>
    BY <1>2 DEF NothingToDo
  <2> QED BY <2>1, SameTruth DEF PinnedInv, KeptInv, Kept
<1>3. ASSUME NEW i \in DOMAIN work, Complete(i), UNCHANGED <<saved, restarts>>
      PROVE  PinnedInv' /\ KeptInv'
  <2>1. space' = space /\ truth' = truth /\ UNCHANGED saved /\ request[i] # NoRequest /\ request' = [request EXCEPT ![i] = NoRequest]
    BY <1>3 DEF Complete
  <2>2. PICK res \in Results(request[i]) : \E long \in BOOLEAN, moved \in SUBSET EndedBy(i, res) :
          \E c \in {Completed(i, res, long, moved)} : work' = c.work /\ filters' = c.filters /\ artifacts' = artifacts \cup c.artifact
    BY Zenon, <1>3 DEF Complete
  <2>3. PICK long \in BOOLEAN, moved \in SUBSET EndedBy(i, res) :
          \E c \in {Completed(i, res, long, moved)} : work' = c.work /\ filters' = c.filters /\ artifacts' = artifacts \cup c.artifact
    BY Zenon, <2>2
  <2>4. PICK c : c = Completed(i, res, long, moved) /\ work' = c.work /\ filters' = c.filters /\ artifacts' = artifacts \cup c.artifact
    BY Zenon, <2>3
  <2>5. /\ Closed(filters') /\ filters' \subseteq artifacts'
        /\ \A j \in DOMAIN work : \A x \in Valid \ artifacts' : Has(work[j], x) => Has(work'[j], x)
        /\ \A j \in DOMAIN work : j # i /\ ~work[j].done /\ Pinned(work[j].counter) => ~work'[j].done /\ work'[j].counter = work[j].counter
    <3>1. TypeInv /\ RequestInv /\ Closed(filters) /\ filters \subseteq artifacts
      BY Zenon DEF IInv, KeptInv
    <3>2. KeptBy(i, c)
      BY Zenon, <2>1, <2>4, <3>1, CompletedKeeps
    <3> QED BY Zenon, <2>4, <3>2 DEF KeptBy
  <2>6. DOMAIN work' = DOMAIN work /\ artifacts \subseteq artifacts'
    <3>1. Len(work') = Len(work) /\ work' \in Seq(Items)
      BY Zenon, <2>1, <2>4, CompletedWork DEF IInv
    <3> QED BY <1>0, <2>4, <3>1
  <2>7. KeptInv'
    <3>1. \A x \in Valid \ artifacts' : \E j \in DOMAIN work' : Has(work'[j], x)
      BY <2>5, <2>6 DEF KeptInv, Kept
    <3>2. \A x \in Valid \ artifacts' : \E j \in DOMAIN saved.work : Has(saved.work[j], x)
      BY <2>6 DEF KeptInv, Kept
    <3>3. saved.filters \subseteq artifacts' /\ Closed(saved.filters)
      BY <2>6 DEF KeptInv
    <3> QED BY Zenon, <2>1, <2>5, <3>1, <3>2, <3>3, SameTruth DEF KeptInv, Kept
  <2>8. \A j \in DOMAIN work : request'[j] # NoRequest => j # i /\ request'[j] = request[j]
    BY <1>0, <2>1
  <2>9. ASSUME NEW j \in DOMAIN work, request'[j] # NoRequest, Pinned(request'[j].instr)
        PROVE  work'[j].counter = request'[j].instr /\ ~work'[j].done
    <3>1. j # i /\ request'[j] = request[j] /\ work[j].counter = request[j].instr /\ ~work[j].done
      BY Zenon, <2>8, <2>9 DEF PinnedInv
    <3> QED BY <2>5, <2>9, <3>1
  <2>10. PinnedInv'
    BY <2>1, <2>6, <2>9, SameTruth DEF PinnedInv
  <2> QED BY Zenon, <2>7, <2>10
<1>4. ASSUME NEW x \in Instr, Split(x), UNCHANGED <<saved, restarts>>
      PROVE  PinnedInv' /\ KeptInv'
  <2>1. space' = space /\ truth' = truth /\ UNCHANGED <<saved, filters, artifacts>> /\ request' = Append(request, NoRequest)
    BY <1>4 DEF Split
  <2>2. PICK i \in DOMAIN work :
            /\ x < work[i].to /\ work[i].counter < x /\ ~work[i].done
            /\ work' = Append([work EXCEPT ![i].to = x], NewItem(x, work[i].to))
    BY Zenon, <1>4 DEF Split
  <2>3. PICK n \in Nat : n = Len(work)
    BY Zenon, <1>0
  <2>4. DOMAIN work = 1 .. n /\ work[i] \in Items /\ Len(request) = n /\ \A j \in 1 .. n : work[j] \in Items
    BY <1>0, <2>3
  <2>5. PICK cut : cut = [work[i] EXCEPT !.to = x]
    BY Zenon
  <2>6. PICK old : old = [work EXCEPT ![i] = cut]
    BY Zenon
  <2>7. PICK fresh : fresh = NewItem(x, work[i].to)
    OBVIOUS
  <2>8. x \in Nat /\ work[i].to \in Nat /\ work[i].counter \in Int /\ work[i] \in Item
    BY <1>0, <2>4, ItemFacts, InstrFacts
  <2>9. /\ cut.to = x /\ cut.counter = work[i].counter /\ cut.done = work[i].done
        /\ fresh.to = work[i].to /\ fresh.counter = x /\ ~fresh.done
    BY <2>5, <2>7, <2>8 DEF Item, NewItem
  <2>10. work' = Append(old, fresh)
    BY <2>2, <2>5, <2>6, <2>7
  <2>11. cut \in Items /\ fresh \in Items
    <3>1. fresh \in Items
      BY <1>0, <2>2, <2>7, <2>8, NewItemFits
    <3>2. cut \in Items
      <4>1. work[i].counter <= x
        BY <2>2, <2>8
      <4> QED BY <2>4, <2>5, <2>8, <4>1 DEF Items, Item
    <3> QED BY <3>1, <3>2
  <2>12. old \in Seq(Items) /\ Len(old) = n /\ old[i] = cut /\ \A j \in 1 .. n : j # i => old[j] = work[j]
    BY <1>0, <2>3, <2>4, <2>6, <2>11
  <2>13. /\ DOMAIN work' = 1 .. n + 1 /\ work'[n + 1] = fresh /\ work'[i] = cut
         /\ \A j \in 1 .. n : j # i => work'[j] = work[j]
    BY <2>4, <2>10, <2>11, <2>12
  <2>14. ASSUME NEW y \in Valid, NEW j \in DOMAIN work, Has(work[j], y)
         PROVE  \E k \in DOMAIN work' : Has(work'[k], y)
    <3>1. y \in Nat
      BY <1>0, InstrFacts DEF Valid, Exact
    <3>2. CASE j # i
      BY <2>4, <2>13, <2>14, <3>2
    <3>3. CASE j = i /\ y < x
      <4>1. Has(cut, y)
        BY <2>9, <2>14, <3>3 DEF Has
      <4> QED BY <2>4, <2>13, <4>1
    <3>4. CASE j = i /\ ~(y < x)
      <4>1. At(x) \in Nat /\ At(x) <= x
        BY Zenon, <1>0, AtFacts
      <4>2. Has(fresh, y)
        BY <2>8, <2>9, <2>14, <3>1, <3>4, <4>1 DEF Has
      <4>3. n + 1 \in DOMAIN work'
        BY <2>13
      <4> QED BY <2>13, <4>2, <4>3
    <3> QED BY <3>2, <3>3, <3>4
  <2>15. KeptInv'
    <3>1. \A y \in Valid : y \in artifacts \/ \E k \in DOMAIN work' : Has(work'[k], y)
      BY <2>14 DEF KeptInv, Kept
    <3> QED BY Zenon, <2>1, <3>1, SameTruth DEF KeptInv, Kept
  <2>16. /\ \A j \in 1 .. n : request'[j] = request[j]
         /\ request'[n + 1] = NoRequest
    BY <1>0, <2>1, <2>3
  <2>17. \A j \in 1 .. n : work'[j].counter = work[j].counter /\ (~work[j].done => ~work'[j].done)
    BY <2>9, <2>13
  <2>18. PinnedInv'
    <3>1. ASSUME NEW j \in 1 .. n + 1, request'[j] # NoRequest, Pinned(request'[j].instr)
          PROVE  work'[j].counter = request'[j].instr /\ ~work'[j].done
      <4>1. j \in 1 .. n
        BY <2>16, <3>1
      <4> QED BY <2>4, <2>16, <2>17, <3>1, <4>1 DEF PinnedInv
    <3> QED BY Zenon, <2>1, <2>13, <3>1, SameTruth DEF PinnedInv
  <2> QED BY Zenon, <2>15, <2>18
<1>5. CASE Save
  <2>1. /\ space' = space /\ truth' = truth /\ UNCHANGED <<work, request, filters, artifacts>>
        /\ saved'.work = work /\ saved'.filters = filters
    BY <1>5 DEF Save, Snapshot, vars, status
  <2> QED BY <2>1, SameTruth DEF PinnedInv, KeptInv, Kept
<1>6. CASE Restart
  <2>1. /\ space' = space /\ truth' = truth /\ UNCHANGED <<artifacts, saved>>
        /\ work' = saved.work /\ filters' = saved.filters
        /\ request' = [i \in DOMAIN work' |-> NoRequest]
    BY Zenon, <1>6, SameSpace DEF Restart
  <2>2. PinnedInv'
    BY Zenon, <2>1, SameTruth DEF PinnedInv
  <2>3. KeptInv'
    BY Zenon, <2>1, SameTruth DEF KeptInv, Kept
  <2> QED BY <2>2, <2>3
<1>7. CASE UNCHANGED runVars
  <2>1. space' = space /\ truth' = truth /\ UNCHANGED <<work, request, filters, artifacts, saved>>
    BY <1>7 DEF runVars, vars, status
  <2> QED BY <2>1, SameTruth DEF PinnedInv, KeptInv, Kept
<1> QED BY <1>1, <1>2, <1>3, <1>4, <1>5, <1>6, <1>7 DEF RunNext, Next, Work

(* When no pattern is guessed, every valid instruction is in an artifact   *)
(* or still ahead of the counter of an item, across restarts from any      *)
(* saved state.                                                            *)
THEOREM EveryInstructionKept ==
    ASSUME Guesses = {}
    PROVE  RunSpec => []NothingLost
<1>1. IInv /\ KeptInv => NothingLost
  <2> SUFFICES ASSUME IInv, KeptInv, NEW x \in Valid, x \notin artifacts
               PROVE  \E i \in DOMAIN work : ~work[i].done /\ At(work[i].counter) <= x /\ x <= work[i].to
    BY DEF NothingLost, At
  <2>1. PICK i \in DOMAIN work : Has(work[i], x)
    BY DEF KeptInv, Kept
  <2>2. x \in Nat /\ work[i].to \in Nat
    <3>1. space \in Spaces /\ work[i] \in Items
      BY DEF IInv, TypeInv
    <3> QED BY <3>1, ItemFacts, InstrFacts DEF Valid, Exact
  <2> QED BY <2>1, <2>2 DEF Has
<1>2. RunInit => IInv /\ PinnedInv /\ KeptInv
  BY InitInv, InitKept
<1>3. IInv /\ IInv' /\ PinnedInv /\ KeptInv /\ [RunNext]_runVars => PinnedInv' /\ KeptInv'
  BY NextKept
<1> QED BY <1>1, <1>2, <1>3, Invariance, PTL DEF RunSpec
=============================================================================
