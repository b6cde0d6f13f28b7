------------------------- MODULE EnumerationStalls --------------------------
(***************************************************************************)
(* Stalls do not chain: the inductive invariant of the work queue of       *)
(* Enumeration and the runs of EnumerationRun, for every space, every      *)
(* number of items and threads, and every value of the limits.             *)
(***************************************************************************)
EXTENDS EnumerationRun, WellFoundedInduction, TLAPS

(* A work item: an item that is not done has an instruction before its end. *)
Item == [from : Nat, to : Nat, counter : Int, next : Nat, done : BOOLEAN, errors : Nat, last : Nat]
Items == {w \in Item : /\ w.next \in Ok \cup {None}
                       /\ ~w.done => w.counter \in Instr /\ w.counter <= w.to}

RequestSet == [instr : Instr, end : Nat, next_filtered : Nat]

(* The items that an item stalls, with the results they wait for. *)
StallMaps == UNION {[D -> Nat] : D \in SUBSET Nat}

TypeInv ==
    /\ space \in Spaces /\ truth \in Truths
    /\ work \in Seq(Items) /\ saved.work \in Seq(Items)
    /\ unstall \in Seq(StallMaps) /\ Len(unstall) = Len(work)
    /\ request \in Seq(RequestSet \cup {NoRequest}) /\ Len(request) = Len(work)
    /\ filters \subseteq Int /\ saved.filters \subseteq Int

(* While a request of an item is out, its counter is an instruction, even  *)
(* if the filters of another item have ended it.                           *)
RequestInv == \A i \in DOMAIN work : request[i] # NoRequest => work[i].counter \in Instr

StallInv == \A i \in DOMAIN work : DOMAIN unstall[i] \subseteq DOMAIN work

IInv == TypeInv /\ RequestInv /\ StallInv /\ NoStallChains

-----------------------------------------------------------------------------
(* Every nonempty set of naturals has a least element. *)
LEMMA Smallest ==
    ASSUME NEW S \in SUBSET Nat, S # {}
    PROVE  \E i \in S : \A j \in S : i <= j
<1>1. PICK x \in S : \A y \in S : ~(<<y, x>> \in OpToRel(<, Nat))
  BY WFMin, NatLessThanWellFounded, Zenon
<1>2. \A y \in S : ~(y < x)
  BY Zenon, <1>1 DEF OpToRel
<1> QED BY <1>2

(* The least element of a nonempty set of numbers. *)
LEMMA FirstIsLeast ==
    ASSUME NEW S \in SUBSET Nat, S # {}
    PROVE  First(S) \in S /\ \A j \in S : First(S) <= j
<1>1. \E i \in S : \A j \in S : i <= j
  BY Smallest
<1> QED BY <1>1, Zenon DEF First

(* The instructions are the numbers below NoEnd; None is not one of them. *)
LEMMA InstrFacts ==
    ASSUME space \in Spaces
    PROVE  /\ Base \in Nat /\ NoEnd \in Nat /\ None \in Nat /\ None \notin Instr
           /\ \A x : x \in Instr <=> x \in Nat /\ x < NoEnd
<1>1. space.bytes \in Nat /\ space.base \in Nat
  BY EnumAssumption
<1>2. NoEnd \in Nat
  <2>1. \A a \in Nat, b \in Nat : a * (b + 1) \in Nat
    OBVIOUS
  <2> QED BY <1>1, <2>1 DEF NoEnd, Bytes, Base
<1> QED BY <1>1, <1>2 DEF Instr, None, Base

(* The instructions that are too long still have a prefix. *)
LEMMA OkIsInstr == Ok \subseteq Instr
BY DEF Ok, Exact

-----------------------------------------------------------------------------
(* Division, for any divisor. *)
LEMMA Rounded ==
    ASSUME NEW m \in Nat \ {0}, NEW x \in Nat
    PROVE  /\ x % m \in 0 .. m - 1 /\ x % m <= x
           /\ \E k \in Nat : x - (x % m) = m * k
<1>1. x % m \in 0 .. m - 1 /\ x % m <= x
  OBVIOUS
<1>2. x \div m \in Nat
  OBVIOUS
<1>3. x = m * (x \div m) + (x % m)
  OBVIOUS
<1>4. x - (x % m) = m * (x \div m)
  BY <1>1, <1>2, <1>3
<1> QED BY <1>1, <1>2, <1>4

(* A multiple is divisible. *)
LEMMA MultipleIsWhole ==
    ASSUME NEW m \in Nat \ {0}, NEW k \in Nat
    PROVE  m * k \in Nat /\ (m * k) % m = 0
OBVIOUS

(* Blocks of m numbers do not overlap. *)
LEMMA SameMultiple ==
    ASSUME NEW m \in Nat \ {0}, NEW k \in Nat, NEW l \in Nat, NEW y \in Int,
           m * k <= y, y <= m * k + m - 1, m * l <= y, y <= m * l + m - 1
    PROVE  k = l
OBVIOUS

(* A multiple of m below b * m is a whole block below it. *)
LEMMA MultipleBelow ==
    ASSUME NEW m \in Nat \ {0}, NEW k \in Nat, NEW b \in Nat, m * k < b * m
    PROVE  m * k + m <= b * m
OBVIOUS

(* The prefix of an instruction is the first instruction of its group. *)
LEMMA PrefixFacts ==
    ASSUME space \in Spaces, NEW x \in Instr
    PROVE  /\ Prefix(x) \in Instr /\ ~Long(Prefix(x)) /\ Prefix(x) <= x /\ x <= Prefix(x) + Base
           /\ Prefix(x) + Base \in Instr
           /\ ~Long(x) => Prefix(x) = x
           /\ \E k \in Nat : Prefix(x) = (Base + 1) * k
<1>1. PICK m : m = Base + 1
  OBVIOUS
<1>2. m \in Nat \ {0} /\ x \in Nat /\ x < NoEnd /\ NoEnd \in Nat /\ Base \in Nat
  BY <1>1, InstrFacts
<1>3. x % m \in 0 .. m - 1 /\ x % m <= x
  BY Zenon, <1>2, Rounded
<1>4. PICK k \in Nat : x - (x % m) = m * k
  BY Zenon, <1>2, Rounded
<1>5. PICK p : p = m * k
  OBVIOUS
<1>6. Prefix(x) = p /\ p \in Nat /\ p <= x /\ x <= p + m - 1
  BY <1>1, <1>2, <1>3, <1>4, <1>5 DEF Prefix
<1>7. ~Long(p)
  <2>1. p % m = 0
    BY <1>2, <1>5, MultipleIsWhole
  <2> QED BY <1>1, <2>1 DEF Long
<1>8. p + m <= NoEnd
  <2>1. Bytes \in Nat
    BY EnumAssumption DEF Bytes
  <2>2. NoEnd = Bytes * m
    BY <1>1 DEF NoEnd
  <2>3. m * k < Bytes * m
    BY <1>2, <1>5, <1>6, <2>2
  <2> QED BY <1>2, <1>5, <2>1, <2>2, <2>3, MultipleBelow
<1>9. ~Long(x) => p = x
  BY <1>1, <1>2, <1>6 DEF Long, Prefix
<1>10. p \in Instr /\ p + Base \in Instr
  BY <1>1, <1>2, <1>6, <1>8, InstrFacts
<1> QED BY <1>1, <1>2, <1>4, <1>5, <1>6, <1>7, <1>9, <1>10

(* The members of the group of a single byte have it as their prefix. *)
LEMMA GroupFacts ==
    ASSUME space \in Spaces, NEW x \in Instr, ~Long(x), NEW y \in Group(x)
    PROVE  y \in Instr /\ Prefix(y) = x /\ x <= y /\ y <= x + Base /\ (y # x => Long(y))
<1>1. Prefix(x) = x /\ x \in Nat /\ Base \in Nat /\ x + Base \in Instr /\ NoEnd \in Nat
  BY PrefixFacts, InstrFacts
<1>2. y \in Int /\ x <= y /\ y <= x + Base
  BY <1>1 DEF Group
<1>3. y \in Instr
  BY <1>1, <1>2, InstrFacts
<1>4. PICK k \in Nat : x = (Base + 1) * k
  BY Zenon, <1>1, PrefixFacts
<1>5. PICK l \in Nat : Prefix(y) = (Base + 1) * l
  BY <1>3, PrefixFacts
<1>6. Prefix(y) <= y /\ y <= Prefix(y) + Base
  BY <1>3, PrefixFacts
<1>7. k = l
  <2>1. PICK m : m = Base + 1
    OBVIOUS
  <2>2. m \in Nat \ {0} /\ m * k <= y /\ y <= m * k + m - 1
    BY <1>1, <1>2, <1>4, <2>1
  <2>3. m * l <= y /\ y <= m * l + m - 1
    <3>1. m * l \in Int
      BY <2>2
    <3> QED BY <1>1, <1>2, <1>5, <1>6, <2>1, <3>1
  <2> QED BY <1>2, <2>2, <2>3, SameMultiple
<1>8. Prefix(y) = x
  BY <1>4, <1>5, <1>7
<1>9. ~Long(y) => y = x
  BY <1>3, <1>8, PrefixFacts
<1> QED BY <1>2, <1>3, <1>8, <1>9

(* next_unfiltered_instruction: the first free instruction from x on. *)
LEMMA FirstFreeIs ==
    ASSUME space \in Spaces, NEW free \in SUBSET Instr, NEW x \in Int, NEW end \in Nat
    PROVE  /\ \/ FirstFree(free, x, end) = None
              \/ FirstFree(free, x, end) \in free /\ FirstFree(free, x, end) <= end
           /\ x \in free /\ x <= end => FirstFree(free, x, end) = x
           /\ \A z \in free : x <= z /\ z <= end => FirstFree(free, x, end) \in free /\ FirstFree(free, x, end) <= z
<1>1. PICK some : some = {y \in free : x <= y /\ y <= end}
  BY Zenon
<1>2. some \in SUBSET Nat /\ some \subseteq free /\ \A y \in some : x <= y /\ y <= end
  BY <1>1, InstrFacts
<1>3. FirstFree(free, x, end) = IF some = {} THEN None ELSE First(some)
  BY <1>1 DEF FirstFree
<1>4. CASE some = {}
  BY <1>1, <1>3, <1>4
<1>5. CASE some # {}
  <2>1. First(some) \in some /\ \A j \in some : First(some) <= j
    BY <1>2, <1>5, FirstIsLeast
  <2>2. PICK m : m = First(some)
    OBVIOUS
  <2>3. m \in free /\ m <= end /\ x <= m /\ m \in Nat
    BY Zenon, <1>2, <2>1, <2>2
  <2>4. x \in free /\ x <= end => m = x
    BY <1>1, <1>2, <2>1, <2>2, <2>3
  <2>5. \A z \in free : x <= z /\ z <= end => m <= z
    BY <1>1, <2>1, <2>2
  <2> QED BY <1>3, <1>5, <2>2, <2>3, <2>4, <2>5
<1> QED BY <1>4, <1>5

(* An item whose counter moves to a free instruction, or that is done. *)
LEMMA MovedFits ==
    ASSUME space \in Spaces, NEW w \in Item, w.next \in Ok \cup {None},
           NEW free \in SUBSET Instr, NEW x \in Int,
           NEW m, m = Moved(w, FirstFree(free, x, w.to))
    PROVE  m \in Items /\ m.next = w.next /\ m.to = w.to /\ (m.counter = w.counter \/ m.counter \in Instr)
<1>1. PICK y : y = FirstFree(free, x, w.to)
  OBVIOUS
<1>2. w.to \in Nat
  BY DEF Item
<1>3. y = None \/ (y \in Instr /\ y \in Int /\ y <= w.to)
  BY <1>1, <1>2, FirstFreeIs, InstrFacts
<1>4. CASE y = None
  <2>1. m = [w EXCEPT !.done = TRUE]
    BY <1>1, <1>4 DEF Moved
  <2> QED BY Zenon, <2>1 DEF Item, Items
<1>5. CASE y # None
  <2>1. m = [w EXCEPT !.counter = y, !.done = FALSE]
    BY <1>1, <1>5 DEF Moved
  <2> QED BY Zenon, <1>3, <1>5, <2>1 DEF Item, Items
<1> QED BY <1>4, <1>5

(* apply_filters leaves an item that is done, or that is at an instruction. *)
LEMMA AppliedFits ==
    ASSUME space \in Spaces, NEW w \in Items, NEW free \in SUBSET Instr
    PROVE  /\ Applied(w, free) \in Items
           /\ Applied(w, free).counter = w.counter \/ Applied(w, free).counter \in Instr
<1>1. w \in Item /\ w.next \in Ok \cup {None} /\ w.counter \in Int
  BY DEF Items, Item
<1>2. CASE w.done
  BY <1>2 DEF Applied
<1>3. CASE ~w.done
  BY <1>1, <1>3, MovedFits DEF Applied
<1> QED BY <1>2, <1>3

(* No filters move no counter. *)
LEMMA AppliedNothing ==
    ASSUME space \in Spaces, NEW w \in Items, ~w.done
    PROVE  ~Applied(w, Free({})).done /\ Applied(w, Free({})).counter = w.counter
<1>1. w \in Item /\ w.counter \in Instr /\ w.counter <= w.to /\ w.to \in Nat /\ w.counter \in Int
  BY DEF Items, Item
<1>2. Free({}) = Instr
  BY DEF Free
<1>3. FirstFree(Instr, w.counter, w.to) = w.counter /\ w.counter # None
  BY <1>1, FirstFreeIs, InstrFacts
<1>4. Applied(w, Free({})) = [w EXCEPT !.counter = w.counter, !.done = FALSE]
  BY Zenon, <1>2, <1>3 DEF Applied, Moved
<1> QED BY Zenon, <1>1, <1>4 DEF Item

-----------------------------------------------------------------------------
(* Results *)
ResultSet(res) ==
    /\ res.kind \in {"ok", "short", "long", "skip", "error"}
    /\ res.kind = "ok" => res.best \in Ok \cup {None} /\ res.filters \subseteq Int
    /\ res.kind = "skip" => res.counter \in Int /\ res.done \in BOOLEAN

(* Every result of an analysis is of this form. *)
LEMMA ResultTypes ==
    ASSUME space \in Spaces, truth \in Truths,
           NEW r \in RequestSet, NEW res \in Results(r)
    PROVE  ResultSet(res)
<1>0. r.instr \in Instr /\ r.instr \in Int /\ r.end \in Nat /\ r.next_filtered \in Nat /\ NoEnd \in Nat
  BY InstrFacts DEF RequestSet
<1>1. truth[r.instr] \in {"ok", "invalid", "error", "memory", "short", "long"}
  <2>1. Kinds \subseteq {"ok", "invalid", "error", "memory"}
    BY EnumAssumption DEF Kinds
  <2> QED BY Zenon, <1>0, <2>1 DEF Truths
<1>2. CASE truth[r.instr] = "ok"
  <2>1. PICK S \in {T \cup {r.instr} : T \in Covers({x \in Ok : Long(x) = Long(r.instr)} \ {r.instr})} :
              res \in {[kind |-> "ok", best |-> b, filters |-> UNION {Covered(x) : x \in S}] : b \in (S \cap Bests) \cup {None}}
    BY <1>2 DEF Results
  <2>2. S \subseteq Ok
    BY <1>0, <1>2, <2>1 DEF Covers, Ok, Exact
  <2>3. PICK b \in (S \cap Bests) \cup {None} : res = [kind |-> "ok", best |-> b, filters |-> UNION {Covered(x) : x \in S}]
    BY <2>1
  <2>4. \A x \in S : Covered(x) \subseteq Int
    BY <2>2, OkIsInstr, InstrFacts DEF Covered, Group
  <2>5. UNION {Covered(x) : x \in S} \subseteq Int
    BY <2>4
  <2>6. res.kind = "ok" /\ res.best = b /\ res.filters = UNION {Covered(x) : x \in S}
    BY <2>3
  <2> QED BY <2>2, <2>5, <2>6 DEF ResultSet
<1>3. CASE truth[r.instr] = "invalid"
  <2>1. res = SkipInvalid(r)
    BY <1>3 DEF Results
  <2>2. PICK next : next = {x \in Valid : x > r.instr}
    BY Zenon
  <2>3. next # {} => First(next) \in Int
    <3>1. next \in SUBSET Nat
      BY <2>2, InstrFacts DEF Valid, Exact
    <3>2. PICK least : least = First(next)
      OBVIOUS
    <3>3. next # {} => least \in Nat
      BY Zenon, <3>1, <3>2, FirstIsLeast
    <3> QED BY <3>2, <3>3
  <2>4. MinEnd(r.next_filtered, r.end) \in Int
    BY <1>0 DEF MinEnd
  <2>5. res.kind = "skip" /\ res.done \in BOOLEAN /\ res.counter \in Int
    BY <1>0, <2>1, <2>2, <2>3, <2>4 DEF SkipInvalid
  <2> QED BY <2>5 DEF ResultSet
<1>4. CASE truth[r.instr] = "memory"
  <2>1. res = SkipMemoryErrors(r)
    BY <1>4 DEF Results
  <2>2. PICK next : next = {x \in Exact : x > r.instr /\ x <= r.end /\ truth[x] # "memory"}
    BY Zenon
  <2>3. next # {} => First(next) \in Int
    <3>1. next \in SUBSET Nat
      BY <2>2, InstrFacts DEF Exact
    <3>2. PICK least : least = First(next)
      OBVIOUS
    <3>3. next # {} => least \in Nat
      BY Zenon, <3>1, <3>2, FirstIsLeast
    <3> QED BY <3>2, <3>3
  <2>4. MinEnd(r.end + 1, NoEnd) \in Int
    BY <1>0 DEF MinEnd
  <2>5. res.kind = "skip" /\ res.done \in BOOLEAN /\ res.counter \in Int
    BY <2>1, <2>2, <2>3, <2>4 DEF SkipMemoryErrors
  <2> QED BY <2>5 DEF ResultSet
<1>5. CASE truth[r.instr] \in {"error", "short", "long"}
  <2>1. res = [kind |-> truth[r.instr]]
    BY <1>5 DEF Results
  <2> QED BY <1>5, <2>1 DEF ResultSet
<1> QED BY <1>1, <1>2, <1>3, <1>4, <1>5

(* complete of an item leaves it done, or at an instruction before its end. *)
LEMMA ItemCompleteFits ==
    ASSUME space \in Spaces, NEW w0 \in Items, w0.counter \in Instr, NEW r \in RequestSet,
           NEW F \in SUBSET Int, NEW res, ResultSet(res)
    PROVE  ItemComplete(w0, r, F, res) \in Items
<1>1. PICK w : w = [w0 EXCEPT !.last = MinEnd(@ + 1, GuessAfter), !.next = IF w0.next = r.instr THEN None ELSE @]
  OBVIOUS
<1>2. w \in Items /\ w.counter \in Instr /\ w.counter \in Int
  <2>1. MinEnd(w0.last + 1, GuessAfter) \in Nat
    BY EnumAssumption DEF Items, Item, MinEnd
  <2> QED BY Zenon, <1>1, <2>1, InstrFacts DEF Items, Item
<1>3. w \in Item /\ w.next \in Ok \cup {None} /\ w.to \in Nat
  BY <1>2 DEF Items, Item
<1>4. Free(F) \in SUBSET Instr
  BY DEF Free
<1>5. CASE res.kind = "ok"
  <2>1. PICK m : m = Moved(w, FirstFree(Free(F), w.counter, w.to))
    OBVIOUS
  <2>2. m \in Items
    BY <1>2, <1>3, <1>4, <2>1, MovedFits
  <2>3. \/ ItemComplete(w0, r, F, res) = [m EXCEPT !.next = res.best]
        \/ ItemComplete(w0, r, F, res) = [m EXCEPT !.next = m.next]
    BY <1>1, <1>5, <2>1 DEF ItemComplete
  <2>4. res.best \in Ok \cup {None}
    BY <1>5 DEF ResultSet
  <2> QED BY <2>2, <2>3, <2>4, OkIsInstr, InstrFacts DEF Items, Item
<1>6. CASE res.kind = "short"
  <2>1. PICK was_next \in BOOLEAN : ItemComplete(w0, r, F, res) = IF was_next THEN w ELSE Extend(w, F)
    BY Zenon, <1>1, <1>6 DEF ItemComplete
  <2>2. Extend(w, F) \in Items
    <3>1. PICK x \in Int : Extend(w, F) = Moved(w, FirstFree(Free(F), x, w.to))
      BY <1>2 DEF Extend
    <3> QED BY <1>3, <1>4, <3>1, MovedFits
  <2> QED BY <1>2, <2>1, <2>2
<1>7. CASE res.kind = "long"
  <2>1. PICK was_next \in BOOLEAN : ItemComplete(w0, r, F, res) = IF was_next THEN w ELSE Reduce(w, F)
    BY Zenon, <1>1, <1>7 DEF ItemComplete
  <2>2. Reduce(w, F) \in Items
    <3>1. Prefix(w.counter) \in Instr /\ Prefix(w.counter) \in Int
      BY <1>2, PrefixFacts, InstrFacts
    <3>2. Free(F) \cup ({Prefix(w.counter)} \ F) \in SUBSET Instr
      BY <1>4, <3>1
    <3> QED BY Zenon, <1>3, <3>1, <3>2, MovedFits DEF Reduce
  <2> QED BY <1>2, <2>1, <2>2
<1>8. CASE res.kind = "skip"
  <2>1. PICK to : to = IF res.end = w.to THEN [w EXCEPT !.counter = res.counter, !.errors = 0] ELSE [w EXCEPT !.errors = 0]
    BY Zenon
  <2>2. ItemComplete(w0, r, F, res) = [Moved(to, FirstFree(Free(F), to.counter, w.to)) EXCEPT !.done = @ \/ res.done]
    BY <1>1, <1>8, <2>1 DEF ItemComplete
  <2>3. res.counter \in Int /\ res.done \in BOOLEAN
    BY <1>8 DEF ResultSet
  <2>4. to \in Item /\ to.next = w.next /\ to.to = w.to /\ to.counter \in Int
    BY Zenon, <1>2, <1>3, <2>1, <2>3 DEF Item
  <2>5. PICK m : m = Moved(to, FirstFree(Free(F), to.counter, to.to))
    OBVIOUS
  <2>6. m \in Items
    BY Zenon, <1>3, <1>4, <2>4, <2>5, MovedFits
  <2> QED BY <2>2, <2>3, <2>4, <2>5, <2>6 DEF Items, Item
<1>9. CASE res.kind = "error"
  <2>1. PICK e : e = [w EXCEPT !.errors = MinEnd(@ + 1, ErrorLimit)]
    BY Zenon
  <2>2. ItemComplete(w0, r, F, res) = IF e.next # None THEN [e EXCEPT !.next = None]
                    ELSE IF e.errors >= ErrorLimit
                         THEN Moved(e, FirstFree(Instr, Tunnel(e.counter), e.to))
                         ELSE TunnelNext(e, F)
    BY <1>1, <1>9, <2>1 DEF ItemComplete
  <2>3. MinEnd(w.errors + 1, ErrorLimit) \in Nat
    BY <1>3, EnumAssumption DEF Item, MinEnd
  <2>4. e \in Items /\ e.counter = w.counter /\ e.next = w.next
    BY <1>2, <1>3, <2>1, <2>3 DEF Items, Item
  <2>5. e \in Item /\ Tunnel(e.counter) \in Int
    BY <1>2, <2>4, InstrFacts DEF Items, Tunnel
  <2>6. CASE e.next # None
    <3>1. ItemComplete(w0, r, F, res) = [e EXCEPT !.next = None]
      BY <2>2, <2>6
    <3> QED BY <2>4, <3>1, InstrFacts DEF Items, Item
  <2>7. CASE e.next = None
    <3>1. Moved(e, FirstFree(Instr, Tunnel(e.counter), e.to)) \in Items
      BY <2>5, <2>7, MovedFits
    <3>2. TunnelNext(e, F) \in Items
      BY <1>4, <2>5, <2>7, MovedFits DEF TunnelNext
    <3> QED BY <2>2, <2>7, <3>1, <3>2
  <2> QED BY <2>6, <2>7
<1> QED BY <1>5, <1>6, <1>7, <1>8, <1>9 DEF ResultSet

-----------------------------------------------------------------------------
(* complete *)
LEMMA CompletedWork ==
    ASSUME TypeInv, RequestInv, NEW i \in DOMAIN work, request[i] # NoRequest,
           NEW res \in Results(request[i]), NEW long, NEW moved, NEW c, c = Completed(i, res, long, moved)
    PROVE  /\ c.work \in Seq(Items) /\ Len(c.work) = Len(work) /\ c.filters \subseteq Int
           /\ \A j \in DOMAIN work : j # i => c.work[j].counter = work[j].counter \/ c.work[j].counter \in Instr
<1>1. /\ space \in Spaces /\ request[i] \in RequestSet /\ ResultSet(res) /\ work[i] \in Items /\ work[i].counter \in Instr
      /\ \A j \in DOMAIN work : work[j] \in Items
      /\ DOMAIN work = 1 .. Len(work) /\ Len(work) \in Nat
  <2>1. /\ space \in Spaces /\ request[i] \in RequestSet /\ work[i].counter \in Instr
        /\ \A j \in DOMAIN work : work[j] \in Items
        /\ DOMAIN work = 1 .. Len(work) /\ Len(work) \in Nat
    BY DEF TypeInv, RequestInv
  <2>2. ResultSet(res)
    BY <2>1, ResultTypes DEF TypeInv
  <2> QED BY <2>1, <2>2
<1>2. PICK F : F = filters \cup NewFilters(res)
  BY Zenon
<1>3. F \in SUBSET Int
  BY Zenon, <1>1, <1>2 DEF TypeInv, NewFilters, ResultSet
<1>4. PICK free : free = Free(F)
  OBVIOUS
<1>5. PICK fresh : fresh = Free(NewFilters(res))
  OBVIOUS
<1>6. free \in SUBSET Instr /\ fresh \in SUBSET Instr
  BY <1>4, <1>5 DEF Free
<1>7. PICK wi : wi = Applied(work[i], free)
  OBVIOUS
<1>8. wi \in Items /\ wi.counter \in Instr
  BY <1>1, <1>6, <1>7, AppliedFits
<1>9. PICK done : done = ItemComplete(wi, request[i], F, res)
  OBVIOUS
<1>10. done \in Items
  BY <1>1, <1>3, <1>8, <1>9, ItemCompleteFits
<1>11. PICK new \in [DOMAIN work -> Items] :
          /\ \A j \in DOMAIN work : new[j].counter = work[j].counter \/ new[j].counter \in Instr
          /\ \E hits : c.work = [j \in DOMAIN work |-> IF j = i THEN done ELSE IF j \in hits THEN Applied(new[j], free) ELSE new[j]]
  <2>1. PICK held : held = Held(IF NewFilters(res) # {} \/ wi.done \/ long THEN [unstall EXCEPT ![i] = Remaining(@, wi.done)] ELSE unstall, i,
                                NewFilters(res) # {} \/ wi.done \/ long)
    OBVIOUS
  <2>2. PICK new : new = [j \in DOMAIN work |-> IF held THEN work[j] ELSE Applied(work[j], fresh)]
    BY Zenon
  <2>3. PICK hits : hits = {j \in DOMAIN work \ {i} : /\ ~held /\ ~work[j].done
                                            /\ IF new[j].done THEN j \in moved ELSE new[j].counter # work[j].counter}
    BY Zenon
  <2>4. c.work = [j \in DOMAIN work |-> IF j = i THEN done ELSE IF j \in hits THEN Applied(new[j], free) ELSE new[j]]
    BY Zenon, <1>2, <1>4, <1>5, <1>7, <1>9, <2>1, <2>2, <2>3 DEF Completed
  <2>5. \A j \in DOMAIN work : new[j] \in Items /\ (new[j].counter = work[j].counter \/ new[j].counter \in Instr)
    BY <1>1, <1>6, <2>2, AppliedFits
  <2>6. new \in [DOMAIN work -> Items]
    BY <2>2, <2>5
  <2> QED BY Zenon, <2>4, <2>5, <2>6
<1>12. \A j \in DOMAIN work : Applied(new[j], free) \in Items
            /\ (Applied(new[j], free).counter = new[j].counter \/ Applied(new[j], free).counter \in Instr)
  BY <1>1, <1>6, <1>11, AppliedFits
<1>13. c.work \in [DOMAIN work -> Items]
  BY <1>10, <1>11, <1>12
<1>14. c.work \in Seq(Items) /\ Len(c.work) = Len(work)
  BY <1>1, <1>13
<1>15. c.filters = F
  BY Zenon, <1>2 DEF Completed
<1> QED BY <1>3, <1>11, <1>12, <1>14, <1>15

(* A function from some items to counts is a map of stalls. *)
LEMMA StallMapsAre ==
    ASSUME NEW s, NEW D \in SUBSET Nat, s \in [D -> Nat]
    PROVE  s \in StallMaps
BY DEF StallMaps

(* Completing item i makes no chain: an item that i now stalls has let go  *)
(* of those it stalled itself, and nobody that is stalled gets to stall.   *)
LEMMA CompletedStalls ==
    ASSUME TypeInv, StallInv, NoStallChains, NEW i \in DOMAIN work,
           NEW res \in Results(request[i]), NEW long \in BOOLEAN, NEW moved \in SUBSET EndedBy(i, res),
           NEW c, c = Completed(i, res, long, moved)
    PROVE  /\ c.unstall \in Seq(StallMaps) /\ Len(c.unstall) = Len(work)
           /\ \A a \in DOMAIN work : DOMAIN c.unstall[a] \subseteq DOMAIN work
           /\ \A a \in DOMAIN work : \A b \in DOMAIN c.unstall[a] : DOMAIN c.unstall[b] = {}
<1>1. /\ space \in Spaces /\ DOMAIN work = 1 .. Len(work) /\ Len(work) \in Nat /\ DOMAIN unstall = DOMAIN work
      /\ \A j \in DOMAIN work : work[j] \in Items /\ unstall[j] \in StallMaps
  BY DEF TypeInv
<1>2. PICK wi : wi = Applied(work[i], Free(filters \cup NewFilters(res)))
  OBVIOUS
<1>3. PICK count \in BOOLEAN : count = (NewFilters(res) # {} \/ wi.done \/ long)
  BY Zenon
<1>4. PICK un : un = IF count THEN [unstall EXCEPT ![i] = Remaining(@, wi.done)] ELSE unstall
  BY Zenon
<1>5. PICK held : held = Held(un, i, count)
  OBVIOUS
<1>6. PICK new : new = [j \in DOMAIN work |-> IF held THEN work[j] ELSE Applied(work[j], Free(NewFilters(res)))]
  BY Zenon
<1>7. PICK hits : hits = {j \in DOMAIN work \ {i} : /\ ~held /\ ~work[j].done
                                            /\ IF new[j].done THEN j \in moved ELSE new[j].counter # work[j].counter}
  BY Zenon
<1>8. PICK ended : ended = {j \in hits : Applied(new[j], Free(filters \cup NewFilters(res))).done}
  BY Zenon
<1>9. PICK stall : stall = {j \in hits \ ended : i \notin DOMAIN un[j] /\ ~wi.done}
  BY Zenon
<1>10. PICK left : left = Drained(un, stall, ended)
  OBVIOUS
<1>11. c.unstall = [left EXCEPT ![i] = Stalls(@, stall)]
  BY Zenon, <1>2, <1>3, <1>4, <1>5, <1>6, <1>7, <1>8, <1>9, <1>10 DEF Completed
<1>12. stall \subseteq DOMAIN work /\ i \notin stall /\ i \notin ended /\ (held => stall = {})
  BY <1>7, <1>8, <1>9
<1>13. /\ DOMAIN un = DOMAIN work
       /\ \A j \in DOMAIN work : un[j] \in StallMaps /\ DOMAIN un[j] \subseteq DOMAIN unstall[j]
  <2>1. Remaining(unstall[i], wi.done) \in StallMaps /\ DOMAIN Remaining(unstall[i], wi.done) \subseteq DOMAIN unstall[i]
    <3>1. PICK kept : kept = {j \in DOMAIN unstall[i] : unstall[i][j] > 0 /\ ~wi.done}
      BY Zenon
    <3>2. Remaining(unstall[i], wi.done) = [j \in kept |-> unstall[i][j] - 1]
      BY <3>1 DEF Remaining
    <3>3. PICK D \in SUBSET Nat : unstall[i] \in [D -> Nat]
      BY <1>1 DEF StallMaps
    <3>4. kept \in SUBSET Nat /\ \A j \in kept : unstall[i][j] - 1 \in Nat
      <4>1. kept \subseteq D /\ \A j \in kept : unstall[i][j] > 0
        BY <3>1, <3>3
      <4>2. \A j \in D : unstall[i][j] \in Nat
        BY <3>3
      <4> QED BY <4>1, <4>2
    <3>5. [j \in kept |-> unstall[i][j] - 1] \in [kept -> Nat]
      BY <3>4
    <3>6. Remaining(unstall[i], wi.done) \in StallMaps
      BY <3>2, <3>4, <3>5, StallMapsAre
    <3> QED BY <3>1, <3>2, <3>6
  <2> QED BY <1>1, <1>4, <2>1
<1>14. /\ left \in [DOMAIN work -> StallMaps] /\ left[i] = un[i]
       /\ \A j \in DOMAIN work : left[j] \in StallMaps /\ DOMAIN left[j] \subseteq DOMAIN un[j]
       /\ \A j \in stall : DOMAIN left[j] = {}
  <2>1. << >> \in StallMaps /\ DOMAIN << >> = {}
    <3>1. << >> \in [{} -> Nat]
      OBVIOUS
    <3> QED BY Zenon, <3>1, StallMapsAre
  <2>2. left = [j \in DOMAIN work |-> IF j \in stall \cup ended THEN << >> ELSE un[j]]
    BY <1>10, <1>13 DEF Drained
  <2> QED BY <1>12, <1>13, <2>1, <2>2
<1>15. PICK mine : mine = Stalls(un[i], stall)
  OBVIOUS
<1>16. mine \in StallMaps /\ DOMAIN mine = DOMAIN un[i] \cup stall
  <2>1. PICK D \in SUBSET Nat : un[i] \in [D -> Nat]
    BY <1>13 DEF StallMaps
  <2>2. DOMAIN un[i] = D /\ D \cup stall \in SUBSET Nat
    <3>1. DOMAIN un[i] = D
      BY <2>1
    <3>2. stall \in SUBSET Nat
      BY <1>1, <1>12
    <3> QED BY <3>1, <3>2
  <2>3. mine \in [D \cup stall -> Nat]
    BY <1>15, <2>1, <2>2, EnumAssumption DEF Stalls
  <2> QED BY <2>2, <2>3, StallMapsAre
<1>17. /\ c.unstall \in [DOMAIN work -> StallMaps] /\ c.unstall[i] = mine
       /\ \A j \in DOMAIN work : j # i => c.unstall[j] = left[j]
  BY <1>11, <1>14, <1>15, <1>16
<1>18. c.unstall \in Seq(StallMaps) /\ Len(c.unstall) = Len(work)
  BY <1>1, <1>17
<1>19. \A a \in DOMAIN work : DOMAIN c.unstall[a] \subseteq DOMAIN work
  BY <1>12, <1>13, <1>14, <1>16, <1>17 DEF StallInv
(* An item that some other item still stalls adds no stalls. *)
<1>20. ASSUME NEW a \in DOMAIN work, i \in DOMAIN un[a]
       PROVE  stall = {}
  <2>1. Listed(un, i)
    BY <1>13, <1>20 DEF Listed
  <2>2. CASE count
    BY Zenon, <1>5, <1>12, <2>1, <2>2 DEF Held
  <2>3. CASE ~count
    <3>1. NewFilters(res) = {}
      BY Zenon, <1>3, <2>3
    <3>2. \A j \in DOMAIN work : ~work[j].done => ~Applied(work[j], Free(NewFilters(res))).done
                                       /\ Applied(work[j], Free(NewFilters(res))).counter = work[j].counter
      BY <1>1, <3>1, AppliedNothing
    <3> QED BY <1>6, <1>7, <1>9, <3>2
  <2> QED BY <2>2, <2>3
<1>21. ASSUME NEW a \in DOMAIN work, NEW b \in DOMAIN c.unstall[a]
       PROVE  DOMAIN c.unstall[b] = {}
  <2>1. b \in DOMAIN work
    BY <1>19, <1>21
  <2>2. CASE a = i /\ b \in stall
    BY <1>12, <1>14, <1>17, <2>1, <2>2
  <2>3. CASE b \in DOMAIN un[a]
    <3>1. DOMAIN un[b] = {}
      BY <1>13, <2>1, <2>3 DEF NoStallChains
    <3>2. CASE b # i
      BY <1>14, <1>17, <2>1, <3>1, <3>2
    <3>3. CASE b = i
      BY <1>16, <1>17, <1>20, <2>3, <3>1, <3>3
    <3> QED BY <3>2, <3>3
  <2>4. b \in DOMAIN un[a] \/ (a = i /\ b \in stall)
    BY <1>14, <1>16, <1>17, <1>21
  <2> QED BY <2>2, <2>3, <2>4
<1> QED BY <1>18, <1>19, <1>21

-----------------------------------------------------------------------------
(* What depends on the space and on the truth alone stays. *)
LEMMA SameSpace ==
    ASSUME space' = space, truth' = truth
    PROVE  /\ Instr' = Instr /\ NoRequest' = NoRequest /\ Truths' = Truths /\ Valid' = Valid /\ Ok' = Ok
           /\ Items' = Items /\ RequestSet' = RequestSet
<1>1. NoEnd' = NoEnd /\ Kinds' = Kinds
  BY DEF NoEnd, Bytes, Base, Kinds
<1>2. Instr' = Instr /\ None' = None
  BY <1>1 DEF Instr, None
<1>3. Valid' = Valid /\ Ok' = Ok
  BY <1>2 DEF Valid, Ok, Exact
<1>4. Truths' = Truths
  BY <1>1, <1>2 DEF Truths, Long, Group, Prefix, Base
<1> QED BY <1>2, <1>3, <1>4 DEF NoRequest, Items, RequestSet

(* An item that starts anew. *)
LEMMA NewItemFits ==
    ASSUME space \in Spaces, NEW from \in Instr, NEW to \in Nat, from <= to
    PROVE  NewItem(from, to) \in Items
BY InstrFacts DEF NewItem, Items, Item

(* The empty map. *)
LEMMA EmptyStalls == << >> \in StallMaps /\ DOMAIN << >> = {}
<1>1. << >> \in [{} -> Nat]
  OBVIOUS
<1> QED BY Zenon, <1>1, StallMapsAre

(* Items that start anew stall nobody. *)
LEMMA FreshInv ==
    ASSUME NEW w \in Seq(Items), NEW un, NEW rq, un = [i \in DOMAIN w |-> << >>], rq = [i \in DOMAIN w |-> NoRequest]
    PROVE  /\ un \in Seq(StallMaps) /\ Len(un) = Len(w) /\ rq \in Seq(RequestSet \cup {NoRequest}) /\ Len(rq) = Len(w)
           /\ \A i \in DOMAIN w : DOMAIN un[i] = {} /\ rq[i] = NoRequest
<1>1. Len(w) \in Nat /\ DOMAIN w = 1 .. Len(w)
  OBVIOUS
<1>2. un \in [1 .. Len(w) -> StallMaps] /\ rq \in [1 .. Len(w) -> RequestSet \cup {NoRequest}]
  BY <1>1, EmptyStalls
<1>3. \A i \in DOMAIN w : un[i] = << >> /\ rq[i] = NoRequest
  OBVIOUS
<1> QED BY <1>1, <1>2, <1>3, EmptyStalls

(* The items of the initial state end where the next one starts. *)
LEMMA InitInv == RunInit => IInv
<1> SUFFICES ASSUME RunInit PROVE IInv
  OBVIOUS
<1>1. space \in Spaces /\ truth \in Truths /\ filters = {}
  BY DEF RunInit, Init, Truths
<1>2. work \in Seq(Items)
  <2>1. PICK starts \in space.starts : work = [i \in DOMAIN starts |-> NewItem(starts[i], IF i = Len(starts) THEN NoEnd ELSE starts[i + 1])]
    BY DEF RunInit, Init
  <2>2. starts \in Seq(Instr) /\ \A i \in 1 .. Len(starts) - 1 : starts[i] <= starts[i + 1]
    BY <1>1, EnumAssumption DEF Instr, NoEnd, Bytes, Base
  <2>3. ASSUME NEW i \in DOMAIN starts
        PROVE  work[i] \in Items
    <3>1. PICK to : to = IF i = Len(starts) THEN NoEnd ELSE starts[i + 1]
      OBVIOUS
    <3>2. starts[i] \in Instr /\ to \in Nat /\ starts[i] <= to
      <4>1. Len(starts) \in Nat /\ i \in 1 .. Len(starts) /\ \A j \in 1 .. Len(starts) : starts[j] \in Instr
        BY <2>2
      <4>2. CASE i = Len(starts)
        BY <1>1, <3>1, <4>1, <4>2, InstrFacts
      <4>3. CASE i # Len(starts)
        <5>1. i \in 1 .. Len(starts) - 1 /\ i + 1 \in 1 .. Len(starts)
          BY <4>1, <4>3
        <5> QED BY <1>1, <2>2, <3>1, <4>1, <4>3, <5>1, InstrFacts
      <4> QED BY <4>2, <4>3
    <3> QED BY <1>1, <2>1, <3>1, <3>2, NewItemFits
  <2>4. Len(starts) \in Nat /\ DOMAIN starts = 1 .. Len(starts)
    BY <2>2
  <2>5. work \in [1 .. Len(starts) -> Items]
    BY <2>1, <2>3, <2>4
  <2> QED BY <2>4, <2>5
<1>3. saved.work = work /\ saved.filters = filters
  BY DEF RunInit, Snapshot
<1>4. unstall = [i \in DOMAIN work |-> << >>] /\ request = [i \in DOMAIN work |-> NoRequest]
  BY DEF RunInit, Init
<1>5. /\ unstall \in Seq(StallMaps) /\ Len(unstall) = Len(work)
      /\ request \in Seq(RequestSet \cup {NoRequest}) /\ Len(request) = Len(work)
      /\ \A i \in DOMAIN work : DOMAIN unstall[i] = {} /\ request[i] = NoRequest
  BY <1>2, <1>4, FreshInv
<1> QED BY <1>1, <1>2, <1>3, <1>5 DEF IInv, TypeInv, RequestInv, StallInv, NoStallChains

(* The refresh of the stalls in next only ends stalls. *)
LEMMA RefreshInv ==
    ASSUME IInv, Refresh, UNCHANGED <<space, truth, work, filters, saved>>
    PROVE  /\ unstall' \in Seq(StallMaps) /\ Len(unstall') = Len(work)
           /\ StallInv' /\ NoStallChains'
<1>1. /\ Len(work) \in Nat /\ DOMAIN work = 1 .. Len(work) /\ DOMAIN unstall = DOMAIN work
      /\ \A i \in DOMAIN work : unstall[i] \in StallMaps
  BY DEF IInv, TypeInv
<1>2. CASE unstall' = unstall
  BY <1>2 DEF IInv, TypeInv, StallInv, NoStallChains
<1>3. CASE unstall' = RefreshedUnstall
  <2>1. /\ unstall' \in [1 .. Len(work) -> StallMaps]
        /\ \A i \in DOMAIN work : DOMAIN unstall'[i] \subseteq DOMAIN unstall[i]
    <3>1. unstall' = [i \in DOMAIN work |-> IF work[i].done THEN << >> ELSE unstall[i]]
      BY <1>3 DEF RefreshedUnstall
    <3> QED BY <1>1, <3>1, EmptyStalls
  <2>2. unstall' \in Seq(StallMaps) /\ Len(unstall') = Len(work)
    BY <1>1, <2>1
  <2>3. StallInv'
    BY <2>1 DEF IInv, StallInv
  <2>4. NoStallChains'
    BY <2>1 DEF IInv, StallInv, NoStallChains
  <2> QED BY <2>2, <2>3, <2>4
<1> QED BY <1>2, <1>3 DEF Refresh

(* next of an item. *)
LEMMA TakeNextInv ==
    ASSUME IInv, NEW i \in DOMAIN work, TakeNext(i), UNCHANGED <<saved, restarts>>
    PROVE  IInv'
<1>1. space' = space /\ UNCHANGED <<truth, work, filters, saved>> /\ Refresh /\ ~work[i].done
  BY DEF TakeNext, CanRun
<1>2. unstall' \in Seq(StallMaps) /\ Len(unstall') = Len(work) /\ StallInv' /\ NoStallChains'
  BY <1>1, RefreshInv
<1>3. PICK r \in Requests(work[i]) :
          request' = [request EXCEPT ![i] = [instr |-> r.instr, end |-> r.end, next_filtered |-> NextFiltered(r.instr)]]
  BY Zenon DEF TakeNext
<1>4. space \in Spaces /\ work[i] \in Items /\ work[i].counter \in Instr /\ filters \subseteq Int
  BY <1>1 DEF IInv, TypeInv, Items
<1>5. r.instr \in Instr /\ r.end \in Nat
  <2>1. Guesses \subseteq Instr
    BY <1>4, EnumAssumption DEF Instr, NoEnd, Bytes, Base
  <2> QED BY <1>4, <2>1, OkIsInstr, InstrFacts DEF Requests, Items, Item
<1>6. NextFiltered(r.instr) \in Nat
  <2>1. PICK after : after = {y \in filters : y >= r.instr}
    BY Zenon
  <2>2. after \in SUBSET Nat
    <3>1. PICK a \in Nat : a = r.instr
      BY <1>4, <1>5, InstrFacts
    <3>2. \A y \in after : y \in Int /\ y >= a
      BY Zenon, <1>4, <2>1, <3>1
    <3> QED BY <3>2
  <2>3. PICK least : least = First(after)
    OBVIOUS
  <2>4. after # {} => least \in Nat
    BY Zenon, <2>2, <2>3, FirstIsLeast
  <2> QED BY <1>4, <2>1, <2>3, <2>4, InstrFacts DEF NextFiltered
<1>7. request' \in Seq(RequestSet \cup {NoRequest}) /\ Len(request') = Len(work) /\ \A j \in DOMAIN work : j # i => request'[j] = request[j]
  <2>1. [instr |-> r.instr, end |-> r.end, next_filtered |-> NextFiltered(r.instr)] \in RequestSet
    BY <1>5, <1>6 DEF RequestSet
  <2>2. request \in Seq(RequestSet \cup {NoRequest}) /\ Len(request) = Len(work) /\ DOMAIN work = 1 .. Len(work) /\ Len(work) \in Nat
    BY DEF IInv, TypeInv
  <2> QED BY <1>3, <2>1, <2>2
<1>8. TypeInv'
  BY <1>1, <1>2, <1>7, SameSpace DEF IInv, TypeInv
<1>9. RequestInv'
  BY <1>1, <1>4, <1>7, SameSpace DEF IInv, RequestInv
<1> QED BY <1>2, <1>8, <1>9 DEF IInv

(* next that finds no item only refreshes the stalls. *)
LEMMA NothingToDoInv ==
    ASSUME IInv, NothingToDo, UNCHANGED <<saved, restarts>>
    PROVE  IInv'
<1>1. space' = space /\ UNCHANGED <<truth, work, filters, saved, request>> /\ Refresh
  BY DEF NothingToDo
<1>2. unstall' \in Seq(StallMaps) /\ Len(unstall') = Len(work) /\ StallInv' /\ NoStallChains'
  BY <1>1, RefreshInv
<1>3. TypeInv'
  BY <1>1, <1>2, SameSpace DEF IInv, TypeInv
<1>4. RequestInv'
  BY <1>1, SameSpace DEF IInv, RequestInv
<1> QED BY <1>2, <1>3, <1>4 DEF IInv

(* complete. *)
LEMMA CompleteInv ==
    ASSUME IInv, NEW i \in DOMAIN work, Complete(i), UNCHANGED <<saved, restarts>>
    PROVE  IInv'
<1>1. space' = space /\ UNCHANGED <<truth, saved>> /\ request[i] # NoRequest /\ request' = [request EXCEPT ![i] = NoRequest]
  BY DEF Complete
<1>2. PICK res \in Results(request[i]) : \E long \in BOOLEAN, moved \in SUBSET EndedBy(i, res) :
        \E c \in {Completed(i, res, long, moved)} : work' = c.work /\ unstall' = c.unstall /\ filters' = c.filters
  BY Zenon DEF Complete
<1>3. PICK long \in BOOLEAN, moved \in SUBSET EndedBy(i, res) :
        \E c \in {Completed(i, res, long, moved)} : work' = c.work /\ unstall' = c.unstall /\ filters' = c.filters
  BY Zenon, <1>2
<1>4. PICK c : c = Completed(i, res, long, moved) /\ work' = c.work /\ unstall' = c.unstall /\ filters' = c.filters
  BY Zenon, <1>3
<1>5. /\ work' \in Seq(Items) /\ Len(work') = Len(work) /\ filters' \subseteq Int
      /\ \A j \in DOMAIN work : j # i => work'[j].counter = work[j].counter \/ work'[j].counter \in Instr
  BY Zenon, <1>1, <1>4, CompletedWork DEF IInv
<1>6. /\ unstall' \in Seq(StallMaps) /\ Len(unstall') = Len(work)
      /\ \A a \in DOMAIN work : DOMAIN unstall'[a] \subseteq DOMAIN work
      /\ \A a \in DOMAIN work : \A b \in DOMAIN unstall'[a] : DOMAIN unstall'[b] = {}
  BY Zenon, <1>4, CompletedStalls DEF IInv
<1>7. DOMAIN work' = DOMAIN work
  BY <1>5 DEF IInv, TypeInv
<1>8. /\ request' \in Seq(RequestSet \cup {NoRequest}) /\ Len(request') = Len(work)
      /\ \A j \in DOMAIN work : request'[j] # NoRequest => j # i /\ request[j] # NoRequest
  <2>1. request \in Seq(RequestSet \cup {NoRequest}) /\ Len(request) = Len(work) /\ DOMAIN work = 1 .. Len(work) /\ Len(work) \in Nat
    BY DEF IInv, TypeInv
  <2> QED BY <1>1, <2>1
<1>9. TypeInv'
  BY <1>1, <1>5, <1>6, <1>8, SameSpace DEF IInv, TypeInv
<1>10. RequestInv'
  BY <1>1, <1>5, <1>7, <1>8, SameSpace DEF IInv, RequestInv
<1>11. StallInv' /\ NoStallChains'
  BY <1>6, <1>7 DEF StallInv, NoStallChains
<1> QED BY <1>9, <1>10, <1>11 DEF IInv

(* Splitting an item appends one that stalls nobody. *)
LEMMA SplitInv ==
    ASSUME IInv, NEW x \in Instr, Split(x), UNCHANGED <<saved, restarts>>
    PROVE  IInv'
<1>1. space' = space /\ UNCHANGED <<truth, saved, filters>>
      /\ unstall' = Append(unstall, << >>) /\ request' = Append(request, NoRequest)
  BY DEF Split
<1>2. PICK i \in DOMAIN work :
          /\ x < work[i].to /\ work[i].counter < x /\ ~work[i].done
          /\ work' = Append([work EXCEPT ![i].to = x], NewItem(x, work[i].to))
  BY Zenon DEF Split
<1>3. PICK n \in Nat : n = Len(work)
  BY DEF IInv, TypeInv
<1>4. /\ space \in Spaces /\ DOMAIN work = 1 .. n /\ work \in Seq(Items) /\ work[i] \in Items
      /\ unstall \in Seq(StallMaps) /\ Len(unstall) = n
      /\ request \in Seq(RequestSet \cup {NoRequest}) /\ Len(request) = n
  BY <1>3 DEF IInv, TypeInv
<1>5. PICK cut : cut = [work[i] EXCEPT !.to = x]
  BY Zenon
<1>6. cut \in Items /\ cut.counter = work[i].counter /\ NewItem(x, work[i].to) \in Items
  <2>1. x \in Nat /\ work[i].to \in Nat /\ x <= work[i].to /\ work[i].counter <= x
    <3>1. work[i].to \in Nat /\ work[i].counter \in Int
      BY <1>4 DEF Items, Item
    <3>2. x \in Nat
      BY <1>4, InstrFacts
    <3> QED BY <1>2, <3>1, <3>2
  <2>2. cut \in Items /\ cut.counter = work[i].counter
    BY Zenon, <1>4, <1>5, <2>1 DEF Items, Item
  <2> QED BY <1>4, <2>1, <2>2, NewItemFits
<1>7. PICK old : old = [work EXCEPT ![i] = cut]
  BY Zenon
<1>8. old \in Seq(Items) /\ Len(old) = n /\ \A j \in 1 .. n : old[j].counter = work[j].counter
  BY <1>3, <1>4, <1>6, <1>7
<1>9. work' = Append(old, NewItem(x, work[i].to))
  BY <1>2, <1>5, <1>7
<1>10. /\ work' \in Seq(Items) /\ Len(work') = n + 1 /\ DOMAIN work' = 1 .. n + 1
       /\ \A j \in 1 .. n : work'[j].counter = work[j].counter
  BY <1>6, <1>8, <1>9
<1>11. /\ unstall' \in Seq(StallMaps) /\ Len(unstall') = n + 1
       /\ \A j \in 1 .. n : unstall'[j] = unstall[j]
       /\ DOMAIN unstall'[n + 1] = {}
  BY <1>1, <1>3, <1>4, EmptyStalls
<1>12. /\ request' \in Seq(RequestSet \cup {NoRequest}) /\ Len(request') = n + 1
       /\ \A j \in 1 .. n : request'[j] = request[j]
       /\ request'[n + 1] = NoRequest
  BY <1>1, <1>3, <1>4
<1>13. TypeInv'
  BY <1>1, <1>10, <1>11, <1>12, SameSpace DEF IInv, TypeInv
<1>14. RequestInv'
  <2>1. \A j \in 1 .. n : request[j] # NoRequest => work[j].counter \in Instr
    BY <1>4 DEF IInv, RequestInv
  <2>2. \A j \in 1 .. n + 1 : request'[j] # NoRequest => work'[j].counter \in Instr
    <3>1. \A j \in 1 .. n + 1 : j = n + 1 \/ j \in 1 .. n
      OBVIOUS
    <3> QED BY <1>10, <1>12, <2>1, <3>1
  <2> QED BY Zenon, <1>1, <1>10, <2>2, SameSpace DEF RequestInv
<1>15. StallInv' /\ NoStallChains'
  <2>1. \A j \in 1 .. n : DOMAIN unstall'[j] \subseteq 1 .. n /\ \A k \in DOMAIN unstall'[j] : DOMAIN unstall'[k] = {}
    BY <1>4, <1>11 DEF IInv, StallInv, NoStallChains
  <2> QED BY <1>10, <1>11, <2>1 DEF StallInv, NoStallChains
<1> QED BY <1>13, <1>14, <1>15 DEF IInv

(* Nothing that a restart loads is stalled or requested. *)
LEMMA RestartInv ==
    ASSUME IInv, Restart
    PROVE  IInv'
<1>1. space' = space /\ UNCHANGED <<truth, saved>> /\ work' = saved.work /\ filters' = saved.filters
      /\ unstall' = [i \in DOMAIN work' |-> << >>] /\ request' = [i \in DOMAIN work' |-> NoRequest]
  BY SameSpace DEF Restart
<1>2. work' \in Seq(Items)
  BY <1>1 DEF IInv, TypeInv
<1>3. /\ unstall' \in Seq(StallMaps) /\ Len(unstall') = Len(work')
      /\ request' \in Seq(RequestSet \cup {NoRequest}) /\ Len(request') = Len(work')
      /\ \A i \in DOMAIN work' : DOMAIN unstall'[i] = {} /\ request'[i] = NoRequest
  BY <1>1, <1>2, FreshInv
<1>4. TypeInv'
  BY <1>1, <1>2, <1>3, SameSpace DEF IInv, TypeInv
<1> QED BY <1>1, <1>3, <1>4, SameSpace DEF IInv, RequestInv, StallInv, NoStallChains

(* The inductive invariant of enumerate run: the work items are well       *)
(* formed, requests are out for instructions, stalls are about items that  *)
(* exist, and stalls do not chain.                                         *)
THEOREM Invariance == RunSpec => []IInv
<1>1. IInv /\ [RunNext]_runVars => IInv'
  <2> SUFFICES ASSUME IInv, [RunNext]_runVars PROVE IInv'
    OBVIOUS
  <2>1. ASSUME NEW i \in DOMAIN work, TakeNext(i), UNCHANGED <<saved, restarts>> PROVE IInv'
    BY <2>1, TakeNextInv
  <2>2. ASSUME NothingToDo, UNCHANGED <<saved, restarts>> PROVE IInv'
    BY <2>2, NothingToDoInv
  <2>3. ASSUME NEW i \in DOMAIN work, Complete(i), UNCHANGED <<saved, restarts>> PROVE IInv'
    BY <2>3, CompleteInv
  <2>4. ASSUME NEW x \in Instr, Split(x), UNCHANGED <<saved, restarts>> PROVE IInv'
    BY <2>4, SplitInv
  <2>5. CASE Save
    <3>1. UNCHANGED vars /\ saved'.work = work /\ saved'.filters = filters
      BY <2>5 DEF Save, Snapshot
    <3> QED BY <3>1, SameSpace DEF IInv, TypeInv, RequestInv, StallInv, NoStallChains, vars, status
  <2>6. CASE Restart
    BY Zenon, <2>6, RestartInv
  <2>7. CASE UNCHANGED runVars
    BY <2>7, SameSpace DEF IInv, TypeInv, RequestInv, StallInv, NoStallChains, runVars, vars, status
  <2> QED BY <2>1, <2>2, <2>3, <2>4, <2>5, <2>6, <2>7 DEF RunNext, Next, Work
<1> QED BY InitInv, <1>1, PTL DEF RunSpec

(* An item that another item stalls never stalls one itself, for any       *)
(* space, any number of items and threads, and across restarts.  complete  *)
(* leaves this open: "TODO: Verify all stall dependencies, make sure we    *)
(* don't have an infinite loop".  Without chains there is no cycle of      *)
(* items that wait for the results of each other.                          *)
THEOREM StallsDoNotChain == RunSpec => []NoStallChains
<1>1. IInv => NoStallChains
  BY DEF IInv
<1> QED BY <1>1, Invariance, PTL
=============================================================================
