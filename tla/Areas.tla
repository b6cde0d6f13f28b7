-------------------------------- MODULE Areas --------------------------------
(***************************************************************************)
(* Addresses, areas and pages (liblisa/src/state/addr.rs).  Addresses are  *)
(* the words below Word, 2^64 in the code.                                 *)
(***************************************************************************)
EXTENDS Integers

CONSTANTS Word,
          PageSize      \* 1 << A::PAGE_BITS

ASSUME AreasAssumption == /\ Word \in Nat /\ PageSize \in Nat \ {0}
                          /\ PageSize < Word /\ Word % PageSize = 0

Words == 0 .. Word - 1

(* wrapping_add and wrapping_sub of two words. *)
Wrap(x) == IF x >= Word THEN x - Word ELSE IF x < 0 THEN x + Word ELSE x

(***************************************************************************)
(* Areas: a start and a size, which may wrap around the end of memory.     *)
(***************************************************************************)
Area(addr, size) == [addr |-> addr, size |-> size]
Offset(a, by) == [a EXCEPT !.addr = Wrap(@ + by)]
Wraps(a) == a.addr + a.size > Word          \* last_addr is None
LastAddr(a) == a.addr + a.size - 1
EndAddr(a) == Wrap(LastAddr(a))
PageOf(addr) == addr \div PageSize
StartOfPage(addr) == PageOf(addr) * PageSize

AreaContains(a, addr) ==
    LET by == IF a.addr + a.size < Word THEN 0 ELSE Wrap(0 - a.addr)
    IN  /\ Offset(a, by).addr <= Wrap(addr + by)
        /\ Wrap(addr + by) < Offset(a, by).addr + a.size

CrossesPageBounds(a) == PageOf(a.addr) # PageOf(EndAddr(a))

ExpandToPage(a) ==
    LET start == StartOfPage(a.addr)
        size == a.size + (a.addr - start)
    IN  Area(start, ((size + (PageSize - 1)) \div PageSize) * PageSize)

OverlapInOrder(a, b) == LastAddr(b) >= a.addr /\ b.addr <= LastAddr(a)

(* The offset by which two areas, one of which wraps, are moved before     *)
(* they are compared.                                                      *)
Realigned(a, b) == IF ~Wraps(Offset(b, Wrap(0 - a.addr))) THEN Wrap(0 - a.addr) ELSE Wrap(0 - b.addr)

(* Fault: areas are compared as if none wrapped. *)
OverlapsWithoutWrap(a, b) == OverlapInOrder(a, b)

OverlapsWith(a, b) ==
    IF Wraps(a) = Wraps(b) THEN Wraps(a) \/ OverlapInOrder(a, b)
    ELSE OverlapInOrder(Offset(a, Realigned(a, b)), Offset(b, Realigned(a, b)))

SharesPageWith(a, b) == OverlapsWith(ExpandToPage(a), ExpandToPage(b))
=============================================================================
