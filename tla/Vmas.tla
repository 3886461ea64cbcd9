-------------------------------- MODULE Vmas --------------------------------
(***************************************************************************)
(* The virtual memory areas of an address space (memory/vma.rs and the     *)
(* area map of memory/vmm.rs).  An area is a record [s, e, typ, space] of  *)
(* page numbers: it covers the pages s .. e - 1.  The BTreeMap is the      *)
(* sequence of the areas in the order of its key, the start address.       *)
(***************************************************************************)
EXTENDS Integers, FiniteSets, FiniteSetsExt, Sequences, SequencesExt

CONSTANTS
    FirstUser,   \* first_usable_user_addr, in pages
    LastUser     \* last_usable_user_addr, in pages

NoArea == [s |-> -1, e |-> -1, typ |-> "none", space |-> "none"]

Area(first, n, typ, space) == [s |-> first, e |-> first + n, typ |-> typ, space |-> space]

overlaps_with(a, b) == a.e > b.s /\ a.s < b.e

\* The last area that starts at or below the page, as range(..=p).next_back().
LastUpTo(areas, p) ==
    LET below == SelectSeq(areas, LAMBDA a : a.s <= p)
    IN  IF below = <<>> THEN NoArea ELSE Last(below)

InBounds(a) ==
    IF a.space = "User" THEN a.s >= FirstUser /\ a.e <= LastUser ELSE a.e <= LastUser

\* alloc_at compares with the area before the new one only.
Collides(areas, a) == LastUpTo(areas, a.s).e > a.s

\* The new areas; the same areas when alloc_at returns None.
alloc_at(areas, a) ==
    IF InBounds(a) /\ ~Collides(areas, a)
    THEN SelectSeq(areas, LAMBDA b : b.s < a.s) \o <<a>> \o SelectSeq(areas, LAMBDA b : b.s > a.s)
    ELSE areas


\* One turn of the loop of alloc: stay if n pages fit before the area.
GapStep(cur, a, n) == IF cur + n <= a.s THEN cur ELSE a.e

\* The search of alloc: the first page of a gap of n pages in [lo, hi).
FindGap(areas, lo, hi, n) ==
    FoldLeft(LAMBDA cur, a : GapStep(cur, a, n), lo,
             SelectSeq(areas, LAMBDA a : lo <= a.s /\ a.s < hi))

\* alloc: the area it asks alloc_at for, or NoArea without a gap.
alloc(areas, n, typ, space) ==
    LET lo == IF space = "User" THEN FirstUser ELSE 0
        hi == IF space = "User" THEN LastUser ELSE FirstUser
        at == FindGap(areas, lo, hi, n)
    IN  IF at + n <= hi THEN Area(at, n, typ, space) ELSE NoArea

is_address_within_vma(areas, p, typ) ==
    LET a == LastUpTo(areas, p) IN p < a.e /\ a.typ = typ

\* No two areas of an address space share a page.
Disjoint(areas) ==
    \A i, j \in DOMAIN areas : i # j => ~overlaps_with(areas[i], areas[j])
=============================================================================
