----------------------------- MODULE MemoryMap ------------------------------
(***************************************************************************)
(* The list of free regions of kernel/src/mm/map.c, used for the physical  *)
(* memory at boot and for the address space of each process.               *)
(*                                                                         *)
(* A list is a sequence of regions in the order of its links, an address   *)
(* is a page number and a size a number of pages, at least one: the        *)
(* callers round to pages, and what the firmware reports, which nobody     *)
(* rounds, is assumed to be whole pages.  The operators give the list a    *)
(* function leaves behind and say what it needs from the allocator of      *)
(* entries; the modules that use them keep the count of entries.           *)
(***************************************************************************)
EXTENDS Integers, Sequences, SequencesExt

Regions == [base : Nat, size : Nat \ {0}]

Region(base, size) == [base |-> base, size |-> size]

\* The last page of a region.
EndOf(r) == r.base + r.size - 1

Pages(r) == r.base .. EndOf(r)

PagesOf(list) == UNION {Pages(list[i]) : i \in DOMAIN list}

\* The regions of a list follow each other without overlap.
Ordered(list) ==
    \A i, j \in DOMAIN list : i < j => EndOf(list[i]) < list[j].base

-----------------------------------------------------------------------------
(* How a region e meets an item of the list: check_entry_collision. *)

\* Mutant: a region that begins before the item and ends in it is not seen.
CollisionNoEnd(item, e) ==
    IF e.base <= item.base /\ EndOf(item) <= EndOf(e) THEN "OVERLAP"
    ELSE IF e.base >= item.base /\ EndOf(e) <= EndOf(item) THEN "INSIDE"
    ELSE IF e.base >= item.base /\ e.base <= EndOf(item) THEN "BEGIN"
    ELSE "NOTHING"

Collision(item, e) ==
    IF e.base <= item.base /\ EndOf(item) <= EndOf(e) THEN "OVERLAP"
    ELSE IF e.base >= item.base /\ EndOf(e) <= EndOf(item) THEN "INSIDE"
    ELSE IF e.base >= item.base /\ e.base <= EndOf(item) THEN "BEGIN"
    ELSE IF EndOf(e) >= item.base /\ EndOf(e) <= EndOf(item) THEN "END"
    ELSE "NOTHING"

Collides(item, e) == Collision(item, e) # "NOTHING"

-----------------------------------------------------------------------------
(* memory_map_add walks to the first item behind the new region and checks *)
(* each item it visits, that one included.                                 *)

AddPosition(list, e) ==
    CHOOSE k \in 1 .. Len(list) + 1 :
        /\ \A i \in 1 .. k - 1 : list[i].base <= e.base
        /\ k <= Len(list) => list[k].base > e.base

\* Mutant: the item behind the new region is not looked at.
CanAddUnchecked(list, e) ==
    \A i \in DOMAIN list : i < AddPosition(list, e) => Collision(list[i], e) = "NOTHING"

CanAdd(list, e) ==
    \A i \in DOMAIN list : i <= AddPosition(list, e) => ~Collides(list[i], e)

Inserted(list, e) == InsertAt(list, AddPosition(list, e), e)

-----------------------------------------------------------------------------
(* What exclude_inside and memory_map_exclude leave of one item.           *)

\* The excluded region lies within the item: the front, the back or both stay.
InsidePieces(item, e) ==
    CASE item.base = e.base ->
             << Region(item.base + e.size, item.size - e.size) >>
      [] item.base # e.base /\ EndOf(item) = EndOf(e) ->
             << Region(item.base, item.size - e.size) >>
      [] OTHER ->
             << Region(item.base, e.base - item.base),
                Region(e.base + e.size, EndOf(item) - EndOf(e)) >>

\* Both stay: exclude_inside needs an entry for the second.
Splits(item, e) ==
    /\ Collision(item, e) = "INSIDE"
    /\ item.base # e.base
    /\ EndOf(item) # EndOf(e)

Pieces(item, e) ==
    CASE Collision(item, e) = "OVERLAP" -> << >>
      [] Collision(item, e) = "INSIDE"  -> InsidePieces(item, e)
      [] Collision(item, e) = "BEGIN"   -> << Region(item.base, e.base - item.base) >>
      [] Collision(item, e) = "END"     ->
             << Region(EndOf(e) + 1, EndOf(item) - EndOf(e)) >>
      [] OTHER                          -> << item >>

Excluded(list, e) == FlattenSeq([i \in DOMAIN list |-> Pieces(list[i], e)])

NeedsEntry(list, e) == \E i \in DOMAIN list : Splits(list[i], e)

-----------------------------------------------------------------------------
(* memory_map_alloc takes the front of the first region that is big enough. *)

Fits(list, size) == {i \in DOMAIN list : list[i].size >= size}

FirstFit(list, size) == CHOOSE i \in Fits(list, size) : \A j \in Fits(list, size) : i <= j

\* A region of exactly this size is unlinked through the item before it: for
\* the first item of the list there is none, and the code writes through NULL.
ExactFit(list, size) == list[FirstFit(list, size)].size = size

FirstItemFits(list, size) == ExactFit(list, size) /\ FirstFit(list, size) = 1

\* Mutant: a region that is cut keeps its base.
AllocatedFromEnd(list, size) ==
    LET i == FirstFit(list, size)
    IN  IF ExactFit(list, size)
        THEN RemoveAt(list, i)
        ELSE [list EXCEPT ![i] = Region(@.base, @.size - size)]

Allocated(list, size) ==
    LET i == FirstFit(list, size)
    IN  IF ExactFit(list, size)
        THEN RemoveAt(list, i)
        ELSE [list EXCEPT ![i] = Region(@.base + size, @.size - size)]

-----------------------------------------------------------------------------
(* memory_map_alloc_at looks at the first item the region meets: the region *)
(* must be that item or lie within it.                                      *)

Met(list, e) == {i \in DOMAIN list : Collides(list[i], e)}

FirstMet(list, e) == CHOOSE i \in Met(list, e) : \A j \in Met(list, e) : i <= j

CanAllocAt(list, e) ==
    /\ Met(list, e) # {}
    /\ LET item == list[FirstMet(list, e)]
       IN  item = e \/ Collision(item, e) = "INSIDE"

AllocatedAt(list, e) ==
    LET i == FirstMet(list, e)
    IN  IF list[i] = e THEN RemoveAt(list, i)
        ELSE SubSeq(list, 1, i - 1) \o InsidePieces(list[i], e)
                 \o SubSeq(list, i + 1, Len(list))
=============================================================================
