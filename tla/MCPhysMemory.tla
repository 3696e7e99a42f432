---------------------------- MODULE MCPhysMemory ----------------------------
(***************************************************************************)
(* Nine pages.  The reports may repeat or overlap each other; the first    *)
(* reservation meets the front of a region, covers it or misses it, the    *)
(* kernel splits a region, ends with it or covers it, the module meets     *)
(* what the kernel left.  Two entries run out when a report was refused  *)
(* or two regions must be split.                                           *)
(***************************************************************************)
EXTENDS PhysMemory

MCAvailable == {Region(0, 1), Region(0, 9), Region(1, 6), Region(3, 1), Region(7, 2)}
MCReservations == << Region(0, 2), Region(3, 1), Region(5, 1) >>
=============================================================================
