---------------------------- MODULE MCAllocator ----------------------------
(***************************************************************************)
(* Small arenas for TLC: cells of two bytes, addresses of seven bits.      *)
(***************************************************************************)
EXTENDS Allocator

\* Odd sizes are rounded up; 0 becomes a cell; -1 is refused.
MCSizes == {-1, 0, 3, 6}

\* RESIZE compares sizes as signed numbers; these come near the limit.
MCHugeSizes == {4, 62, 63}

\* Values that look like the header of a block, in use and free.
MCValues == {2, -4}

MCStrangers == {0, 126}
=============================================================================
