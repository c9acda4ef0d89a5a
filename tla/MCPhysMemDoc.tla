---------------------------- MODULE MCPhysMemDoc ----------------------------
(***************************************************************************)
(* The allocator and any client: page 0 is free memory, as on a PC, or the *)
(* last bitmap word is partial.                                            *)
(***************************************************************************)
EXTENDS PhysMemProps

Region(first, last, type) ==
    [base |-> first, length |-> last - first, regionType |-> type]

PageZeroMaps == {{Region(0, 48, "Usable")}}
FewHints     == {0}

\* 11 pages, the last three of them in a word of four.
PartialWordMaps == {{Region(0, 4, "Reserved"), Region(4, 44, "Usable")}}

SomeCounts == {1, 3, 4}
=============================================================================
