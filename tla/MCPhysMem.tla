----------------------------- MODULE MCPhysMem -----------------------------
(***************************************************************************)
(* The allocator on 12 pages of 4 bytes, tracked by 3 bitmap words of 4    *)
(* bits: two maps whose page 0 is not usable, one with a hole of reserved  *)
(* memory in the middle of a word and one whose last word is partial, and  *)
(* one whose low memory is usable from page 0 on, as a PC's is.            *)
(***************************************************************************)
EXTENDS PhysMemInv, PhysMemContract

Region(first, last, type) ==
    [base |-> first, length |-> last - first, regionType |-> type]

MCMaps == {
    {Region(4, 20, "Usable"), Region(20, 24, "Reserved"), Region(24, 48, "Usable")},
    {Region(0, 4, "Reserved"), Region(4, 42, "Usable")},
    {Region(0, 20, "Usable"), Region(20, 24, "Reserved"), Region(24, 48, "Usable")}}

MCCounts == {0, 1, 3, 5}
MCHints  == {0, 4, 8}
=============================================================================
