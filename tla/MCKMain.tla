------------------------------ MODULE MCKMain ------------------------------
(***************************************************************************)
(* kmain on 16 pages of address space: every memory map of up to three     *)
(* adjacent or spaced regions whose ends are among the cuts, on and off    *)
(* page and word boundaries, at 0 and at the end of the pointer range.     *)
(* Among them are maps without usable memory, and the empty one that the   *)
(* boot loader hands over when it gives up on the BIOS's first entry with  *)
(* the carry flag clear.  Registers and tables vary on one map.            *)
(***************************************************************************)
EXTENDS KMain

Region(first, last, type) ==
    [base |-> first, length |-> last - first, regionType |-> type]

\* The three intervals between four cuts, each a region or a gap.
MapsOver(cuts) ==
    {UNION {IF type[i] = "Gap" THEN {} ELSE {Region(cut[i], cut[i + 1], type[i])} :
                i \in 1 .. 3} :
        cut \in {c \in [1 .. 4 -> cuts] : c[1] < c[2] /\ c[2] < c[3] /\ c[3] < c[4]},
        type \in [1 .. 3 -> RegionTypes \union {"Gap"}]}

MCMaps  == MapsOver({0, 4, 15, 16, 26, 37, 48, 63, 64})
NoCalls == {}

\* Color or monochrome ports; characters of 16, 8 and 14 lines and odd ones;
\* the bits above the maximum scan line; the cursor disabled or not.
R(misc, lines, above, start) ==
    [misc |-> misc, index |-> LocationLo,
     crtc |-> [i \in CrtcIndex |->
                CASE i = MaxScanLine -> ByteOf(lines) \union above
                  [] i = CursorStart -> start
                  [] OTHER           -> {0, 6}]]

MCRegisters ==
    {R(misc, lines, above, start) :
        misc \in {{}, {0, 1}}, lines \in {0, 1, 2, 7, 13, 15, 31}, above \in {{}, {6}},
        start \in {{}, {5, 1}}}

T(c, cpp) == [c |-> c, cpp |-> cpp]
MCTables ==
    {T(c, cpp) : c \in UNION {[1 .. n -> {NULL, 0, 1}] : n \in 0 .. 3},
                 cpp \in UNION {[1 .. n -> {NULL, "constructor"}] : n \in 0 .. 2}}

MCProcessors == {{}, {"ermsb"}}
MCCells      == {1999}

SomeMap      == {Region(0, 4, "Reserved"), Region(4, 63, "Usable")}
SomeRegister == R({0, 1}, 15, {}, {})
SomeTable    == T(<<>>, <<>>)

M(map, registers, tables) == [map |-> map, registers |-> registers, tables |-> tables]
MCMachines ==
    {M(map, SomeRegister, SomeTable) : map \in MCMaps}
        \union {M(SomeMap, registers, SomeTable) : registers \in MCRegisters}
        \union {M(SomeMap, SomeRegister, tables) : tables \in MCTables}
=============================================================================
