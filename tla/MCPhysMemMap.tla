---------------------------- MODULE MCPhysMemMap ----------------------------
(***************************************************************************)
(* pmInitialize on every map of up to three adjacent or spaced regions     *)
(* whose ends are among a few cuts, two of them at and above the end of    *)
(* the pointer range.                                                      *)
(***************************************************************************)
EXTENDS PhysMemProps

Region(first, last, type) ==
    [base |-> first, length |-> last - first, regionType |-> type]

\* The three intervals between four cuts, each a region or a gap.
MapsOver(cuts) ==
    {UNION {IF type[i] = "Gap" THEN {} ELSE {Region(cut[i], cut[i + 1], type[i])} :
                i \in 1 .. 3} :
        cut \in {c \in [1 .. 4 -> cuts] : c[1] < c[2] /\ c[2] < c[3] /\ c[3] < c[4]},
        type \in [1 .. 3 -> RegionTypes \union {"Gap"}]}

MCHighMaps == MapsOver({0, 4, 16, 26, 64, 80})
NoCalls    == {}
=============================================================================
