---------------------------- MODULE MCBootLoader ----------------------------
(***************************************************************************)
(* Floppies of 3 cylinders, 2 heads and 3 sectors per track: 3 reserved    *)
(* sectors, 3 of file system and 12 of data.  The third section of an      *)
(* image crosses from the first segment of memory to the second.           *)
(***************************************************************************)
EXTENDS BootLoaderProps, SequencesExt

S(rva, raw, size) == [rva |-> rva, raw |-> raw, size |-> size]

\* PE files: their sections, of which two headers fit the first sector.
OneSection    == <<S(2, 1, 3)>>
WithEmpty     == <<S(4, 2, 1), S(6, 0, 0)>>
ThreeSections == <<S(5, 5, 1), S(2, 2, 1), S(7, 3, 2)>>

\* The clusters of the kernel's file, in order or scattered over the disk.
InOrder   == <<2, 3, 4, 5, 6, 7>>
Scattered == <<5, 2, 9, 3, 8, 4>>

Linked(chain) ==
    FoldLeft(LAMBDA fat, k :
                SetFatEntry(fat, chain[k], IF k = Len(chain) THEN FileEnd ELSE chain[k + 1]),
             [o \in 0 .. 24 |-> 0], [k \in 1 .. Len(chain) |-> k])

File(name, alike, cluster) ==
    [kind |-> "file", name |-> name, alike |-> alike, cluster |-> cluster]

DiskOf(root, chain, fat1, sections, bad) ==
    LET n      == Len(sections)
        At(c)  == LoadClusterByNumber(c)
        split  == IF n > 2 THEN 2 ELSE n
        second == IF Len(chain) > 1 THEN {At(chain[2])} ELSE {}
    IN  [root     |-> root,
         fat0     |-> Linked(chain),
         fat1     |-> fat1,
         chain    |-> chain,
         image    |-> sections,
         counts   |-> At(chain[1]) :> n,
         sections |-> At(chain[1]) :> [k \in 0 .. split - 1 |-> sections[k + 1]]
                        @@ [lba \in second |-> [k \in split .. n - 1 |-> sections[k + 1]]],
         bad      |-> bad]

KernelDisk(chain, sections, bad) ==
    DiskOf(<<File("kernel", TRUE, chain[1])>>, chain, Linked(chain), sections, bad)

\* No bad sector, or one of the loader, the file system, the file or unused.
SoundDisks ==
    {KernelDisk(chain, sections, bad) :
        chain \in {InOrder, Scattered},
        sections \in {OneSection, WithEmpty, ThreeSections},
        bad \in {{}, {2}, {4}, {7}, {17}}}

\* Another file comes first, with or without a character in common.
TwoFileDisks ==
    {DiskOf(<<File("other", alike, 10), File("kernel", TRUE, 2)>>,
            InOrder, Linked(InOrder), OneSection, {}) : alike \in BOOLEAN}

\* A file that ends before its sections do.
ShortFileDisks == {KernelDisk(<<2>>, ThreeSections, {}), KernelDisk(<<2, 3>>, OneSection, {})}

\* FATs that differ in one entry.
CorruptDisks ==
    {DiskOf(<<File("kernel", TRUE, 5)>>, Scattered,
            SetFatEntry(Linked(Scattered), c, value), ThreeSections, {}) :
        c \in {5, 2, 9, 8}, value \in {0, FileEnd}}

(***************************************************************************)
(* A chain that leaves the disk, and the tables: cluster 40 is in neither. *)
(* What the memory behind them holds there leads back onto the disk, in    *)
(* the one table; in the other it may be the same or not.                  *)
(***************************************************************************)
Behind(next) == [c \in FatEntry |-> IF c = 40 THEN next ELSE FileEnd]
LeadsBack    == Behind(3)
LeadsAway    == [Behind(3) EXCEPT ![41] = 4]

LosesWay(c)  == SetFatEntry(Linked(InOrder), 2, c)
LostDisks    ==
    {[DiskOf(<<File("kernel", TRUE, 2)>>, InOrder, LosesWay(c), sections, {}) EXCEPT !.fat0 = LosesWay(c)] :
        c \in {40, 41}, sections \in {OneSection, ThreeSections}}

\* The kernel's first entry is deleted.
DeletedDisk ==
    DiskOf(<<[File("kernel", TRUE, 2) EXCEPT !.kind = "deleted"], File("kernel", TRUE, 2)>>,
           InOrder, Linked(InOrder), OneSection, {})

EmptyDisk == DiskOf(<<>>, InOrder, Linked(InOrder), OneSection, {})

MCDisks == SoundDisks \union TwoFileDisks \union ShortFileDisks \union CorruptDisks
               \union LostDisks \union {DeletedDisk, EmptyDisk}

-----------------------------------------------------------------------------
R(carry, signature, size, more, name) ==
    [carry |-> carry, signature |-> signature, size |-> size, more |-> more, entry |-> name]

LastReplies == {R(FALSE, "SMAP", 20, FALSE, "last"), R(TRUE, "SMAP", 0, FALSE, "none"),
         R(FALSE, "below", 20, FALSE, "none"), R(FALSE, "above", 20, FALSE, "none"),
         R(FALSE, "SMAP", 19, TRUE, "none"), R(FALSE, "SMAP", 25, TRUE, "none"),
         R(FALSE, "SMAP", -1, TRUE, "none")}

\* Up to two good replies and one more of any kind, with room for two entries.
MCBiosMaps ==
    {<<r>> : r \in LastReplies}
        \union {<<R(FALSE, "SMAP", 24, TRUE, "first"), r>> : r \in LastReplies}
        \union {<<R(FALSE, "SMAP", 24, TRUE, "first"), R(FALSE, "SMAP", 20, TRUE, "second"), r>> :
                    r \in LastReplies}

GoodMap == {<<R(FALSE, "SMAP", 20, FALSE, "last")>>}

GarbageHeaders == {S(2, 1, 1)}
SomeCounts     == {1}
=============================================================================
