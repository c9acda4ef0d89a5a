--------------------------- MODULE BootLoaderProps ---------------------------
(***************************************************************************)
(* What the boot loader must do.  A disk also says, for these properties   *)
(* alone, what was put on it: `chain', the clusters of the kernel's file   *)
(* in their order, and `image', its sections.                              *)
(***************************************************************************)
EXTENDS BootLoader

TypeOK ==
    /\ disk \in Disks
    /\ pc \in {"reserved", "fat12", "find", "header", "header2", "section", "seek", "sector",
               "a20", "a20 byte", "a20 wait", "memoryMap", "protected", "kernel", "halt", "wild",
               "fault"}
    /\ bp \in 1 .. 5
    /\ glitches \in 0 .. 4
    /\ fs \in Seq(0 .. DiskSectors - 1)
    /\ si \in {"name", "behind"}
    /\ entry \in 0 .. Len(disk.root)
    /\ memory \in [0 .. MemorySectors - 1 -> 0 .. DiskSectors - 1]
    /\ es \in Nat
    /\ di \in FatEntry \union {DirPointer}
    /\ count \in Nat
    /\ cx \in 0 .. (IF count = 0 THEN 1 ELSE count)
    /\ skip \in Nat
    /\ dest \in 0 .. MemorySectors
    /\ left \in Nat
    /\ bios \in BiosMaps
    /\ calls \in 0 .. Len(bios)
    /\ Len(mmap) <= MaxMapEntries
    /\ interrupts \in BOOLEAN
    /\ controller \in [buffer : {"empty", "other", "command", "byte"}, command : BOOLEAN, a20 : BOOLEAN]
    /\ entryFrom \in 0 .. DiskSectors - 1

-----------------------------------------------------------------------------
\* The disk sector that holds sector k of the kernel's file.
FileSector(k) == LoadClusterByNumber(disk.chain[k + 1])

\* Two section headers fit the first sector; any others are in the second.
HeaderSector(k) == FileSector(IF k < 2 THEN 0 ELSE 1)
HeaderSectors   == IF Len(disk.image) > 2 THEN {0, 1} ELSE {0}

SectionSectors(s) == s.rva .. (s.rva + s.size - 1)

\* Both FATs lead through the file's clusters, all of them on the disk.
SoundChain ==
    /\ disk.chain \in Seq(FatEntry)
    /\ \A k \in DOMAIN disk.chain :
          /\ disk.chain[k] >= 2
          /\ FileSector(k - 1) < DiskSectors
          /\ Fat0(disk.chain[k]) = IF k = Len(disk.chain) THEN FileEnd ELSE disk.chain[k + 1]
          /\ Fat1(disk.chain[k]) = Fat0(disk.chain[k])

\* The headers are where the loader looks for them.
SoundHeaders ==
    /\ disk.image \in Seq(Section) /\ disk.image # <<>>
    /\ HeaderSectors \subseteq 0 .. (Len(disk.chain) - 1)
    /\ FileSector(0) \in DOMAIN disk.counts
    /\ disk.counts[FileSector(0)] = Len(disk.image)
    /\ \A k \in 0 .. (Len(disk.image) - 1) :
          /\ HeaderSector(k) \in DOMAIN disk.sections
          /\ k \in DOMAIN disk.sections[HeaderSector(k)]
          /\ disk.sections[HeaderSector(k)][k] = disk.image[k + 1]
          /\ k >= 2 => k \notin DOMAIN disk.sections[FileSector(0)]

\* The file holds every section, an empty one's offset included; none overlap.
SoundSections ==
    /\ \A i \in DOMAIN disk.image : LET s == disk.image[i] IN
          /\ s.raw < Len(disk.chain) /\ s.raw + s.size <= Len(disk.chain)
          /\ SectionSectors(s) \intersect HeaderSectors = {}
          /\ \A j \in 1 .. (i - 1) : SectionSectors(s) \intersect SectionSectors(disk.image[j]) = {}
          /\ s.rva + (IF i = Len(disk.image) THEN 0 ELSE s.size) < SegmentSectors

(***************************************************************************)
(* A floppy as the image builder makes it: the kernel's file comes first,  *)
(* both FATs have its chain, its headers say what is in it and where, and  *)
(* it is as long as they say.  The image is small: LoadPEFile reads the    *)
(* next section's header in the segment that the section before it ended   *)
(* in, so only the last section may reach the second one.  And the offset  *)
(* of an empty section must lie within the file too: FileLbaToCluster      *)
(* follows the chain to it before the size is looked at.                   *)
(***************************************************************************)
Sound ==
    /\ disk.root # <<>>
    /\ disk.root[1].name = "kernel"
    /\ disk.root[1].kind = "file"
    /\ SoundChain
    /\ SoundHeaders
    /\ disk.root[1].cluster = disk.chain[1]
    /\ SoundSections

\* What memory must hold at a sector of the loaded image, Nothing outside of it.
Loaded(a) ==
    IF a \in HeaderSectors THEN FileSector(a)
    ELSE IF \E i \in DOMAIN disk.image : a \in SectionSectors(disk.image[i])
         THEN LET i == CHOOSE x \in DOMAIN disk.image : a \in SectionSectors(disk.image[x])
              IN  FileSector(disk.image[i].raw + a - disk.image[i].rva)
         ELSE Nothing

(***************************************************************************)
(* From a sound floppy the kernel is entered only with its file in memory  *)
(* as its headers lay it out, nothing missing, nothing else written, at    *)
(* the entry point of its own header, and with the file system read in     *)
(* order: through scattered clusters, sections that are empty or out of    *)
(* order in the file, and reads that were tried again.                     *)
(***************************************************************************)
ImageLoaded ==
    pc = "kernel" /\ Sound =>
        /\ \A a \in DOMAIN memory : memory[a] = Loaded(a)
        /\ entryFrom = FileSector(0)
        /\ fs = [i \in 1 .. READ_SIZE |-> N_RESERVED_SECTORS + i - 1]

(***************************************************************************)
(* The kernel gets the BIOS's entries in order, from the first on, each    *)
(* checked; fewer than the BIOS has only where the space is used up or the *)
(* next reply is refused.                                                  *)
(***************************************************************************)
MapExact ==
    LET n == Len(mmap)
    IN  /\ \A i \in 1 .. n : mmap[i] = bios[i].entry /\ ~Refused(bios[i])
        /\ \/ n = MaxMapEntries
           \/ n > 0 /\ ~bios[n].more
           \/ Refused(bios[n + 1])

(***************************************************************************)
(* What the kernel finds of the machine: the BIOS's memory map, and the    *)
(* gate open through which all of it can be reached.  The gate is a matter *)
(* of two that run side by side: a byte sent before the controller has     *)
(* taken the command replaces it, and goes to the keyboard.                *)
(***************************************************************************)
MachineReady == pc = "kernel" => MapExact /\ controller.a20

(***************************************************************************)
(* From a sound floppy booting stops only for a reason: every try of a     *)
(* sector it needs has failed, or the BIOS refuses the memory map.  No     *)
(* sector is asked for that the image does not have, no table or header is *)
(* taken for corrupt, and no read is given up before its last try.  The    *)
(* tick that nothing handles is no stop of this kind: it can come in every *)
(* boot.                                                                   *)
(***************************************************************************)
Needed ==
    1 .. (N_RESERVED_SECTORS + READ_SIZE - 1)
        \union {FileSector(k) : k \in 0 .. Len(disk.chain) - 1}

StopsOnlyForReason ==
    [][pc \notin {"halt", "wild"} /\ pc' \in {"halt", "wild"} /\ Sound =>
           \/ Asked \subseteq Needed /\ glitches = 4
           \/ pc = "memoryMap" /\ CarrySet(bios[calls + 1])]_vars

(***************************************************************************)
(* Booting ends: in the kernel, in a message, or lost; the waits for the   *)
(* keyboard controller too.  The one loop that may run for ever is that of *)
(* FindFileByName over a first entry that is deleted or has no character   *)
(* of the kernel's name in its place.                                      *)
(***************************************************************************)
FoundAtOnce == disk.root = <<>> \/ (disk.root[1].kind = "file" /\ disk.root[1].alike)

BootEnds == FoundAtOnce => <>(pc \in {"kernel", "halt", "wild", "fault"})

-----------------------------------------------------------------------------
(***************************************************************************)
(* "Attempts a call to INT 13h function 02h five times, or until it        *)
(* succeeds" (TryInt13Fn2): when its counter has run out, five tries have  *)
(* failed.                                                                 *)
(***************************************************************************)
FiveTries == bp = 1 => glitches = 5

(***************************************************************************)
(* "flags   CF set on error, clear on success" (LoadPEFile): it returns to *)
(* its caller, which reports the error, whatever read fails.               *)
(***************************************************************************)
FailureReported == pc # "wild"

(***************************************************************************)
(* "Finds a directory entry from the current directory by name"            *)
(* (FindFileByName): the entry it returns is the one of the kernel.        *)
(***************************************************************************)
FindsKernel == entry # 0 => disk.root[entry].name = "kernel"
=============================================================================
