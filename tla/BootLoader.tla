----------------------------- MODULE BootLoader -----------------------------
(***************************************************************************)
(* The floppy boot loader (FloppyInstallBootstrap.asm): it loads the FATs  *)
(* and the root directory, finds the kernel file, loads the sections of    *)
(* that PE file, opens the A20 gate, gets the memory map from the BIOS and *)
(* enters the kernel.  Every sector is read by TryInt13Fn2, each try of    *)
(* which may fail.  Beside the loader run the keyboard controller, which   *)
(* holds the gate, and the timer.                                          *)
(*                                                                         *)
(* Memory from the load address on, and the file system's buffer, are      *)
(* counted in sectors; a sector of memory holds the LBA of the disk sector *)
(* it was read from, or Nothing.                                           *)
(***************************************************************************)
EXTENDS Fat12, Sequences

CONSTANTS
    N_RESERVED_SECTORS,     \* 3
    READ_SIZE,              \* 20 sectors: both FATs and the root directory
    SECTORS_PER_TRACK,      \* 18
    N_HEADS,                \* 2
    N_CYLINDERS,            \* 80
    SegmentSectors,         \* 128 sectors are 64 KB
    MaxMapEntries,          \* 341 entries fit below MMAP_BASE_ADDR + 2000h
    MemorySectors,          \* bound: sectors of memory the model keeps
    Glitches,               \* bound: tries of a good sector that fail in a row
    BehindFat0, BehindFat1, \* what a lookup finds in the memory behind each FAT
    Disks,                  \* floppies
    BiosMaps,               \* what INT 15h may answer, call by call
    GarbageSections,        \* section headers read where there is none
    GarbageCounts           \* section counts read where there is none

Nothing    == 0             \* the LBA of the boot sector itself
DirPointer == 41984         \* ROOT_DIR_BASE_ADDR: the first directory entry, taken for a cluster
DATA_BASE_DISK_SECTOR == N_RESERVED_SECTORS + READ_SIZE
DiskSectors == SECTORS_PER_TRACK * N_HEADS * N_CYLINDERS

LoadClusterByNumber(cluster) == cluster + DATA_BASE_DISK_SECTOR - 2

(***************************************************************************)
(* A floppy has a root directory, two FATs and bad sectors.  Its           *)
(* `sections' gives, for the LBA of a sector with section headers, the     *)
(* headers in it by their index; `counts' the number of sections for the   *)
(* first sector of a PE file.  `alike' says whether a file's name has some *)
(* character in the place where the kernel's name has it.                  *)
(***************************************************************************)
Section == [rva : Nat, raw : Nat, size : Nat]       \* all in sectors
Entry   == [kind : {"file", "deleted"}, name : STRING, alike : BOOLEAN, cluster : FatEntry]
Reply   == [carry : BOOLEAN, signature : {"SMAP", "below", "above"}, size : Int,
            more : BOOLEAN, entry : STRING]

ASSUME DisksAssumption ==
    \A d \in Disks :
        /\ d.root \in Seq(Entry)
        /\ \A lba \in DOMAIN d.sections :
              \A k \in DOMAIN d.sections[lba] : d.sections[lba][k] \in Section
        /\ \A lba \in DOMAIN d.counts : d.counts[lba] \in Nat
        /\ GarbageSections \subseteq Section /\ GarbageCounts \subseteq Nat

\* All sectors but those of the files are on the disk.
ASSUME GeometryAssumption ==
    /\ {N_RESERVED_SECTORS, READ_SIZE, SECTORS_PER_TRACK, N_HEADS, N_CYLINDERS,
        MaxMapEntries} \subseteq Nat \ {0}
    /\ {SegmentSectors, MemorySectors} \subseteq Nat \ {0, 1}
    /\ DATA_BASE_DISK_SECTOR > 2
    /\ DATA_BASE_DISK_SECTOR < DiskSectors
    /\ DiskSectors <= EndMarkers
    /\ Glitches \in Nat

\* An entry may lead anywhere, behind the tables too: whatever is there is read as an entry.
ASSUME TablesAssumption ==
    /\ \A d \in Disks : \A fat \in {d.fat0, d.fat1} : \A o \in DOMAIN fat : fat[o] \in Byte
    /\ {BehindFat0, BehindFat1} \subseteq [FatEntry -> FatEntry]

\* Enough memory is kept for every section, one header's address with another's size.
ASSUME MemoryAssumption ==
    \A d \in Disks :
        LET Headers == GarbageSections \union
                UNION {{d.sections[lba][k] : k \in DOMAIN d.sections[lba]} : lba \in DOMAIN d.sections}
        IN  \A s, t \in Headers : s.rva + t.size <= MemorySectors

\* The BIOS answers as often as it is asked.
ASSUME BiosAssumption ==
    \A b \in BiosMaps :
        /\ b \in Seq(Reply)
        /\ b # <<>>
        /\ Len(b) > MaxMapEntries \/ ~b[Len(b)].more
              \/ b[Len(b)].carry \/ b[Len(b)].signature # "SMAP" \/ b[Len(b)].size \notin 20 .. 24

VARIABLES
    disk,
    pc,             \* the read or the step that comes next
    bp,             \* TryInt13Fn2's counter
    glitches,       \* tries of this read that have failed
    fs,             \* the sectors read to FS_BASE_ADDR
    si,             \* whether FindFileByName still compares the kernel's name
    entry,          \* index of the directory entry found
    memory,         \* from KERNEL_LOAD_ADDR on
    es,             \* the segment sections are loaded to and read from
    di,             \* the cluster LoadNextCluster takes next
    count,          \* sections in the file
    cx,             \* index of the current section
    skip,           \* clusters FileLbaToCluster has still to pass over
    dest,           \* where its next sector goes
    left,           \* its sectors still to load
    bios,           \* the replies of INT 15h
    calls,          \* how many it has given
    mmap,           \* the map's entries at MMAP_BASE_ADDR
    interrupts,     \* the processor's interrupt flag
    controller,     \* its input buffer, whether the next byte is for its
                    \*   output port, and the A20 gate
    entryFrom       \* the disk sector the kernel's entry point was read from

files == <<fs, si, entry>>
image == <<memory, es, di, count, cx, skip, dest, left>>
machine == <<interrupts, controller, entryFrom>>
vars  == <<disk, pc, bp, glitches, files, image, bios, calls, mmap, machine>>

-----------------------------------------------------------------------------
\* Wrong: the head is not taken modulo N_HEADS.
LbaToChs_HeadNotReduced(lba) ==
    [sector   |-> (lba % SECTORS_PER_TRACK) + 1,
     head     |-> lba \div SECTORS_PER_TRACK,
     cylinder |-> (lba \div SECTORS_PER_TRACK) \div N_HEADS]

LbaToChs(lba) ==
    [sector   |-> (lba % SECTORS_PER_TRACK) + 1,
     head     |-> (lba \div SECTORS_PER_TRACK) % N_HEADS,
     cylinder |-> (lba \div SECTORS_PER_TRACK) \div N_HEADS]

\* The sector the BIOS delivers.
SectorAt(chs) ==
    (chs.cylinder * N_HEADS + chs.head) * SECTORS_PER_TRACK + chs.sector - 1

Cluster == disk.root[entry].cluster     \* the file's first cluster

\* The first disk sector the read in progress asks for, Nothing if there is none.
Wanted ==
    CASE pc = "reserved" -> 1
      [] pc = "fat12"    -> N_RESERVED_SECTORS + Len(fs)
      [] pc = "header"   -> LoadClusterByNumber(Cluster)
      [] pc \in {"header2", "sector"} /\ di # FileEnd -> LoadClusterByNumber(di)
      [] OTHER           -> Nothing

Delivered == SectorAt(LbaToChs(Wanted))

\* The rest of the loader comes in one call, everything else sector by sector.
Asked == IF pc = "reserved" THEN 1 .. N_RESERVED_SECTORS - 1 ELSE {Wanted}

Readable == Wanted < DiskSectors /\ Asked \intersect disk.bad = {}

(***************************************************************************)
(* TryInt13Fn2: bp counts down from 5 before each try.  A sector on the    *)
(* disk that is not bad may fail up to Glitches times in a row.            *)
(***************************************************************************)
TryReads == Wanted # Nothing /\ bp > 1 /\ Readable /\ bp' = 5 /\ glitches' = 0

\* Wrong: gives up one try earlier.
TryFails_EndsEarly ==
    /\ Wanted # Nothing
    /\ bp > 1
    /\ Readable => glitches < Glitches
    /\ bp' = IF bp = 3 THEN 1 ELSE bp - 1
    /\ glitches' = glitches + 1
    /\ UNCHANGED <<disk, pc, files, image, bios, calls, mmap, machine>>

\* Wrong: a failed try is not counted.
TryFails_NotCounted ==
    /\ Wanted # Nothing
    /\ bp > 1
    /\ Readable => glitches < Glitches
    /\ UNCHANGED vars

TryFails ==
    /\ Wanted # Nothing
    /\ bp > 1
    /\ Readable => glitches < Glitches
    /\ bp' = bp - 1
    /\ glitches' = glitches + 1
    /\ UNCHANGED <<disk, pc, files, image, bios, calls, mmap, machine>>

(***************************************************************************)
(* The last try failed.  Every caller halts with a message, except within  *)
(* a section: there the size pushed on the stack is still on it when the   *)
(* registers are popped, and LoadPEFile returns to a wild address.         *)
(***************************************************************************)
ReadFails ==
    /\ Wanted # Nothing
    /\ bp = 1
    /\ pc' = IF pc = "sector" THEN "wild" ELSE "halt"
    /\ UNCHANGED <<disk, bp, glitches, files, image, bios, calls, mmap, machine>>

NoRead == Wanted = Nothing /\ UNCHANGED <<bp, glitches>>

\* An error: a message, and the processor halts for good.
DisplayError == pc' = "halt"

-----------------------------------------------------------------------------
Init ==
    /\ disk \in Disks
    /\ pc = "reserved"
    /\ bp = 5
    /\ glitches = 0
    /\ fs = <<>>
    /\ si = "name"
    /\ entry = 0
    /\ memory = [a \in 0 .. MemorySectors - 1 |-> Nothing]
    /\ es = 0
    /\ di = 0
    /\ count = 0
    /\ cx = 0
    /\ skip = 0
    /\ dest = 0
    /\ left = 0
    /\ bios \in BiosMaps
    /\ calls = 0
    /\ mmap = <<>>
    /\ interrupts = TRUE
    /\ controller \in [buffer : {"empty", "other"}, command : {FALSE}, a20 : BOOLEAN]
    /\ entryFrom = Nothing

\* The loader's own sectors.
LoadReserved ==
    /\ pc = "reserved"
    /\ TryReads
    /\ pc' = "fat12"
    /\ UNCHANGED <<disk, files, image, bios, calls, mmap, machine>>

InitFat12 ==
    /\ pc = "fat12"
    /\ TryReads
    /\ fs' = Append(fs, Delivered)
    /\ pc' = IF Len(fs) + 1 = READ_SIZE THEN "find" ELSE pc
    /\ UNCHANGED <<disk, si, entry, image, bios, calls, mmap, machine>>

(***************************************************************************)
(* FindFileByName looks at the first entry only: to go on it advances si,  *)
(* the name, and not di.  repne cmpsb stops at the first pair of EQUAL     *)
(* characters, so one such pair makes a match; behind the kernel's name    *)
(* there is other data, which may or may not match.                        *)
(***************************************************************************)
NoFile ==
    /\ pc = "find"
    /\ disk.root = <<>>
    /\ DisplayError
    /\ NoRead
    /\ UNCHANGED <<disk, files, image, bios, calls, mmap, machine>>

Match ==
    /\ pc = "find"
    /\ disk.root # <<>>
    /\ disk.root[1].kind = "file"
    /\ si = "name" => disk.root[1].alike
    /\ entry' = 1
    /\ pc' = "header"
    /\ NoRead
    /\ UNCHANGED <<disk, fs, si, image, bios, calls, mmap, machine>>

NextName ==
    /\ pc = "find"
    /\ disk.root # <<>>
    /\ disk.root[1].kind = "file" /\ si = "name" => ~disk.root[1].alike
    /\ si' = "behind"
    /\ NoRead
    /\ UNCHANGED <<disk, pc, fs, entry, image, bios, calls, mmap, machine>>

-----------------------------------------------------------------------------
LookUp(fat, behind, c) ==
    IF {c + (c \div 2), c + (c \div 2) + 1} \subseteq DOMAIN fat THEN GetFatEntry(fat, c) ELSE behind[c]

Fat0(c) == LookUp(disk.fat0, BehindFat0, c)
Fat1(c) == LookUp(disk.fat1, BehindFat1, c)

(***************************************************************************)
(* After a cluster was loaded the next one comes from FAT 0.  If the FATs  *)
(* differ it stays what it was, and only the comparison's carry flag       *)
(* tells: an entry of FAT 0 that is the greater one passes for success.    *)
(***************************************************************************)
Corrupt(c) == Fat0(c) < Fat1(c)
NextCluster(c, otherwise) == IF Fat0(c) = Fat1(c) THEN Fat0(c) ELSE otherwise

\* The headers with index k that code reading at segment s may find.
HeadersAt(s, k) ==
    LET first == memory[s * SegmentSectors]
        held(lba) == lba \in DOMAIN disk.sections /\ k \in DOMAIN disk.sections[lba]
        second == memory[s * SegmentSectors + 1]
    IN  IF held(first) THEN {disk.sections[first][k]}
        ELSE IF held(second) THEN {disk.sections[second][k]}
        ELSE GarbageSections

LoadHeader ==
    /\ pc = "header"
    /\ TryReads
    /\ memory' = [memory EXCEPT ![0] = Delivered]
    /\ count' \in IF Delivered \in DOMAIN disk.counts
                  THEN {disk.counts[Delivered]} ELSE GarbageCounts
    /\ di' = NextCluster(Cluster, DirPointer)
    /\ pc' = IF Corrupt(Cluster) THEN "halt"
             ELSE IF count' > 2 THEN "header2" ELSE "section"
    /\ cx' = 0
    /\ UNCHANGED <<disk, files, es, skip, dest, left, bios, calls, mmap, machine>>

\* More than two section headers need the second sector.
LoadHeader2 ==
    /\ pc = "header2"
    /\ TryReads
    /\ memory' = [memory EXCEPT ![1] = Delivered]
    /\ di' = NextCluster(di, di)
    /\ pc' = IF Corrupt(di) THEN "halt" ELSE "section"
    /\ UNCHANGED <<disk, files, es, count, cx, skip, dest, left, bios, calls, mmap, machine>>

NoHeader2 ==
    /\ pc = "header2"
    /\ di = FileEnd
    /\ pc' = "section"
    /\ NoRead
    /\ UNCHANGED <<disk, files, image, bios, calls, mmap, machine>>

\* To the next section, or behind the last.
NextSection ==
    /\ cx' = cx + 1
    /\ pc' = IF cx + 1 < count THEN "section" ELSE "a20"

(***************************************************************************)
(* The RVA is read at the old segment, offset and size at the new one.     *)
(* FileLbaToCluster then follows the chain from the file's first cluster.  *)
(***************************************************************************)
BeginSection ==
    /\ pc = "section"
    /\ \E old \in HeadersAt(es, cx) :
        /\ dest' = old.rva
        /\ es' = old.rva \div SegmentSectors
        /\ \E new \in HeadersAt(es', cx) :
            /\ skip' = new.raw
            /\ left' = new.size
    /\ di' = Cluster
    /\ pc' = "seek"
    /\ NoRead
    /\ UNCHANGED <<disk, files, memory, count, cx, bios, calls, mmap, machine>>

Passable(c) == Fat0(c) = Fat1(c) /\ Fat0(c) < EndMarkers

\* Wrong: passes over one cluster more.
FileLbaToCluster_OneMore ==
    /\ pc = "seek"
    /\ \/ /\ skip > 0
          /\ Passable(di)
          /\ di' = Fat0(di)
          /\ skip' = skip - 1
          /\ UNCHANGED <<pc, cx>>
       \/ /\ skip > 0
          /\ ~Passable(di)
          /\ DisplayError
          /\ UNCHANGED <<di, cx, skip>>
       \/ /\ skip = 0
          /\ IF left = 0 THEN NextSection ELSE pc' = "sector" /\ UNCHANGED cx
          /\ di' = Fat0(di)
          /\ UNCHANGED skip
    /\ NoRead
    /\ UNCHANGED <<disk, files, memory, es, count, dest, left, bios, calls, mmap, machine>>

FileLbaToCluster ==
    /\ pc = "seek"
    /\ \/ /\ skip > 0
          /\ Passable(di)
          /\ di' = Fat0(di)
          /\ skip' = skip - 1
          /\ UNCHANGED <<pc, cx>>
       \/ /\ skip > 0
          /\ ~Passable(di)
          /\ DisplayError
          /\ UNCHANGED <<di, cx, skip>>
       \/ /\ skip = 0
          /\ IF left = 0 THEN NextSection ELSE pc' = "sector" /\ UNCHANGED cx
          /\ UNCHANGED <<di, skip>>
    /\ NoRead
    /\ UNCHANGED <<disk, files, memory, es, count, dest, left, bios, calls, mmap, machine>>

SectorDone ==
    /\ dest' = dest + 1
    /\ es' = (dest + 1) \div SegmentSectors
    /\ left' = left - 1
    /\ IF left = 1 THEN NextSection ELSE UNCHANGED <<pc, cx>>

LoadSector ==
    /\ pc = "sector"
    /\ TryReads
    /\ memory' = [memory EXCEPT ![dest] = Delivered]
    /\ di' = NextCluster(di, di)
    /\ IF Corrupt(di)
       THEN pc' = "wild" /\ UNCHANGED <<es, cx, dest, left>>
       ELSE SectorDone
    /\ UNCHANGED <<disk, files, count, skip, bios, calls, mmap, machine>>

\* Behind the last cluster LoadNextCluster loads nothing, without an error.
NoSector ==
    /\ pc = "sector"
    /\ di = FileEnd
    /\ SectorDone
    /\ NoRead
    /\ UNCHANGED <<disk, files, memory, di, count, skip, bios, calls, mmap, machine>>

-----------------------------------------------------------------------------
(***************************************************************************)
(* enable_a20: a command, then the byte for the output port, each once the *)
(* controller has taken what was sent before (ClearKeyInQueue), with       *)
(* interrupts held off.                                                    *)
(***************************************************************************)
ClearKeyInQueue == controller.buffer = "empty"

Send(byte) == controller' = [controller EXCEPT !.buffer = byte]

SendCommand ==
    /\ pc = "a20"
    /\ ClearKeyInQueue
    /\ Send("command")
    /\ interrupts' = FALSE
    /\ pc' = "a20 byte"
    /\ NoRead
    /\ UNCHANGED <<disk, files, image, bios, calls, mmap, entryFrom>>

\* Wrong: does not wait for the command to be taken.
SendByte_NoWait ==
    /\ pc = "a20 byte"
    /\ Send("byte")
    /\ pc' = "a20 wait"
    /\ NoRead
    /\ UNCHANGED <<disk, files, image, bios, calls, mmap, interrupts, entryFrom>>

SendByte ==
    /\ pc = "a20 byte"
    /\ ClearKeyInQueue
    /\ Send("byte")
    /\ pc' = "a20 wait"
    /\ NoRead
    /\ UNCHANGED <<disk, files, image, bios, calls, mmap, interrupts, entryFrom>>

ByteTaken ==
    /\ pc = "a20 wait"
    /\ ClearKeyInQueue
    /\ interrupts' = TRUE
    /\ pc' = "memoryMap"
    /\ NoRead
    /\ UNCHANGED <<disk, files, image, bios, calls, mmap, controller, entryFrom>>

\* The controller takes a byte, at any time; one without the command is the keyboard's.
ControllerReads ==
    /\ controller.buffer # "empty"
    /\ controller' =
           [buffer  |-> "empty",
            command |-> controller.buffer = "command",
            a20     |-> controller.a20 \/ (controller.buffer = "byte" /\ controller.command)]
    /\ UNCHANGED <<disk, pc, bp, glitches, files, image, bios, calls, mmap, interrupts, entryFrom>>

-----------------------------------------------------------------------------
(***************************************************************************)
(* LoadMemoryMap.  A reply is refused by a jump to the exit, where the     *)
(* carry flag is what the comparison before the jump made it: only a       *)
(* failed call, a signature below "SMAP" and a size below 20 come out as   *)
(* an error.                                                               *)
(***************************************************************************)
Refused(r)  == r.carry \/ r.signature # "SMAP" \/ r.size < 20 \/ r.size > 24
CarrySet(r) ==
    \/ r.carry
    \/ r.signature = "below"
    \/ r.signature = "SMAP" /\ r.size \in 0 .. 19

\* Wrong: counts an entry before its reply is checked.
MapReply_CountsFirst ==
    /\ pc = "memoryMap"
    /\ Len(mmap) < MaxMapEntries
    /\ LET r == bios[calls + 1]
       IN  /\ mmap' = Append(mmap, r.entry)
           /\ pc' = IF Refused(r) THEN (IF CarrySet(r) THEN "halt" ELSE "protected")
                    ELSE IF r.more THEN pc ELSE "protected"
    /\ calls' = calls + 1
    /\ NoRead
    /\ UNCHANGED <<disk, files, image, bios, machine>>

MapReply ==
    /\ pc = "memoryMap"
    /\ Len(mmap) < MaxMapEntries
    /\ LET r == bios[calls + 1]
       IN  IF Refused(r)
           THEN pc' = (IF CarrySet(r) THEN "halt" ELSE "protected") /\ UNCHANGED mmap
           ELSE /\ mmap' = Append(mmap, r.entry)
                /\ pc' = IF r.more THEN pc ELSE "protected"
    /\ calls' = calls + 1
    /\ NoRead
    /\ UNCHANGED <<disk, files, image, bios, machine>>

\* No room for another entry: the map ends here, with the carry flag clear.
MapFull ==
    /\ pc = "memoryMap"
    /\ Len(mmap) = MaxMapEntries
    /\ pc' = "protected"
    /\ NoRead
    /\ UNCHANGED <<disk, files, image, bios, calls, mmap, machine>>

-----------------------------------------------------------------------------
(***************************************************************************)
(* The switch to protected mode, and the jump to the address that          *)
(* GetPeEntryPoint32 reads in the header at the load address.              *)
(***************************************************************************)
GetPeEntryPoint32 == memory[0]

EnterKernel ==
    /\ pc = "protected"
    /\ entryFrom' = GetPeEntryPoint32
    /\ pc' = "kernel"
    /\ NoRead
    /\ UNCHANGED <<disk, files, image, bios, calls, mmap, interrupts, controller>>

\* In protected mode no interrupt has a handler, and kmain has not masked them yet.
Tick ==
    /\ pc = "protected"
    /\ interrupts
    /\ pc' = "fault"
    /\ UNCHANGED <<disk, bp, glitches, files, image, bios, calls, mmap, machine>>

Loader ==
    \/ TryFails
    \/ ReadFails
    \/ LoadReserved
    \/ InitFat12
    \/ NoFile
    \/ Match
    \/ NextName
    \/ LoadHeader
    \/ LoadHeader2
    \/ NoHeader2
    \/ BeginSection
    \/ FileLbaToCluster
    \/ LoadSector
    \/ NoSector
    \/ SendCommand
    \/ SendByte
    \/ ByteTaken
    \/ MapReply
    \/ MapFull
    \/ EnterKernel

Next == Loader \/ ControllerReads \/ Tick

\* Every BIOS call returns, and the controller takes what it is sent.
Spec == Init /\ [][Next]_vars /\ WF_vars(Loader) /\ WF_vars(ControllerReads)
=============================================================================
