-------------------------- MODULE BootLoaderProofs --------------------------
(***************************************************************************)
(* From a sound floppy the kernel is entered with its file in memory, the  *)
(* BIOS's map and the gate open, and booting stops only for a reason: for  *)
(* every geometry, file and memory map, however the reads fail and         *)
(* whenever the keyboard controller runs.                                  *)
(***************************************************************************)
EXTENDS BootLoaderProps, SequenceTheorems, TLAPS

\* Where the loader has read the first sector of the file, and where all of it.
Headed == {"header2", "section", "seek", "sector"}
Past   == {"a20", "a20 byte", "a20 wait", "memoryMap", "protected", "kernel"}

(***************************************************************************)
(* TryInt13Fn2: its counter and the failed tries go together, and it       *)
(* starts at 5 for every read.                                             *)
(***************************************************************************)
ReadInv ==
    /\ bp + glitches = 5
    /\ Wanted = Nothing /\ pc \notin {"halt", "wild"} => bp = 5

FilesInv ==
    /\ fs = [i \in 1 .. Len(fs) |-> N_RESERVED_SECTORS + i - 1]
    /\ pc = "reserved" => Len(fs) = 0
    /\ pc = "fat12" => Len(fs) < READ_SIZE
    /\ pc \notin {"reserved", "fat12", "halt"} => Len(fs) = READ_SIZE
    /\ pc \in Headed \union Past \union {"header"} => entry = 1
    /\ pc \in Headed => LoadClusterByNumber(Cluster) < DiskSectors

\* What any disk makes the loader rely on, a corrupt one too.
PlaceInv ==
    /\ pc \in {"section", "seek", "sector"} => cx < count \/ cx = 0
    /\ pc = "header2" => cx = 0
    /\ pc = "seek" => di \in FatEntry
    /\ pc \in {"seek", "sector"} => dest + left <= MemorySectors
    /\ pc = "sector" => left > 0
    /\ pc = "kernel" => entryFrom = memory[0]

\* The map so far: one entry per reply, none of them the last.
MapInv ==
    /\ mmap \in Seq(STRING)
    /\ \A i \in 1 .. Len(mmap) : mmap[i] = bios[i].entry /\ ~Refused(bios[i])
    /\ pc \notin {"protected", "kernel", "fault", "halt"} =>
          calls = Len(mmap) /\ \A i \in 1 .. Len(mmap) : bios[i].more
    /\ pc \in {"protected", "kernel"} => MapExact

\* What was sent last is on its way, or the controller has acted on it.
GateInv ==
    /\ pc = "a20 byte" => \/ controller.buffer = "command"
                          \/ controller.buffer = "empty" /\ controller.command
    /\ pc = "a20 wait" => \/ controller.buffer = "byte" /\ controller.command
                          \/ controller.buffer = "empty" /\ controller.a20
    /\ pc \in {"memoryMap", "protected", "kernel"} => controller.a20

-----------------------------------------------------------------------------
\* The section being loaded.
Current == disk.image[cx + 1]

(***************************************************************************)
(* Through a sound disk: the loader follows the file's chain, and its      *)
(* segment is the first one wherever it reads a header.                    *)
(***************************************************************************)
FollowsFile ==
    /\ pc \in {"reserved", "fat12", "find", "header", "header2"} => cx = 0 /\ es = 0
    /\ pc \in Headed => count = Len(disk.image) /\ cx < count
    /\ pc = "header2" => count > 2 /\ di = disk.chain[2]
    /\ pc = "section" => es = 0
    /\ pc = "seek" =>
          /\ es = 0
          /\ dest = Current.rva /\ left = Current.size
          /\ skip <= Current.raw /\ di = disk.chain[Current.raw - skip + 1]
    /\ pc = "sector" =>
          /\ left <= Current.size
          /\ dest = Current.rva + Current.size - left
          /\ di = disk.chain[Current.raw + Current.size - left + 1]
    /\ pc \in Past => cx = Len(disk.image)

\* The sectors of memory that are loaded so far.
HeadersDone ==
    CASE pc \in {"reserved", "fat12", "find", "header"} -> {}
      [] pc = "header2" -> {0}
      [] OTHER          -> HeaderSectors

SectionsDone == UNION {SectionSectors(disk.image[i]) : i \in 1 .. cx}
PartDone     == IF pc = "sector" THEN Current.rva .. (dest - 1) ELSE {}
Done         == HeadersDone \union SectionsDone \union PartDone

SoFar == \A a \in DOMAIN memory : memory[a] = IF a \in Done THEN Loaded(a) ELSE Nothing

LoadInv == Sound /\ pc \notin {"halt", "wild", "fault"} => FollowsFile /\ SoFar

IInv ==
    /\ TypeOK
    /\ ReadInv
    /\ FilesInv
    /\ PlaceInv
    /\ MapInv
    /\ GateInv
    /\ LoadInv
-----------------------------------------------------------------------------
\* The sizes as numbers.
LEMMA Sizes ==
    /\ N_RESERVED_SECTORS \in Nat \ {0} /\ READ_SIZE \in Nat \ {0}
    /\ SECTORS_PER_TRACK \in Nat \ {0} /\ N_HEADS \in Nat \ {0} /\ N_CYLINDERS \in Nat \ {0}
    /\ SegmentSectors \in Nat /\ SegmentSectors > 1
    /\ MemorySectors \in Nat /\ MemorySectors > 1
    /\ MaxMapEntries \in Nat \ {0}
    /\ DATA_BASE_DISK_SECTOR \in Nat /\ DATA_BASE_DISK_SECTOR > 2
    /\ DATA_BASE_DISK_SECTOR = N_RESERVED_SECTORS + READ_SIZE
    /\ DiskSectors \in Nat /\ DATA_BASE_DISK_SECTOR < DiskSectors /\ DiskSectors <= 4080
<1>1. /\ {N_RESERVED_SECTORS, READ_SIZE, SECTORS_PER_TRACK, N_HEADS, N_CYLINDERS,
          MaxMapEntries} \subseteq Nat \ {0}
      /\ {SegmentSectors, MemorySectors} \subseteq Nat \ {0, 1}
  BY GeometryAssumption
<1>2. DiskSectors \in Nat
  <2>1. SECTORS_PER_TRACK \in Nat /\ N_HEADS \in Nat /\ N_CYLINDERS \in Nat
    BY <1>1
  <2>2. SECTORS_PER_TRACK * N_HEADS \in Nat
    BY <2>1
  <2>3. SECTORS_PER_TRACK * N_HEADS * N_CYLINDERS \in Nat
    BY <2>1, <2>2
  <2> QED  BY <2>3 DEF DiskSectors
<1> QED  BY <1>1, <1>2, GeometryAssumption DEF DATA_BASE_DISK_SECTOR, EndMarkers

LEMMA Quotient ==
    ASSUME NEW a \in Nat, NEW d \in Nat \ {0}
    PROVE  a \div d \in Nat /\ a % d \in Nat /\ a = (a \div d) * d + (a % d)
OBVIOUS

(***************************************************************************)
(* The BIOS delivers the sector that was asked for: cylinder, head and     *)
(* sector lead back to the LBA.                                            *)
(***************************************************************************)
THEOREM ChsIsLba ==
    ASSUME NEW lba \in Nat
    PROVE  /\ SectorAt(LbaToChs(lba)) = lba
           /\ LbaToChs(lba).sector \in 1 .. SECTORS_PER_TRACK
           /\ LbaToChs(lba).head \in 0 .. N_HEADS - 1
<1> DEFINE track == lba \div SECTORS_PER_TRACK
<1>1. track \in Nat /\ lba % SECTORS_PER_TRACK \in Nat
      /\ lba = track * SECTORS_PER_TRACK + (lba % SECTORS_PER_TRACK)
  BY Sizes, Quotient
<1>2. track = (track \div N_HEADS) * N_HEADS + (track % N_HEADS)
  BY <1>1, Sizes, Quotient
<1>3. LbaToChs(lba) = [sector |-> (lba % SECTORS_PER_TRACK) + 1, head |-> track % N_HEADS,
                       cylinder |-> track \div N_HEADS]
  BY DEF LbaToChs
<1>4. lba % SECTORS_PER_TRACK < SECTORS_PER_TRACK /\ track % N_HEADS \in 0 .. N_HEADS - 1
  BY <1>1, Sizes
<1> HIDE DEF track
<1>5. SectorAt(LbaToChs(lba))
        = track * SECTORS_PER_TRACK + ((lba % SECTORS_PER_TRACK) + 1) - 1
  BY <1>2, <1>3 DEF SectorAt
<1>6. track * SECTORS_PER_TRACK \in Nat
  BY <1>1, Sizes
<1>7. SectorAt(LbaToChs(lba)) = lba
  BY <1>1, <1>5, <1>6
<1> QED  BY <1>1, <1>3, <1>4, <1>7, Sizes

-----------------------------------------------------------------------------
\* An entry of a table is twelve bits, and is never the place of the directory.
LEMMA FatEntryType ==
    ASSUME NEW fat, \A o \in DOMAIN fat : fat[o] \in Byte,
           NEW c \in FatEntry, {c + (c \div 2), c + (c \div 2) + 1} \subseteq DOMAIN fat
    PROVE  GetFatEntry(fat, c) \in FatEntry
<1> DEFINE lo == fat[c + (c \div 2)]
           hi == fat[c + (c \div 2) + 1]
           ax == lo + 256 * hi
<1>1. lo \in 0 .. 255 /\ hi \in 0 .. 255
  BY DEF Byte
<1>2. GetFatEntry(fat, c) = IF c % 2 = 0 THEN ax % 4096 ELSE ax \div 16
  BY DEF GetFatEntry
<1> HIDE DEF lo, hi
<1> QED  BY <1>1, <1>2 DEF FatEntry

\* What the loader knows of a disk: every lookup gives an entry, behind the tables too.
LEMMA DiskType ==
    ASSUME TypeOK
    PROVE  /\ disk \in Disks /\ disk.root \in Seq(Entry)
           /\ \A c \in FatEntry : Fat0(c) \in FatEntry /\ Fat1(c) \in FatEntry
<1>1. disk \in Disks
  BY DEF TypeOK
<1>2. ASSUME NEW fat \in {disk.fat0, disk.fat1}, NEW behind \in {BehindFat0, BehindFat1},
             NEW c \in FatEntry
      PROVE  LookUp(fat, behind, c) \in FatEntry
  <2>1. \A o \in DOMAIN fat : fat[o] \in Byte
    BY <1>1, TablesAssumption
  <2>2. behind[c] \in FatEntry
    BY TablesAssumption
  <2>3. CASE {c + (c \div 2), c + (c \div 2) + 1} \subseteq DOMAIN fat
    BY <2>1, <2>3, FatEntryType DEF LookUp
  <2>4. CASE ~({c + (c \div 2), c + (c \div 2) + 1} \subseteq DOMAIN fat)
    BY <2>2, <2>4 DEF LookUp
  <2> QED  BY <2>3, <2>4
<1> QED  BY <1>1, <1>2, DisksAssumption DEF Fat0, Fat1

\* The first cluster of the file.
LEMMA ClusterType ==
    ASSUME TypeOK, entry = 1
    PROVE  Cluster \in FatEntry
<1>1. disk.root \in Seq(Entry) /\ entry \in 0 .. Len(disk.root)
  BY DiskType DEF TypeOK
<1>2. disk.root[entry] \in Entry
  BY <1>1
<1> QED  BY <1>2 DEF Cluster, Entry

(***************************************************************************)
(* A read asks for a sector of the disk behind the first; nothing is asked *)
(* for where no read is made.                                              *)
(***************************************************************************)
LEMMA WantedType ==
    ASSUME TypeOK, FilesInv
    PROVE  /\ Wanted \in Nat
           /\ Wanted = Nothing <=>
                 \/ pc \notin {"reserved", "fat12", "header", "header2", "sector"}
                 \/ pc \in {"header2", "sector"} /\ di = FileEnd
           /\ pc \in {"header2", "sector"} /\ Wanted # Nothing /\ Readable =>
                 di \in FatEntry
<1>1. Len(fs) \in Nat /\ di \in FatEntry \union {DirPointer}
  BY LenProperties DEF TypeOK
<1>2. FatEntry \subseteq Nat /\ DirPointer \in Nat /\ DirPointer > 4080
  BY DEF FatEntry, DirPointer
<1>3. pc = "header" => Cluster \in FatEntry
  BY ClusterType DEF FilesInv
<1>4. \A c \in Nat : LoadClusterByNumber(c) \in Nat /\ LoadClusterByNumber(c) # 0 /\ LoadClusterByNumber(c) > c
  BY Sizes DEF LoadClusterByNumber
<1>5. Wanted \in Nat /\ (Wanted = Nothing <=>
                 \/ pc \notin {"reserved", "fat12", "header", "header2", "sector"}
                 \/ pc \in {"header2", "sector"} /\ di = FileEnd)
  <2>1. CASE pc = "reserved"
    BY <2>1 DEF Wanted, Nothing
  <2>2. CASE pc = "fat12"
    BY <1>1, <2>2, Sizes DEF Wanted, Nothing
  <2>3. CASE pc = "header"
    BY <1>2, <1>3, <1>4, <2>3 DEF Wanted, Nothing
  <2>4. CASE pc \in {"header2", "sector"}
    BY <1>1, <1>2, <1>4, <2>4 DEF Wanted, Nothing
  <2>5. CASE pc \notin {"reserved", "fat12", "header", "header2", "sector"}
    BY <2>5 DEF Wanted, Nothing
  <2> QED  BY <2>1, <2>2, <2>3, <2>4, <2>5
<1>6. ASSUME pc \in {"header2", "sector"}, Wanted # Nothing, Readable
      PROVE  di \in FatEntry
  <2>1. Wanted = LoadClusterByNumber(di)
    BY <1>5, <1>6 DEF Wanted
  <2>2. LoadClusterByNumber(di) < DiskSectors
    BY <1>6, <2>1 DEF Readable
  <2>3. di # DirPointer
    BY <1>2, <1>4, <2>2, Sizes
  <2> QED  BY <1>1, <2>3
<1> QED  BY <1>5, <1>6

\* A sector that was read is the one asked for.
LEMMA DeliveredIs ==
    ASSUME TypeOK, FilesInv
    PROVE  Delivered = Wanted /\ (TryReads => Delivered \in 0 .. DiskSectors - 1 /\ Readable)
<1>1. Wanted \in Nat
  BY WantedType
<1> QED  BY <1>1, ChsIsLba, Sizes DEF Delivered, TryReads, Readable

\* A header the loader finds is one of the disk's, or garbage.
LEMMA HeaderType ==
    ASSUME TypeOK, NEW s, NEW t, NEW k, NEW old \in HeadersAt(s, k), NEW new \in HeadersAt(t, k)
    PROVE  /\ old \in Section /\ new \in Section
           /\ old.rva + new.size <= MemorySectors
<1>1. disk \in Disks
  BY DEF TypeOK
<1> DEFINE Headers == GarbageSections \union
                UNION {{disk.sections[lba][j] : j \in DOMAIN disk.sections[lba]} : lba \in DOMAIN disk.sections}
<1>2. \A x \in Headers : x \in Section
  BY <1>1, DisksAssumption
<1>3. \A x, y \in Headers : x.rva + y.size <= MemorySectors
  BY <1>1, MemoryAssumption
<1>4. old \in Headers /\ new \in Headers
  BY DEF HeadersAt
<1> QED  BY <1>2, <1>3, <1>4

-----------------------------------------------------------------------------
LEMMA EntryNat == \A c \in FatEntry : c \in Nat
BY DEF FatEntry

\* The types one by one.
LEMMA Kinds ==
    ASSUME TypeOK
    PROVE  /\ bp \in 1 .. 5 /\ glitches \in 0 .. 4
           /\ Len(fs) \in Nat /\ Len(mmap) <= MaxMapEntries
           /\ di \in FatEntry \union {DirPointer}
           /\ es \in Nat /\ count \in Nat /\ cx \in Nat /\ skip \in Nat /\ left \in Nat
           /\ dest \in 0 .. MemorySectors
           /\ memory \in [0 .. MemorySectors - 1 -> 0 .. DiskSectors - 1]
           /\ bios \in BiosMaps /\ calls \in 0 .. Len(bios)
<1>1. /\ bp \in 1 .. 5 /\ glitches \in 0 .. 4
      /\ di \in FatEntry \union {DirPointer}
      /\ es \in Nat /\ count \in Nat /\ skip \in Nat /\ left \in Nat
      /\ dest \in 0 .. MemorySectors
      /\ memory \in [0 .. MemorySectors - 1 -> 0 .. DiskSectors - 1]
      /\ bios \in BiosMaps /\ calls \in 0 .. Len(bios) /\ Len(mmap) <= MaxMapEntries
  BY DEF TypeOK
<1>2. Len(fs) \in Nat
  BY LenProperties DEF TypeOK
<1>3. cx \in 0 .. (IF count = 0 THEN 1 ELSE count)
  BY DEF TypeOK
<1>4. cx \in Nat
  BY <1>1, <1>3
<1> QED  BY <1>1, <1>2, <1>4

\* A read is made, one has failed, or there was none to make.
LEMMA Counter ==
    ASSUME TypeOK, ReadInv, FilesInv, Next
    PROVE  \/ TryFails
           \/ ReadFails
           \/ UNCHANGED <<disk, pc, bp, glitches, files, image>>
           \/ bp' = 5 /\ glitches' = 0
<1>1. pc \notin {"reserved", "fat12", "header", "header2", "sector", "halt", "wild"}
        => bp = 5 /\ glitches = 0
  BY WantedType, Kinds, SMTT(30) DEF ReadInv
<1>2. Wanted = Nothing /\ pc \notin {"halt", "wild"} => bp = 5 /\ glitches = 0
  BY Kinds DEF ReadInv
<1>3. CASE LoadReserved \/ InitFat12 \/ LoadHeader \/ LoadHeader2 \/ LoadSector
  BY <1>3 DEF LoadReserved, InitFat12, LoadHeader, LoadHeader2, LoadSector, TryReads
<1>4. CASE NoFile \/ Match \/ NextName
  BY <1>1, <1>4 DEF NoFile, Match, NextName, NoRead
<1>5. CASE NoHeader2 \/ BeginSection \/ FileLbaToCluster \/ NoSector
  BY <1>1, <1>2, <1>5 DEF NoHeader2, BeginSection, FileLbaToCluster, NoSector, NoRead
<1>6. CASE SendCommand \/ SendByte \/ ByteTaken
  BY <1>1, <1>6 DEF SendCommand, SendByte, ByteTaken, NoRead
<1>7. CASE MapReply \/ MapFull \/ EnterKernel \/ Tick
  BY <1>1, <1>7 DEF MapReply, MapFull, EnterKernel, Tick, NoRead
<1>8. CASE ControllerReads
  BY <1>8 DEF ControllerReads
<1> QED  BY <1>3, <1>4, <1>5, <1>6, <1>7, <1>8 DEF Next, Loader

LEMMA SameRead ==
    ASSUME UNCHANGED <<disk, pc, files, image>>
    PROVE  Wanted' = Wanted /\ Readable' = Readable
BY DEF Wanted, Readable, Asked, Cluster, files, image

LEMMA ReadStep ==
    ASSUME TypeOK, ReadInv, FilesInv, [Next]_vars
    PROVE  ReadInv'
<1>1. CASE TryFails
  <2>1. Wanted' = Wanted /\ Readable' = Readable /\ pc' = pc
    BY <1>1, SameRead DEF TryFails
  <2>4. bp \in Nat /\ glitches \in Nat
    BY Kinds
  <2>2. bp' = bp - 1 /\ glitches' = glitches + 1 /\ bp \in Nat /\ glitches \in Nat
    BY <1>1, <2>4 DEF TryFails
  <2>3. Wanted # Nothing
    BY <1>1 DEF TryFails
  <2> QED  BY <2>1, <2>2, <2>3 DEF ReadInv
<1>2. CASE ReadFails
  <2>1. pc' \in {"halt", "wild"} /\ bp' = bp /\ glitches' = glitches
    BY <1>2 DEF ReadFails
  <2>2. Wanted' = Nothing
    BY <2>1 DEF Wanted
  <2> QED  BY <2>1, <2>2 DEF ReadInv
<1>3. CASE UNCHANGED <<disk, pc, bp, glitches, files, image>>
  BY <1>3, SameRead DEF ReadInv
<1>4. CASE bp' = 5 /\ glitches' = 0
  BY <1>4, Sizes DEF ReadInv
<1> QED  BY <1>1, <1>2, <1>3, <1>4, Counter DEF vars

\* A read is given up after four failures in a row.
LEMMA GivesUp ==
    ASSUME TypeOK, ReadInv, ReadFails
    PROVE  glitches = 4
<1>1. bp = 1 /\ bp + glitches = 5
  BY DEF ReadInv, ReadFails
<1>2. glitches \in 0 .. 4
  BY Kinds
<1> QED  BY <1>1, <1>2

-----------------------------------------------------------------------------
\* Where a step leads that is no part of reading the file system.
LEMMA Onward ==
    ASSUME TypeOK, Next
    PROVE  \/ LoadReserved \/ InitFat12 \/ Match \/ LoadHeader
           \/ /\ UNCHANGED <<disk, fs, entry>>
              /\ \/ pc' = pc
                 \/ pc' = "halt"
                 \/ pc \in Headed \union Past /\ pc' = "fault"
                 \/ pc \in Headed /\ pc' \in Headed \union Past \union {"wild"}
                 \/ pc \in Past /\ pc' \in Past
<1>1. CASE TryFails \/ ReadFails \/ NoFile \/ NextName \/ ControllerReads
  BY <1>1 DEF TryFails, ReadFails, NoFile, NextName, ControllerReads, DisplayError, files, Headed
<1>2. CASE LoadHeader2 \/ NoHeader2 \/ BeginSection \/ FileLbaToCluster
  BY <1>2 DEF LoadHeader2, NoHeader2, BeginSection, FileLbaToCluster, NextSection,
              DisplayError, files, Headed, Past
<1>3. CASE LoadSector \/ NoSector
  BY <1>3 DEF LoadSector, NoSector, SectorDone, NextSection, files, Headed, Past
<1>4. CASE SendCommand \/ SendByte \/ ByteTaken \/ MapReply \/ MapFull \/ EnterKernel \/ Tick
  BY <1>4 DEF SendCommand, SendByte, ByteTaken, MapReply, MapFull, EnterKernel, Tick,
              files, Headed, Past
<1> QED  BY <1>1, <1>2, <1>3, <1>4 DEF Next, Loader

LEMMA Appended ==
    ASSUME NEW S, NEW q \in Seq(S), NEW e \in S
    PROVE  /\ Append(q, e) \in Seq(S)
           /\ Append(q, e) = [i \in 1 .. Len(q) + 1 |-> IF i <= Len(q) THEN q[i] ELSE e]
           /\ Len(Append(q, e)) = Len(q) + 1 /\ Len(q) \in Nat
<1>1. /\ Append(q, e) \in Seq(S) /\ Len(Append(q, e)) = Len(q) + 1
      /\ \A i \in 1 .. Len(q) : Append(q, e)[i] = q[i]
      /\ Append(q, e)[Len(q) + 1] = e
  BY AppendProperties
<1>2. Len(q) \in Nat
  BY LenProperties
<1>3. Append(q, e) = [i \in 1 .. Len(q) + 1 |-> Append(q, e)[i]]
  BY <1>1, LenProperties
<1>4. \A i \in 1 .. Len(q) + 1 : Append(q, e)[i] = IF i <= Len(q) THEN q[i] ELSE e
  BY <1>1, <1>2
<1> QED  BY <1>1, <1>2, <1>3, <1>4

LEMMA FilesStep ==
    ASSUME TypeOK, FilesInv, [Next]_vars
    PROVE  FilesInv'
<1>1. CASE LoadReserved
  BY <1>1, Sizes DEF LoadReserved, files, FilesInv, Headed, Past
<1>2. CASE InitFat12
  <2>1. /\ fs' = Append(fs, Delivered) /\ UNCHANGED <<disk, entry>> /\ pc = "fat12"
        /\ pc' = IF Len(fs) + 1 = READ_SIZE THEN "find" ELSE pc
    BY <1>2 DEF InitFat12
  <2>2. Delivered = N_RESERVED_SECTORS + Len(fs)
    BY <2>1, DeliveredIs DEF Wanted
  <2>3. fs \in Seq(0 .. DiskSectors - 1) /\ Delivered \in 0 .. DiskSectors - 1
    BY <1>2, DeliveredIs DEF TypeOK, InitFat12
  <2>4. /\ fs' = [i \in 1 .. Len(fs) + 1 |-> IF i <= Len(fs) THEN fs[i] ELSE Delivered]
        /\ Len(fs') = Len(fs) + 1 /\ Len(fs) \in Nat
    <3> DEFINE S == 0 .. DiskSectors - 1
               q == Append(fs, Delivered)
    <3>1. fs \in Seq(S) /\ Delivered \in S
      BY <2>3
    <3> HIDE DEF S
    <3>2. /\ q = [i \in 1 .. Len(fs) + 1 |-> IF i <= Len(fs) THEN fs[i] ELSE Delivered]
          /\ Len(q) = Len(fs) + 1 /\ Len(fs) \in Nat
      BY <3>1, Appended
    <3>3. fs' = q
      BY <2>1
    <3> HIDE DEF q
    <3> QED  BY <3>2, <3>3
  <2>5. \A i \in 1 .. Len(fs) : fs[i] = N_RESERVED_SECTORS + i - 1
    <3>1. fs = [i \in 1 .. Len(fs) |-> N_RESERVED_SECTORS + i - 1]
      BY DEF FilesInv
    <3> QED  BY <3>1
  <2>6. fs' = [i \in 1 .. Len(fs') |-> N_RESERVED_SECTORS + i - 1]
    <3>1. \A i \in 1 .. Len(fs) + 1 :
             (IF i <= Len(fs) THEN fs[i] ELSE Delivered) = N_RESERVED_SECTORS + i - 1
      BY <2>2, <2>4, <2>5, Sizes
    <3> QED  BY <2>4, <3>1
  <2>7. Len(fs) < READ_SIZE
    BY <2>1 DEF FilesInv
  <2> QED  BY <2>1, <2>4, <2>6, <2>7, Sizes DEF FilesInv, Headed, Past
<1>3. CASE Match
  BY <1>3 DEF Match, FilesInv, Headed, Past
<1>4. CASE LoadHeader
  <2>1. pc = "header" /\ pc' \in {"halt", "header2", "section"} /\ UNCHANGED <<disk, fs, entry>>
    BY <1>4 DEF LoadHeader, files
  <2>2. LoadClusterByNumber(Cluster) < DiskSectors
    BY <1>4, <2>1 DEF LoadHeader, TryReads, Readable, Wanted
  <2> QED  BY <2>1, <2>2 DEF FilesInv, Headed, Past, Cluster
<1>5. CASE UNCHANGED vars
  BY <1>5 DEF vars, files, FilesInv, Cluster
<1>6. CASE /\ UNCHANGED <<disk, fs, entry>>
           /\ \/ pc' = pc
              \/ pc' = "halt"
              \/ pc \in Headed \union Past /\ pc' = "fault"
              \/ pc \in Headed /\ pc' \in Headed \union Past \union {"wild"}
              \/ pc \in Past /\ pc' \in Past
  BY <1>6 DEF FilesInv, Headed, Past, Cluster
<1> QED  BY <1>1, <1>2, <1>3, <1>4, <1>5, <1>6, Onward

-----------------------------------------------------------------------------
\* The tables lead to entries, and sections into memory.
LEMMA PlaceStep ==
    ASSUME TypeOK, FilesInv, PlaceInv, [Next]_vars
    PROVE  PlaceInv'
<1>0. /\ count \in Nat /\ cx \in Nat /\ left \in Nat /\ dest \in Nat
  BY Kinds, Sizes
<1>1. CASE LoadHeader
  BY <1>1 DEF LoadHeader, PlaceInv
<1>2. CASE LoadHeader2 \/ NoHeader2
  BY <1>2 DEF LoadHeader2, NoHeader2, PlaceInv, image
<1>3. CASE BeginSection
  <2>1. /\ pc = "section" /\ pc' = "seek" /\ di' = Cluster /\ UNCHANGED <<disk, count, cx>>
    BY <1>3 DEF BeginSection
  <2>2. di' \in FatEntry
    BY <2>1, ClusterType, DiskType DEF FilesInv, Headed
  <2>3. PICK old \in HeadersAt(es, cx) :
          /\ dest' = old.rva
          /\ \E new \in HeadersAt(es', cx) : left' = new.size
    BY <1>3 DEF BeginSection
  <2>4. PICK new \in HeadersAt(es', cx) : left' = new.size
    BY <2>3
  <2>5. dest' + left' <= MemorySectors
    BY <2>3, <2>4, HeaderType
  <2> QED  BY <2>1, <2>2, <2>5 DEF PlaceInv
<1>4. CASE FileLbaToCluster
  <2>1. /\ pc = "seek" /\ UNCHANGED <<disk, count, dest, left>>
        /\ di \in FatEntry /\ dest + left <= MemorySectors
        /\ cx < count \/ cx = 0
    BY <1>4 DEF FileLbaToCluster, PlaceInv
  <2>2. CASE skip > 0 /\ Passable(di) /\ di' = Fat0(di) /\ UNCHANGED <<pc, cx>>
    <3>1. di' \in FatEntry
      BY <2>1, <2>2, DiskType DEF Passable
    <3> QED  BY <2>1, <2>2, <3>1 DEF PlaceInv
  <2>3. CASE DisplayError
    BY <2>3 DEF DisplayError, PlaceInv
  <2>4. CASE left = 0 /\ NextSection
    BY <1>0, <2>1, <2>4 DEF NextSection, PlaceInv
  <2>5. CASE left # 0 /\ pc' = "sector" /\ cx' = cx
    BY <1>0, <2>1, <2>5 DEF PlaceInv
  <2> QED  BY <1>4, <2>2, <2>3, <2>4, <2>5 DEF FileLbaToCluster
<1>5. CASE LoadSector \/ NoSector
  <2>1. /\ pc = "sector" /\ count' = count /\ left > 0 /\ dest + left <= MemorySectors
        /\ cx < count \/ cx = 0
    BY <1>5 DEF LoadSector, NoSector, PlaceInv
  <2>2. pc' = "wild" \/ SectorDone
    BY <1>5 DEF LoadSector, NoSector
  <2>3. CASE pc' = "wild"
    BY <2>3 DEF PlaceInv
  <2>4. CASE left = 1 /\ NextSection
    BY <1>0, <2>1, <2>4 DEF NextSection, PlaceInv
  <2>5. CASE left # 1 /\ SectorDone
    <3>1. dest' = dest + 1 /\ left' = left - 1 /\ UNCHANGED <<pc, cx>>
      BY <2>5 DEF SectorDone
    <3>2. dest' + left' <= MemorySectors /\ left' > 0
      BY <1>0, <2>1, <2>5, <3>1, Sizes
    <3> QED  BY <2>1, <3>1, <3>2 DEF PlaceInv
  <2> QED  BY <2>2, <2>3, <2>4, <2>5 DEF SectorDone
<1>6. CASE EnterKernel
  BY <1>6 DEF EnterKernel, GetPeEntryPoint32, PlaceInv, image
<1>7. CASE LoadReserved \/ InitFat12 \/ NoFile \/ Match \/ NextName
  BY <1>7 DEF LoadReserved, InitFat12, NoFile, Match, NextName, DisplayError, PlaceInv
<1>8. CASE SendCommand \/ SendByte \/ ByteTaken \/ MapReply \/ MapFull \/ Tick \/ ReadFails
  BY <1>8 DEF SendCommand, SendByte, ByteTaken, MapReply, MapFull, Tick, ReadFails, PlaceInv
<1>9. CASE TryFails
  BY <1>9 DEF TryFails, PlaceInv, image, machine
<1>10. CASE ControllerReads
  BY <1>10 DEF ControllerReads, PlaceInv, image
<1>11. CASE UNCHANGED vars
  BY <1>11 DEF vars, PlaceInv, image, machine
<1> QED  BY <1>1, <1>2, <1>3, <1>4, <1>5, <1>6, <1>7, <1>8, <1>9, <1>10, <1>11 DEF Next, Loader

(***************************************************************************)
(* The gate: the byte is sent only once the controller has the command,    *)
(* and the map is asked for only once it has the byte.                     *)
(***************************************************************************)
LEMMA GateStep ==
    ASSUME TypeOK, GateInv, [Next]_vars
    PROVE  GateInv'
<1>0. controller \in [buffer : {"empty", "other", "command", "byte"}, command : BOOLEAN,
                      a20 : BOOLEAN]
  BY DEF TypeOK
<1>1. CASE SendCommand
  <2>1. pc' = "a20 byte" /\ controller'.buffer = "command"
    BY <1>0, <1>1 DEF SendCommand, Send
  <2> QED  BY <2>1 DEF GateInv
<1>2. CASE SendByte
  <2>1. /\ pc = "a20 byte" /\ pc' = "a20 wait" /\ controller.buffer = "empty"
        /\ controller' = [controller EXCEPT !.buffer = "byte"]
    BY <1>2 DEF SendByte, Send, ClearKeyInQueue
  <2>2. controller'.buffer = "byte" /\ controller'.command = controller.command
    BY <1>0, <2>1
  <2> QED  BY <2>1, <2>2 DEF GateInv
<1>3. CASE ByteTaken
  BY <1>3 DEF ByteTaken, ClearKeyInQueue, GateInv
<1>4. CASE ControllerReads
  <2>1. /\ controller.buffer # "empty" /\ pc' = pc
        /\ controller' = [buffer |-> "empty", command |-> controller.buffer = "command",
              a20 |-> controller.a20 \/ (controller.buffer = "byte" /\ controller.command)]
    BY <1>4 DEF ControllerReads
  <2>2. /\ controller'.buffer = "empty"
        /\ controller'.command = (controller.buffer = "command")
        /\ controller'.a20 = (controller.a20 \/ (controller.buffer = "byte" /\ controller.command))
    BY <2>1
  <2> HIDE DEF GateInv
  <2>3. pc' = "a20 byte" => controller'.command
    BY <2>1, <2>2 DEF GateInv
  <2>4. pc' = "a20 wait" => controller'.a20
    BY <2>1, <2>2 DEF GateInv
  <2>5. pc' \in {"memoryMap", "protected", "kernel"} => controller'.a20
    BY <2>1, <2>2 DEF GateInv
  <2> QED  BY <2>2, <2>3, <2>4, <2>5 DEF GateInv
<1>5. CASE LoadReserved \/ InitFat12 \/ NoFile \/ Match \/ NextName \/ ReadFails
  BY <1>5 DEF LoadReserved, InitFat12, NoFile, Match, NextName, ReadFails, DisplayError, GateInv
<1>6. CASE LoadHeader \/ LoadHeader2 \/ NoHeader2 \/ BeginSection \/ FileLbaToCluster
  BY <1>6 DEF LoadHeader, LoadHeader2, NoHeader2, BeginSection, FileLbaToCluster,
              NextSection, DisplayError, GateInv
<1>7. CASE LoadSector \/ NoSector
  BY <1>7 DEF LoadSector, NoSector, SectorDone, NextSection, GateInv
<1>8. CASE MapReply \/ MapFull \/ EnterKernel \/ Tick
  BY <1>8 DEF MapReply, MapFull, EnterKernel, Tick, machine, GateInv
<1>9. CASE TryFails \/ UNCHANGED vars
  BY <1>9 DEF TryFails, vars, machine, GateInv
<1> QED  BY <1>1, <1>2, <1>3, <1>4, <1>5, <1>6, <1>7, <1>8, <1>9 DEF Next, Loader

-----------------------------------------------------------------------------
\* The BIOS still has a reply when it is asked.
LEMMA Answers ==
    ASSUME TypeOK, MapInv, pc = "memoryMap", Len(mmap) < MaxMapEntries
    PROVE  /\ bios \in Seq(Reply) /\ Len(bios) \in Nat
           /\ calls = Len(mmap) /\ calls + 1 \in 1 .. Len(bios) /\ bios[calls + 1] \in Reply
<1>1. bios \in BiosMaps /\ calls \in 0 .. Len(bios)
  BY Kinds
<1>2. /\ bios \in Seq(Reply) /\ bios # <<>>
      /\ Len(bios) > MaxMapEntries \/ ~bios[Len(bios)].more
            \/ bios[Len(bios)].carry \/ bios[Len(bios)].signature # "SMAP"
            \/ bios[Len(bios)].size \notin 20 .. 24
  BY <1>1, BiosAssumption
<1>3. calls = Len(mmap) /\ \A i \in 1 .. Len(mmap) : bios[i].more /\ ~Refused(bios[i])
  BY DEF MapInv
<1>4. Len(bios) \in Nat /\ Len(bios) # 0
  BY <1>2, EmptySeq, LenProperties
<1>5. calls # Len(bios)
  <2>1. SUFFICES ASSUME calls = Len(bios) PROVE FALSE
    OBVIOUS
  <2>2. Len(bios) \in 1 .. Len(mmap)
    BY <1>3, <1>4, <2>1
  <2>3. bios[Len(bios)].more /\ ~Refused(bios[Len(bios)])
    BY <1>3, <2>2
  <2>4. bios[Len(bios)] \in Reply
    BY <1>2, <1>4, ElementOfSeq
  <2>5. bios[Len(bios)].size \in 20 .. 24
    BY <2>3, <2>4 DEF Refused, Reply
  <2>6. ~(Len(bios) > MaxMapEntries)
    BY <1>3, <1>4, <2>1, Sizes
  <2> QED  BY <1>2, <2>3, <2>5, <2>6 DEF Refused
<1>6. calls + 1 \in 1 .. Len(bios)
  BY <1>1, <1>4, <1>5
<1> QED  BY <1>2, <1>3, <1>4, <1>6, ElementOfSeq

LEMMA MapStep ==
    ASSUME TypeOK, MapInv, [Next]_vars
    PROVE  MapInv'
<1>0. mmap \in Seq(STRING) /\ Len(mmap) \in Nat
  BY LenProperties DEF MapInv
<1>1. CASE MapReply
  <2> DEFINE n == Len(mmap)
             r == bios[calls + 1]
  <2>1. /\ pc = "memoryMap" /\ n < MaxMapEntries /\ calls' = calls + 1 /\ bios' = bios
    BY <1>1 DEF MapReply
  <2>2. calls = n /\ r \in Reply /\ n + 1 \in 1 .. Len(bios)
    BY <2>1, Answers
  <2>3. /\ \A i \in 1 .. n : mmap[i] = bios[i].entry /\ ~Refused(bios[i]) /\ bios[i].more
    BY <2>1 DEF MapInv
  <2>4. CASE Refused(r)
    <3>1. mmap' = mmap /\ pc' \in {"halt", "protected"}
      BY <1>1, <2>4 DEF MapReply
    <3>2. Refused(bios[n + 1])
      BY <2>2, <2>4
    <3> QED  BY <1>0, <2>1, <2>3, <3>1, <3>2 DEF MapInv, MapExact
  <2>5. CASE ~Refused(r)
    <3>1. /\ mmap' = Append(mmap, r.entry)
          /\ pc' = IF r.more THEN pc ELSE "protected"
      BY <1>1, <2>5 DEF MapReply
    <3>2. r.entry \in STRING
      BY <2>2 DEF Reply
    <3>3. /\ mmap' \in Seq(STRING) /\ Len(mmap') = n + 1
          /\ mmap' = [i \in 1 .. n + 1 |-> IF i <= n THEN mmap[i] ELSE r.entry]
      <4> DEFINE q == Append(mmap, r.entry)
      <4>1. /\ q \in Seq(STRING) /\ Len(q) = n + 1
            /\ q = [i \in 1 .. n + 1 |-> IF i <= n THEN mmap[i] ELSE r.entry]
        BY <1>0, <3>2, Appended
      <4>2. mmap' = q
        BY <3>1
      <4> HIDE DEF q
      <4> QED  BY <4>1, <4>2
    <3>4. \A i \in 1 .. n + 1 : mmap'[i] = bios[i].entry /\ ~Refused(bios[i])
      <4>1. mmap'[n + 1] = bios[n + 1].entry /\ ~Refused(bios[n + 1])
        BY <1>0, <2>2, <2>5, <3>3
      <4>2. \A i \in 1 .. n : mmap'[i] = bios[i].entry /\ ~Refused(bios[i])
        BY <1>0, <2>3, <3>3
      <4> QED  BY <1>0, <4>1, <4>2
    <3>5. r.more => \A i \in 1 .. n + 1 : bios[i].more
      BY <1>0, <2>2, <2>3
    <3>6. CASE r.more
      BY <2>1, <2>2, <3>1, <3>3, <3>4, <3>5, <3>6 DEF MapInv
    <3>7. CASE ~r.more
      <4>1. pc' = "protected" /\ ~bios[n + 1].more
        BY <2>2, <3>1, <3>7
      <4>2. MapExact'
        BY <1>0, <2>1, <3>3, <3>4, <4>1 DEF MapExact
      <4> QED  BY <2>1, <3>3, <3>4, <4>1, <4>2 DEF MapInv
    <3> QED  BY <3>6, <3>7
  <2> QED  BY <2>4, <2>5
<1>2. CASE MapFull
  BY <1>2 DEF MapFull, MapInv, MapExact
<1>3. CASE EnterKernel \/ Tick
  BY <1>3 DEF EnterKernel, Tick, MapInv, MapExact
<1>4. CASE LoadReserved \/ InitFat12 \/ NoFile \/ Match \/ NextName \/ ReadFails
  BY <1>4 DEF LoadReserved, InitFat12, NoFile, Match, NextName, ReadFails, DisplayError, MapInv
<1>5. CASE LoadHeader \/ LoadHeader2 \/ NoHeader2 \/ BeginSection \/ FileLbaToCluster
  BY <1>5 DEF LoadHeader, LoadHeader2, NoHeader2, BeginSection, FileLbaToCluster,
              NextSection, DisplayError, MapInv
<1>6. CASE LoadSector \/ NoSector
  BY <1>6 DEF LoadSector, NoSector, SectorDone, NextSection, MapInv
<1>7. CASE SendCommand \/ SendByte \/ ByteTaken
  BY <1>7 DEF SendCommand, SendByte, ByteTaken, MapInv
<1>8. CASE TryFails \/ ControllerReads \/ UNCHANGED vars
  BY <1>8 DEF TryFails, ControllerReads, vars, MapInv, MapExact
<1> QED  BY <1>1, <1>2, <1>3, <1>4, <1>5, <1>6, <1>7, <1>8 DEF Next, Loader

-----------------------------------------------------------------------------
\* Which action changes what.
LEMMA Changes ==
    ASSUME [Next]_vars
    PROVE  /\ UNCHANGED <<disk, bios>>
           /\ InitFat12 \/ UNCHANGED fs
           /\ Match \/ UNCHANGED entry
           /\ NextName \/ UNCHANGED si
           /\ LoadHeader \/ LoadHeader2 \/ LoadSector \/ UNCHANGED memory
           /\ BeginSection \/ (pc = "sector" /\ SectorDone) \/ UNCHANGED <<es, dest, left>>
           /\ BeginSection \/ FileLbaToCluster \/ UNCHANGED skip
           /\ LoadHeader \/ LoadHeader2 \/ BeginSection \/ FileLbaToCluster \/ LoadSector \/ UNCHANGED di
           /\ LoadHeader \/ UNCHANGED count
           /\ LoadHeader \/ (pc \in {"seek", "sector"} /\ NextSection) \/ UNCHANGED cx
           /\ MapReply \/ UNCHANGED <<calls, mmap>>
           /\ EnterKernel \/ UNCHANGED entryFrom
           /\ SendCommand \/ SendByte \/ ControllerReads \/ UNCHANGED controller
           /\ SendCommand \/ ByteTaken \/ UNCHANGED interrupts
<1>1. CASE UNCHANGED vars \/ TryFails \/ ReadFails \/ ControllerReads
  BY <1>1 DEF vars, TryFails, ReadFails, ControllerReads, files, image, machine
<1>2. CASE LoadReserved \/ NoFile
  BY <1>2 DEF LoadReserved, NoFile, files, image, machine
<1>3. CASE InitFat12
  BY <1>3 DEF InitFat12, image, machine
<1>4. CASE Match
  BY <1>4 DEF Match, image, machine
<1>5. CASE NextName
  BY <1>5 DEF NextName, image, machine
<1>6. CASE LoadHeader
  BY <1>6 DEF LoadHeader, files, machine
<1>7. CASE LoadHeader2
  BY <1>7 DEF LoadHeader2, files, machine
<1>8. CASE NoHeader2
  BY <1>8 DEF NoHeader2, files, image, machine
<1>9. CASE BeginSection
  BY <1>9 DEF BeginSection, files, machine
<1>10. CASE FileLbaToCluster
  BY <1>10 DEF FileLbaToCluster, files, machine
<1>11. CASE LoadSector
  BY <1>11 DEF LoadSector, SectorDone, files, machine
<1>12. CASE NoSector
  BY <1>12 DEF NoSector, SectorDone, files, machine
<1>13. CASE SendCommand
  BY <1>13 DEF SendCommand, files, image
<1>14. CASE SendByte
  BY <1>14 DEF SendByte, files, image
<1>15. CASE ByteTaken
  BY <1>15 DEF ByteTaken, files, image
<1>16. CASE MapReply
  BY <1>16 DEF MapReply, files, image, machine
<1>17. CASE MapFull
  BY <1>17 DEF MapFull, files, image, machine
<1>18. CASE EnterKernel
  BY <1>18 DEF EnterKernel, files, image
<1>19. CASE Tick
  BY <1>19 DEF Tick, files, image, machine
<1> QED  BY <1>1, <1>2, <1>3, <1>4, <1>5, <1>6, <1>7, <1>8, <1>9, <1>10, <1>11, <1>12, <1>13,
            <1>14, <1>15, <1>16, <1>17, <1>18, <1>19 DEF Next, Loader

LEMMA PcStep ==
    ASSUME TypeOK, [Next]_vars
    PROVE  pc' \in {"reserved", "fat12", "find", "header", "header2", "section", "seek", "sector",
                    "a20", "a20 byte", "a20 wait", "memoryMap", "protected", "kernel", "halt",
                    "wild", "fault"}
<1>0. pc \in {"reserved", "fat12", "find", "header", "header2", "section", "seek", "sector",
              "a20", "a20 byte", "a20 wait", "memoryMap", "protected", "kernel", "halt",
              "wild", "fault"}
  BY DEF TypeOK
<1>1. CASE UNCHANGED vars
  BY <1>0, <1>1 DEF vars
<1>2. CASE LoadReserved
  BY <1>2 DEF LoadReserved
<1>3. CASE InitFat12
  BY <1>3 DEF InitFat12
<1>4. CASE Match
  BY <1>4 DEF Match
<1>5. CASE LoadHeader
  BY <1>5 DEF LoadHeader
<1>6. CASE \/ pc' = pc
           \/ pc' = "halt"
           \/ pc \in Headed \union Past /\ pc' = "fault"
           \/ pc \in Headed /\ pc' \in Headed \union Past \union {"wild"}
           \/ pc \in Past /\ pc' \in Past
  BY <1>0, <1>6 DEF Headed, Past
<1> QED  BY <1>1, <1>2, <1>3, <1>4, <1>5, <1>6, Onward

\* What a cluster is followed by, or what stays.
LEMMA NextClusterType ==
    ASSUME TypeOK, NEW c \in FatEntry,
           NEW o \in FatEntry \union {DirPointer}
    PROVE  NextCluster(c, o) \in FatEntry \union {DirPointer}
BY DiskType DEF NextCluster

LEMMA TypeStep ==
    ASSUME TypeOK, ReadInv, FilesInv, PlaceInv, MapInv, [Next]_vars
    PROVE  TypeOK'
<1> USE Changes
<1>1. (disk \in Disks)' /\ (bios \in BiosMaps)'
  BY DEF TypeOK
<1>2. (bp \in 1 .. 5)' /\ (glitches \in 0 .. 4)'
  <2>1. bp \in 1 .. 5 /\ glitches \in 0 .. 4 /\ bp + glitches = 5
    BY Kinds DEF ReadInv
  <2>2. CASE TryFails
    <3>1. bp > 1 /\ bp' = bp - 1 /\ glitches' = glitches + 1
      BY <2>2 DEF TryFails
    <3> QED  BY <2>1, <3>1
  <2>3. CASE ReadFails \/ UNCHANGED <<bp, glitches>>
    BY <2>1, <2>3 DEF ReadFails
  <2>4. CASE bp' = 5 /\ glitches' = 0
    BY <2>4
  <2> QED  BY <2>2, <2>3, <2>4, Counter DEF vars
<1>3. (fs \in Seq(0 .. DiskSectors - 1))'
  <2> DEFINE S == 0 .. DiskSectors - 1
             q == Append(fs, Delivered)
  <2>1. fs \in Seq(S)
    BY DEF TypeOK
  <2>2. CASE InitFat12
    <3>1. Delivered \in S /\ fs' = q
      BY <2>2, DeliveredIs DEF InitFat12
    <3> HIDE DEF S
    <3>2. q \in Seq(S)
      BY <2>1, <3>1, Appended
    <3> QED  BY <3>1, <3>2 DEF S
  <2> QED  BY <2>1, <2>2
<1>4. (si \in {"name", "behind"})' /\ (entry \in 0 .. Len(disk.root))'
  <2>1. si \in {"name", "behind"} /\ entry \in 0 .. Len(disk.root)
    BY DEF TypeOK
  <2>2. si' \in {"name", "behind"}
    BY <2>1 DEF NextName
  <2>3. CASE Match
    <3>1. entry' = 1 /\ disk.root # <<>> /\ disk' = disk
      BY <2>3 DEF Match
    <3>2. disk.root \in Seq(Entry)
      BY DiskType
    <3>3. Len(disk.root) \in Nat /\ Len(disk.root) # 0
      BY <3>1, <3>2, EmptySeq, LenProperties
    <3> QED  BY <2>2, <3>1, <3>3
  <2> QED  BY <2>1, <2>2, <2>3
<1>5. (memory \in [0 .. MemorySectors - 1 -> 0 .. DiskSectors - 1])'
  <2>1. memory \in [0 .. MemorySectors - 1 -> 0 .. DiskSectors - 1]
    BY Kinds
  <2>2. CASE LoadHeader \/ LoadHeader2 \/ LoadSector
    <3>1. Delivered \in 0 .. DiskSectors - 1
      BY <2>2, DeliveredIs DEF LoadHeader, LoadHeader2, LoadSector
    <3>2. \E a : memory' = [memory EXCEPT ![a] = Delivered]
      BY <2>2 DEF LoadHeader, LoadHeader2, LoadSector
    <3> QED  BY <2>1, <3>1, <3>2
  <2> QED  BY <2>1, <2>2
<1>6. (es \in Nat)' /\ (left \in Nat)' /\ (dest \in 0 .. MemorySectors)'
  <2>1. es \in Nat /\ left \in Nat /\ dest \in 0 .. MemorySectors /\ dest \in Nat
    BY Kinds, Sizes
  <2>2. CASE BeginSection
    <3>1. PICK old \in HeadersAt(es, cx) :
            /\ dest' = old.rva /\ es' = old.rva \div SegmentSectors
            /\ \E new \in HeadersAt(es', cx) : left' = new.size
      BY <2>2 DEF BeginSection
    <3>2. PICK new \in HeadersAt(es', cx) : left' = new.size
      BY <3>1
    <3>3. old.rva \in Nat /\ new.size \in Nat /\ old.rva + new.size <= MemorySectors
      BY <3>1, <3>2, HeaderType DEF Section
    <3>4. old.rva \div SegmentSectors \in Nat
      BY <3>3, Quotient, Sizes
    <3> QED  BY <3>1, <3>2, <3>3, <3>4, Sizes
  <2>3. CASE pc = "sector" /\ SectorDone
    <3>1. dest' = dest + 1 /\ es' = (dest + 1) \div SegmentSectors /\ left' = left - 1
      BY <2>3 DEF SectorDone
    <3>2. left > 0 /\ dest + left <= MemorySectors
      BY <2>3 DEF PlaceInv
    <3>3. (dest + 1) \div SegmentSectors \in Nat
      BY <2>1, Quotient, Sizes
    <3> QED  BY <2>1, <3>1, <3>2, <3>3, Sizes
  <2> QED  BY <2>1, <2>2, <2>3
<1>7. (skip \in Nat)'
  <2>1. skip \in Nat
    BY Kinds
  <2>2. CASE BeginSection
    <3>1. \E n, k : \E new \in HeadersAt(n, k) : skip' = new.raw
      BY <2>2 DEF BeginSection
    <3> QED  BY <3>1, HeaderType DEF Section
  <2>3. CASE FileLbaToCluster
    BY <2>1, <2>3 DEF FileLbaToCluster
  <2> QED  BY <2>1, <2>2, <2>3
<1>8. (di \in FatEntry \union {DirPointer})'
  <2>0. di \in FatEntry \union {DirPointer}
    BY Kinds
  <2>1. CASE LoadHeader
    <3>1. pc = "header" /\ Readable /\ di' = NextCluster(Cluster, DirPointer)
      BY <2>1 DEF LoadHeader, TryReads
    <3>2. Cluster \in FatEntry
      BY <3>1, ClusterType DEF FilesInv
    <3> QED  BY <3>1, <3>2, NextClusterType
  <2>2. CASE LoadHeader2 \/ LoadSector
    <3>1. pc \in {"header2", "sector"} /\ Readable /\ Wanted # Nothing /\ di' = NextCluster(di, di)
      BY <2>2 DEF LoadHeader2, LoadSector, TryReads
    <3>2. di \in FatEntry
      BY <3>1, WantedType
    <3> QED  BY <3>1, <3>2, NextClusterType
  <2>3. CASE BeginSection
    <3>1. pc = "section" /\ di' = Cluster
      BY <2>3 DEF BeginSection
    <3> QED  BY <3>1, ClusterType DEF FilesInv, Headed
  <2>4. CASE FileLbaToCluster
    <3>1. di \in FatEntry /\ (di' = di \/ di' = Fat0(di))
      BY <2>4 DEF FileLbaToCluster, PlaceInv
    <3> QED  BY <3>1, DiskType
  <2> QED  BY <2>0, <2>1, <2>2, <2>3, <2>4
<1>9. (count \in Nat)' /\ (cx \in 0 .. (IF count = 0 THEN 1 ELSE count))'
  <2>1. count \in Nat /\ cx \in Nat /\ cx \in 0 .. (IF count = 0 THEN 1 ELSE count)
    BY Kinds DEF TypeOK
  <2>2. CASE LoadHeader
    <3>1. cx' = 0 /\ count' \in IF Delivered \in DOMAIN disk.counts
                                THEN {disk.counts[Delivered]} ELSE GarbageCounts
      BY <2>2 DEF LoadHeader
    <3>2. count' \in Nat
      BY <3>1, DiskType, DisksAssumption
    <3> QED  BY <3>1, <3>2
  <2>3. CASE pc \in {"seek", "sector"} /\ NextSection
    <3>1. cx' = cx + 1 /\ (cx < count \/ cx = 0)
      BY <2>3 DEF NextSection, PlaceInv
    <3>2. count' = count
      BY <2>3 DEF LoadHeader
    <3> QED  BY <2>1, <3>1, <3>2
  <2> QED  BY <2>1, <2>2, <2>3
<1>10. (calls \in 0 .. Len(bios))' /\ (Len(mmap) <= MaxMapEntries)'
  <2>1. calls \in 0 .. Len(bios) /\ Len(mmap) <= MaxMapEntries
    BY Kinds
  <2>2. CASE MapReply
    <3>1. pc = "memoryMap" /\ Len(mmap) < MaxMapEntries /\ calls' = calls + 1 /\ bios' = bios
      BY <2>2 DEF MapReply
    <3>2. calls + 1 \in 0 .. Len(bios)
      BY <3>1, Answers
    <3>3. mmap \in Seq(STRING) /\ bios[calls + 1].entry \in STRING
      BY <3>1, Answers DEF MapInv, Reply
    <3>4. mmap' = mmap \/ mmap' = Append(mmap, bios[calls + 1].entry)
      BY <2>2 DEF MapReply
    <3>5. Len(mmap) \in Nat /\ Len(Append(mmap, bios[calls + 1].entry)) = Len(mmap) + 1
      BY <3>3, Appended
    <3> QED  BY <3>1, <3>2, <3>4, <3>5, Sizes
  <2> QED  BY <2>1, <2>2
<1>11. (interrupts \in BOOLEAN)'
  <2>1. interrupts \in BOOLEAN
    BY DEF TypeOK
  <2> QED  BY <2>1 DEF SendCommand, ByteTaken
<1>12. (controller \in [buffer : {"empty", "other", "command", "byte"}, command : BOOLEAN,
                        a20 : BOOLEAN])'
  <2>1. controller \in [buffer : {"empty", "other", "command", "byte"}, command : BOOLEAN,
                        a20 : BOOLEAN]
    BY DEF TypeOK
  <2>2. CASE SendCommand \/ SendByte
    <3>1. \E b \in {"command", "byte"} : controller' = [controller EXCEPT !.buffer = b]
      BY <2>2 DEF SendCommand, SendByte, Send
    <3> QED  BY <2>1, <3>1
  <2>3. CASE ControllerReads
    BY <2>1, <2>3 DEF ControllerReads
  <2> QED  BY <2>1, <2>2, <2>3
<1>13. (entryFrom \in 0 .. DiskSectors - 1)'
  <2>1. memory[0] \in 0 .. DiskSectors - 1
    BY Kinds, Sizes
  <2>2. entryFrom \in 0 .. DiskSectors - 1
    BY DEF TypeOK
  <2> QED  BY <2>1, <2>2 DEF EnterKernel, GetPeEntryPoint32
<1> HIDE Changes
<1> QED
  BY <1>1, <1>2, <1>3, <1>4, <1>5, <1>6, <1>7, <1>8, <1>9, <1>10, <1>11, <1>12, <1>13, PcStep
  DEF TypeOK

-----------------------------------------------------------------------------
\* What was put on the disk stays what it is.
LEMMA SameDisk ==
    ASSUME UNCHANGED disk
    PROVE  Sound' = Sound /\ (\A a : Loaded(a)' = Loaded(a)) /\ Needed' = Needed
<1>1. \A k : FileSector(k)' = FileSector(k)
  BY DEF FileSector
<1>2. \A k : HeaderSector(k)' = HeaderSector(k)
  BY DEF HeaderSector, FileSector
<1>3. HeaderSectors' = HeaderSectors
  BY DEF HeaderSectors
<1>4. SoundChain' = SoundChain
  <2>1. \A c : Fat0(c)' = Fat0(c) /\ Fat1(c)' = Fat1(c)
    BY DEF Fat0, Fat1, LookUp
  <2> QED  BY <1>1, <2>1 DEF SoundChain
<1>5. SoundHeaders' = SoundHeaders
  BY <1>1, <1>2, <1>3 DEF SoundHeaders
<1>6. SoundSections' = SoundSections
  BY <1>3 DEF SoundSections, SectionSectors
<1>7. \A a : Loaded(a)' = Loaded(a)
  BY DEF Loaded, HeaderSectors, FileSector, SectionSectors
<1> QED  BY <1>1, <1>4, <1>5, <1>6, <1>7 DEF Sound, Needed

(***************************************************************************)
(* The file of a sound disk: both FATs lead from each of its clusters to   *)
(* the next, and none of them looks like the end of a file.                *)
(***************************************************************************)
LEMMA ChainIs ==
    ASSUME TypeOK, Sound
    PROVE  /\ Len(disk.chain) \in Nat \ {0}
           /\ \A k \in 1 .. Len(disk.chain) :
                 /\ disk.chain[k] \in FatEntry /\ disk.chain[k] \in Nat /\ disk.chain[k] < EndMarkers
                 /\ FileSector(k - 1) = LoadClusterByNumber(disk.chain[k])
                 /\ FileSector(k - 1) \in 1 .. DiskSectors - 1
                 /\ Fat0(disk.chain[k]) = Fat1(disk.chain[k])
                 /\ ~Corrupt(disk.chain[k])
                 /\ \A o : NextCluster(disk.chain[k], o)
                              = IF k = Len(disk.chain) THEN FileEnd ELSE disk.chain[k + 1]
                 /\ k < Len(disk.chain) => Passable(disk.chain[k]) /\ Fat0(disk.chain[k]) = disk.chain[k + 1]
<1>1. /\ disk.chain \in Seq(FatEntry)
      /\ \A k \in DOMAIN disk.chain :
            /\ FileSector(k - 1) < DiskSectors
            /\ Fat0(disk.chain[k]) = IF k = Len(disk.chain) THEN FileEnd ELSE disk.chain[k + 1]
            /\ Fat1(disk.chain[k]) = Fat0(disk.chain[k])
  BY DEF Sound, SoundChain
<1>2. DOMAIN disk.chain = 1 .. Len(disk.chain) /\ Len(disk.chain) \in Nat
  BY <1>1, LenProperties
<1>3. Len(disk.chain) # 0
  <2>1. 0 \in HeaderSectors
    BY DEF HeaderSectors
  <2>2. 0 \in 0 .. (Len(disk.chain) - 1)
    BY <2>1 DEF Sound, SoundHeaders
  <2> QED  BY <1>2, <2>2
<1>4. ASSUME NEW k \in 1 .. Len(disk.chain)
      PROVE  /\ disk.chain[k] \in FatEntry /\ disk.chain[k] \in Nat /\ disk.chain[k] < EndMarkers
             /\ FileSector(k - 1) = LoadClusterByNumber(disk.chain[k])
             /\ FileSector(k - 1) \in 1 .. DiskSectors - 1
  <2>1. disk.chain[k] \in FatEntry
    BY <1>1, <1>2, ElementOfSeq
  <2>2. FileSector(k - 1) = disk.chain[k] + DATA_BASE_DISK_SECTOR - 2
    <3>1. k - 1 + 1 = k
      OBVIOUS
    <3> QED  BY <3>1 DEF FileSector, LoadClusterByNumber
  <2>3. FileSector(k - 1) < DiskSectors
    BY <1>1, <1>2
  <2>4. disk.chain[k] \in Nat
    BY <2>1, EntryNat
  <2> QED  BY <2>1, <2>2, <2>3, <2>4, Sizes DEF EndMarkers, LoadClusterByNumber
<1>5. ASSUME NEW k \in 1 .. Len(disk.chain)
      PROVE  /\ Fat0(disk.chain[k]) = Fat1(disk.chain[k])
             /\ ~Corrupt(disk.chain[k])
             /\ \A o : NextCluster(disk.chain[k], o) = Fat0(disk.chain[k])
  <2>1. Fat0(disk.chain[k]) = Fat1(disk.chain[k])
    BY <1>1, <1>2
  <2>3. Fat0(disk.chain[k]) \in Nat
    <3>1. Fat0(disk.chain[k]) \in FatEntry
      BY <1>4, DiskType
    <3> QED  BY <3>1, EntryNat
  <2> QED  BY <2>1, <2>3 DEF Corrupt, NextCluster
<1>6. ASSUME NEW k \in 1 .. Len(disk.chain), k < Len(disk.chain)
      PROVE  Passable(disk.chain[k]) /\ Fat0(disk.chain[k]) = disk.chain[k + 1]
  <2>1. Fat0(disk.chain[k]) = disk.chain[k + 1]
    BY <1>1, <1>2, <1>6
  <2>2. k + 1 \in 1 .. Len(disk.chain)
    BY <1>2, <1>6
  <2> QED  BY <1>4, <1>5, <2>1, <2>2 DEF Passable
<1> QED  BY <1>1, <1>2, <1>3, <1>4, <1>5, <1>6

\* The sections of a sound disk.
LEMMA SectionIs ==
    ASSUME TypeOK, Sound, NEW i \in 1 .. Len(disk.image)
    PROVE  /\ disk.image[i].rva \in Nat /\ disk.image[i].raw \in Nat /\ disk.image[i].size \in Nat
           /\ disk.image[i].raw < Len(disk.chain)
           /\ disk.image[i].raw + disk.image[i].size <= Len(disk.chain)
           /\ disk.image[i].rva < SegmentSectors
           /\ i < Len(disk.image) => disk.image[i].rva + disk.image[i].size < SegmentSectors
           /\ SectionSectors(disk.image[i]) \intersect HeaderSectors = {}
           /\ \A j \in 1 .. Len(disk.image) : j # i =>
                 SectionSectors(disk.image[i]) \intersect SectionSectors(disk.image[j]) = {}
<1>1. disk.image \in Seq(Section)
  BY DEF Sound, SoundHeaders
<1>2. Len(disk.image) \in Nat /\ DOMAIN disk.image = 1 .. Len(disk.image)
  BY <1>1, LenProperties
<1>3. ASSUME NEW j \in 1 .. Len(disk.image)
      PROVE  /\ disk.image[j] \in Section
             /\ disk.image[j].rva \in Nat /\ disk.image[j].raw \in Nat /\ disk.image[j].size \in Nat
  <2>1. disk.image[j] \in Section
    BY <1>1, ElementOfSeq
  <2> QED  BY <2>1 DEF Section
<1>4. \A j \in 1 .. Len(disk.image) :
          /\ disk.image[j].raw < Len(disk.chain)
          /\ disk.image[j].raw + disk.image[j].size <= Len(disk.chain)
          /\ SectionSectors(disk.image[j]) \intersect HeaderSectors = {}
          /\ \A k \in 1 .. (j - 1) :
                SectionSectors(disk.image[j]) \intersect SectionSectors(disk.image[k]) = {}
          /\ disk.image[j].rva + (IF j = Len(disk.image) THEN 0 ELSE disk.image[j].size)
                < SegmentSectors
  BY <1>2 DEF Sound, SoundSections
<1>5. \A j \in 1 .. Len(disk.image) : j # i =>
          SectionSectors(disk.image[i]) \intersect SectionSectors(disk.image[j]) = {}
  <2> SUFFICES ASSUME NEW j \in 1 .. Len(disk.image), j # i
               PROVE  SectionSectors(disk.image[i]) \intersect SectionSectors(disk.image[j]) = {}
    OBVIOUS
  <2>1. j \in 1 .. (i - 1) \/ i \in 1 .. (j - 1)
    BY <1>2
  <2> QED  BY <1>4, <2>1
<1>6. disk.image[i].rva + (IF i = Len(disk.image) THEN 0 ELSE disk.image[i].size) < SegmentSectors
  BY <1>4
<1>7. disk.image[i].rva < SegmentSectors
  BY <1>3, <1>6, Sizes
<1>8. i < Len(disk.image) => disk.image[i].rva + disk.image[i].size < SegmentSectors
  BY <1>2, <1>6
<1> QED  BY <1>3, <1>4, <1>5, <1>7, <1>8

\* What belongs at a sector of memory.
LEMMA LoadedIs ==
    ASSUME TypeOK, Sound
    PROVE  /\ Len(disk.image) \in Nat \ {0} /\ DOMAIN disk.image = 1 .. Len(disk.image)
           /\ \A a \in HeaderSectors : Loaded(a) = FileSector(a)
           /\ \A i \in 1 .. Len(disk.image) : \A a \in SectionSectors(disk.image[i]) :
                 Loaded(a) = FileSector(disk.image[i].raw + a - disk.image[i].rva)
           /\ \A a : (a \notin HeaderSectors
                       /\ \A i \in 1 .. Len(disk.image) : a \notin SectionSectors(disk.image[i]))
                         => Loaded(a) = Nothing
<1>1. disk.image \in Seq(Section) /\ disk.image # <<>>
  BY DEF Sound, SoundHeaders
<1>2. Len(disk.image) \in Nat \ {0} /\ DOMAIN disk.image = 1 .. Len(disk.image)
  BY <1>1, EmptySeq, LenProperties
<1>3. ASSUME NEW i \in 1 .. Len(disk.image), NEW a \in SectionSectors(disk.image[i])
      PROVE  Loaded(a) = FileSector(disk.image[i].raw + a - disk.image[i].rva)
  <2> DEFINE c == CHOOSE x \in DOMAIN disk.image : a \in SectionSectors(disk.image[x])
  <2>1. a \notin HeaderSectors
    BY SectionIs
  <2>2. c \in DOMAIN disk.image /\ a \in SectionSectors(disk.image[c])
    BY <1>2
  <2> HIDE DEF c
  <2>3. c = i
    BY <1>2, <2>2, SectionIs
  <2>4. Loaded(a) = FileSector(disk.image[c].raw + a - disk.image[c].rva)
    BY <1>2, <2>1 DEF Loaded, c
  <2> QED  BY <2>3, <2>4
<1>4. \A a \in HeaderSectors : Loaded(a) = FileSector(a)
  BY DEF Loaded
<1>5. ASSUME NEW a, a \notin HeaderSectors,
             \A i \in 1 .. Len(disk.image) : a \notin SectionSectors(disk.image[i])
      PROVE  Loaded(a) = Nothing
  BY <1>2, <1>5 DEF Loaded
<1> QED  BY <1>2, <1>3, <1>4, <1>5

-----------------------------------------------------------------------------
\* The section being loaded, and how far.
LEMMA InSection ==
    ASSUME TypeOK, PlaceInv, Sound, FollowsFile, pc \in {"section", "seek", "sector"}
    PROVE  /\ cx + 1 \in 1 .. Len(disk.image) /\ count = Len(disk.image)
           /\ Current.rva \in Nat /\ Current.raw \in Nat /\ Current.size \in Nat
           /\ Current.raw < Len(disk.chain) /\ Current.raw + Current.size <= Len(disk.chain)
           /\ pc = "sector" => left \in 1 .. Current.size
<1>1. count = Len(disk.image) /\ cx < count
  BY DEF FollowsFile, Headed
<1>2. cx + 1 \in 1 .. Len(disk.image)
  BY <1>1, Kinds, LoadedIs
<1>3. pc = "sector" => left <= Current.size /\ left > 0 /\ left \in Nat
  BY Kinds DEF FollowsFile, PlaceInv
<1>4. /\ Current.rva \in Nat /\ Current.raw \in Nat /\ Current.size \in Nat
      /\ Current.raw < Len(disk.chain) /\ Current.raw + Current.size <= Len(disk.chain)
  BY <1>2, SectionIs DEF Current
<1> QED  BY <1>1, <1>2, <1>3, <1>4

\* What the loader reads of a sound disk, and that its file cannot do without it.
LEMMA Reads ==
    ASSUME TypeOK, FilesInv, PlaceInv, Sound, FollowsFile
    PROVE  /\ pc = "header" => Cluster = disk.chain[1] /\ Wanted = FileSector(0)
           /\ pc = "header2" => 2 \in 1 .. Len(disk.chain) /\ Wanted = FileSector(1)
           /\ pc = "sector" =>
                 LET k == Current.raw + Current.size - left
                 IN  k + 1 \in 1 .. Len(disk.chain) /\ di = disk.chain[k + 1]
                        /\ Wanted = FileSector(k)
           /\ Wanted # Nothing => Wanted < DiskSectors /\ Asked \subseteq Needed
<1>0. Len(disk.chain) \in Nat \ {0} /\ 1 \in 1 .. Len(disk.chain)
  BY ChainIs
<1>1. ASSUME pc = "header" PROVE Cluster = disk.chain[1] /\ Wanted = FileSector(0)
  <2>1. Cluster = disk.chain[1]
    BY <1>1 DEF FilesInv, Cluster, Sound
  <2> QED  BY <1>1, <2>1 DEF Wanted, FileSector
<1>2. ASSUME pc = "header2" PROVE 2 \in 1 .. Len(disk.chain) /\ Wanted = FileSector(1)
  <2>1. count > 2 /\ count = Len(disk.image) /\ di = disk.chain[2]
    BY <1>2 DEF FollowsFile, Headed
  <2>2. HeaderSectors = {0, 1}
    BY <2>1 DEF HeaderSectors
  <2>3. 1 \in 0 .. (Len(disk.chain) - 1)
    BY <2>2 DEF Sound, SoundHeaders
  <2>4. 2 \in 1 .. Len(disk.chain)
    BY <1>0, <2>3
  <2>5. di # FileEnd
    BY <2>1, <2>4, ChainIs DEF EndMarkers, FileEnd
  <2> QED  BY <1>2, <2>1, <2>4, <2>5 DEF Wanted, FileSector
<1> DEFINE k == Current.raw + Current.size - left
<1>3. ASSUME pc = "sector"
      PROVE  k + 1 \in 1 .. Len(disk.chain) /\ di = disk.chain[k + 1] /\ Wanted = FileSector(k)
  <2>1. /\ Current.raw \in Nat /\ Current.size \in Nat /\ left \in 1 .. Current.size
        /\ Current.raw + Current.size <= Len(disk.chain)
    BY <1>3, InSection
  <2>2. di = disk.chain[k + 1]
    BY <1>3 DEF FollowsFile
  <2>3. k + 1 \in 1 .. Len(disk.chain)
    BY <1>0, <2>1
  <2>4. di # FileEnd
    BY <2>2, <2>3, ChainIs DEF EndMarkers, FileEnd
  <2> QED  BY <1>3, <2>2, <2>3, <2>4 DEF Wanted, FileSector
<1>4. ASSUME Wanted # Nothing PROVE Wanted < DiskSectors /\ Asked \subseteq Needed
  <2>1. CASE pc = "reserved"
    <3>1. Wanted = 1 /\ Asked = 1 .. N_RESERVED_SECTORS - 1
      BY <2>1 DEF Wanted, Asked
    <3> QED  BY <3>1, Sizes DEF Needed
  <2>2. CASE pc = "fat12"
    <3>1. Wanted = N_RESERVED_SECTORS + Len(fs) /\ Asked = {Wanted} /\ Len(fs) < READ_SIZE
      BY <2>2 DEF Wanted, Asked, FilesInv
    <3>2. Len(fs) \in Nat
      BY Kinds
    <3>3. Wanted \in 1 .. (N_RESERVED_SECTORS + READ_SIZE - 1) /\ Wanted < DiskSectors
      BY <3>1, <3>2, Sizes
    <3> QED  BY <3>1, <3>3 DEF Needed
  <2>3. ASSUME NEW n, n + 1 \in 1 .. Len(disk.chain), n \in Int, Wanted = FileSector(n), pc # "reserved"
        PROVE  Wanted < DiskSectors /\ Asked \subseteq Needed
    <3>1. n + 1 - 1 = n
      BY <2>3
    <3>2. FileSector(n) \in 1 .. DiskSectors - 1
      BY <2>3, <3>1, ChainIs
    <3>3. n \in 0 .. Len(disk.chain) - 1
      BY <1>0, <2>3
    <3> QED  BY <2>3, <3>2, <3>3, Sizes DEF Needed, Asked
  <2>4. CASE pc = "header"
    BY <1>0, <1>1, <2>3, <2>4
  <2>5. CASE pc = "header2"
    BY <1>2, <2>3, <2>5
  <2>6. CASE pc = "sector"
    <3>1. k \in Int
      BY <2>6, InSection
    <3> QED  BY <1>3, <2>3, <2>6, <3>1
  <2> QED  BY <1>4, <2>1, <2>2, <2>4, <2>5, <2>6, WantedType
<1> QED  BY <1>1, <1>2, <1>3, <1>4

\* The header the loader finds is the one it looks for.
LEMMA FindsHeader ==
    ASSUME TypeOK, PlaceInv, Sound, FollowsFile, SoFar, pc = "section"
    PROVE  HeadersAt(0, cx) = {Current}
<1>1. cx + 1 \in 1 .. Len(disk.image) /\ cx \in Nat
  BY InSection, Kinds
<1>2. cx \in 0 .. (Len(disk.image) - 1) /\ Len(disk.image) \in Nat
  BY <1>1, LoadedIs
<1>3. /\ HeaderSector(cx) \in DOMAIN disk.sections /\ cx \in DOMAIN disk.sections[HeaderSector(cx)]
      /\ disk.sections[HeaderSector(cx)][cx] = Current
      /\ cx >= 2 => cx \notin DOMAIN disk.sections[FileSector(0)]
  BY <1>2 DEF Sound, SoundHeaders, Current
<1>4. DOMAIN memory = 0 .. MemorySectors - 1 /\ 0 \in DOMAIN memory /\ 1 \in DOMAIN memory
  BY Kinds, Sizes
<1>5. \A a \in HeaderSectors : a \in DOMAIN memory => memory[a] = FileSector(a)
  BY LoadedIs DEF SoFar, Done, HeadersDone
<1>6. memory[0] = FileSector(0)
  BY <1>4, <1>5 DEF HeaderSectors
<1>7. 0 * SegmentSectors = 0
  BY Sizes
<1>8. CASE cx < 2
  <2>1. HeaderSector(cx) = FileSector(0)
    BY <1>8 DEF HeaderSector
  <2> QED  BY <1>3, <1>6, <1>7, <2>1 DEF HeadersAt
<1>9. CASE ~(cx < 2)
  <2>1. HeaderSectors = {0, 1} /\ cx >= 2
    BY <1>1, <1>2, <1>9 DEF HeaderSectors
  <2>2. memory[0 + 1] = FileSector(1)
    BY <1>4, <1>5, <2>1
  <2>3. HeaderSector(cx) = FileSector(1)
    BY <1>9 DEF HeaderSector
  <2> QED  BY <1>3, <1>6, <1>7, <2>1, <2>2, <2>3 DEF HeadersAt
<1> QED  BY <1>8, <1>9

-----------------------------------------------------------------------------
\* What is done only grows, and one sector of memory at a time.
LEMMA DoneGrows ==
    ASSUME UNCHANGED disk
    PROVE  /\ HeaderSectors' = HeaderSectors
           /\ cx' = cx => SectionsDone' = SectionsDone /\ Current' = Current
           /\ cx' = cx + 1 /\ cx \in Nat =>
                 SectionsDone' = SectionsDone \union SectionSectors(Current)
<1>1. HeaderSectors' = HeaderSectors
  BY DEF HeaderSectors
<1>2. ASSUME cx' = cx PROVE SectionsDone' = SectionsDone /\ Current' = Current
  BY <1>2 DEF SectionsDone, SectionSectors, Current
<1>3. ASSUME cx' = cx + 1, cx \in Nat
      PROVE  SectionsDone' = SectionsDone \union SectionSectors(Current)
  <2>1. SectionsDone' = UNION {SectionSectors(disk.image[i]) : i \in 1 .. (cx + 1)}
    BY <1>3 DEF SectionsDone, SectionSectors
  <2>2. 1 .. (cx + 1) = (1 .. cx) \union {cx + 1}
    BY <1>3
  <2> QED  BY <2>1, <2>2 DEF SectionsDone, Current
<1> QED  BY <1>1, <1>2, <1>3

LEMMA Keep ==
    ASSUME SoFar, UNCHANGED <<disk, memory>>, Done' = Done
    PROVE  SoFar'
BY SameDisk DEF SoFar

LEMMA Fill ==
    ASSUME TypeOK, SoFar, UNCHANGED disk, NEW a \in DOMAIN memory,
           memory' = [memory EXCEPT ![a] = Loaded(a)], Done' = Done \union {a}
    PROVE  SoFar'
<1>1. \A b : Loaded(b)' = Loaded(b)
  BY SameDisk
<1>2. DOMAIN memory' = DOMAIN memory
  OBVIOUS
<1>3. \A b \in DOMAIN memory : memory'[b] = IF b = a THEN Loaded(a) ELSE memory[b]
  OBVIOUS
<1> QED  BY <1>1, <1>2, <1>3 DEF SoFar

LEMMA HeaderFollows ==
    ASSUME TypeOK, FilesInv, PlaceInv, Sound, FollowsFile, SoFar, LoadHeader
    PROVE  FollowsFile' /\ SoFar'
<1>1. pc = "header" /\ TryReads /\ UNCHANGED <<disk, es>> /\ cx = 0 /\ es = 0 /\ cx' = 0
  BY DEF LoadHeader, FollowsFile
<1>2. Cluster = disk.chain[1] /\ Delivered = FileSector(0)
  BY <1>1, Reads, DeliveredIs
<1>3. Len(disk.chain) \in Nat \ {0} /\ 1 \in 1 .. Len(disk.chain)
  BY ChainIs
<1>4. ~Corrupt(Cluster) /\ di' = IF 1 = Len(disk.chain) THEN FileEnd ELSE disk.chain[2]
  <2>1. di' = NextCluster(Cluster, DirPointer)
    BY DEF LoadHeader
  <2>2. /\ ~Corrupt(disk.chain[1])
        /\ NextCluster(disk.chain[1], DirPointer)
              = IF 1 = Len(disk.chain) THEN FileEnd ELSE disk.chain[1 + 1]
    BY <1>3, ChainIs
  <2> QED  BY <1>2, <2>1, <2>2
<1>5. count' = Len(disk.image)
  <2>1. Delivered \in DOMAIN disk.counts /\ disk.counts[Delivered] = Len(disk.image)
    BY <1>2 DEF Sound, SoundHeaders
  <2> QED  BY <2>1 DEF LoadHeader
<1>6. pc' = IF count' > 2 THEN "header2" ELSE "section"
  BY <1>4 DEF LoadHeader
<1>7. count' > 2 => HeaderSectors = {0, 1} /\ di' = disk.chain[2]
  <2> SUFFICES ASSUME count' > 2 PROVE HeaderSectors = {0, 1} /\ di' = disk.chain[2]
    OBVIOUS
  <2>1. HeaderSectors = {0, 1}
    BY <1>5 DEF HeaderSectors
  <2>2. 1 \in 0 .. (Len(disk.chain) - 1)
    BY <2>1 DEF Sound, SoundHeaders
  <2> QED  BY <1>3, <1>4, <2>1, <2>2
<1>8. ~(count' > 2) => HeaderSectors = {0}
  BY <1>5 DEF HeaderSectors
<1>9. FollowsFile'
  <2>1. Len(disk.image) > 0 /\ Len(disk.image) \in Nat
    BY LoadedIs
  <2> QED  BY <1>1, <1>5, <1>6, <1>7, <2>1 DEF FollowsFile, Headed, Past
<1>10. SoFar'
  <2>1. memory' = [memory EXCEPT ![0] = Loaded(0)]
    <3>1. 0 \in HeaderSectors
      BY DEF HeaderSectors
    <3> QED  BY <1>2, <3>1, LoadedIs DEF LoadHeader
  <2>2. HeadersDone = {} /\ HeadersDone' = {0}
    BY <1>1, <1>6, <1>7, <1>8, DoneGrows DEF HeadersDone
  <2>3. SectionsDone' = SectionsDone /\ PartDone = {} /\ PartDone' = {}
    BY <1>1, <1>6, DoneGrows DEF PartDone
  <2>4. Done' = Done \union {0}
    BY <2>2, <2>3 DEF Done
  <2>5. 0 \in DOMAIN memory
    BY Kinds, Sizes
  <2> QED  BY <1>1, <2>1, <2>4, <2>5, Fill
<1> QED  BY <1>9, <1>10

LEMMA Header2Follows ==
    ASSUME TypeOK, FilesInv, PlaceInv, Sound, FollowsFile, SoFar, LoadHeader2
    PROVE  FollowsFile' /\ SoFar'
<1>1. /\ pc = "header2" /\ TryReads /\ UNCHANGED <<disk, es, count, cx>>
      /\ cx = 0 /\ es = 0 /\ count = Len(disk.image) /\ count > 2 /\ di = disk.chain[2]
  BY DEF LoadHeader2, FollowsFile, Headed
<1>2. 2 \in 1 .. Len(disk.chain) /\ Delivered = FileSector(1)
  BY <1>1, Reads, DeliveredIs
<1>3. pc' = "section"
  BY <1>1, <1>2, ChainIs DEF LoadHeader2
<1>4. HeaderSectors = {0, 1}
  BY <1>1 DEF HeaderSectors
<1>5. FollowsFile'
  BY <1>1, <1>3 DEF FollowsFile, Headed, Past
<1>6. SoFar'
  <2>1. memory' = [memory EXCEPT ![1] = Loaded(1)]
    <3>1. 1 \in HeaderSectors
      BY <1>4
    <3> QED  BY <1>2, <3>1, LoadedIs DEF LoadHeader2
  <2>2. HeadersDone = {0} /\ HeadersDone' = {0, 1}
    BY <1>1, <1>3, <1>4, DoneGrows DEF HeadersDone
  <2>3. SectionsDone' = SectionsDone /\ PartDone = {} /\ PartDone' = {}
    BY <1>1, <1>3, DoneGrows DEF PartDone
  <2>4. Done' = Done \union {1}
    BY <2>2, <2>3 DEF Done
  <2>5. 1 \in DOMAIN memory
    BY Kinds, Sizes
  <2> QED  BY <1>1, <2>1, <2>4, <2>5, Fill
<1> QED  BY <1>5, <1>6

LEMMA BeginFollows ==
    ASSUME TypeOK, FilesInv, PlaceInv, Sound, FollowsFile, SoFar, BeginSection
    PROVE  FollowsFile' /\ SoFar'
<1>1. /\ pc = "section" /\ pc' = "seek" /\ UNCHANGED <<disk, memory, count, cx>> /\ di' = Cluster
      /\ es = 0 /\ count = Len(disk.image) /\ cx < count
  BY DEF BeginSection, FollowsFile, Headed
<1>2. HeadersAt(0, cx) = {Current}
  BY <1>1, FindsHeader
<1>3. PICK old \in HeadersAt(0, cx) :
        /\ dest' = old.rva /\ es' = old.rva \div SegmentSectors
        /\ \E new \in HeadersAt(es', cx) : skip' = new.raw /\ left' = new.size
  BY <1>1 DEF BeginSection
<1>4. dest' = Current.rva /\ es' = Current.rva \div SegmentSectors
  BY <1>2, <1>3
<1>5. Current.rva \in Nat /\ Current.raw \in Nat /\ Current.rva < SegmentSectors
  <2>1. cx + 1 \in 1 .. Len(disk.image)
    BY <1>1, InSection
  <2> QED  BY <2>1, SectionIs DEF Current
<1>6. es' = 0
  <2> DEFINE r == Current.rva
  <2>1. r \in Nat /\ r < SegmentSectors
    BY <1>5
  <2> HIDE DEF r
  <2>2. r \div SegmentSectors = 0
    BY <2>1, Sizes
  <2> QED  BY <1>4, <2>2 DEF r
<1>7. skip' = Current.raw /\ left' = Current.size
  BY <1>2, <1>3, <1>6
<1>8. di' = disk.chain[1]
  BY <1>1 DEF FilesInv, Headed, Cluster, Sound
<1>9. Current' = Current
  BY <1>1, DoneGrows
<1>10. FollowsFile'
  <2>1. Current.raw - Current.raw + 1 = 1
    BY <1>5
  <2> QED  BY <1>1, <1>4, <1>5, <1>6, <1>7, <1>8, <1>9, <2>1 DEF FollowsFile, Headed, Past
<1>11. Done' = Done
  BY <1>1, DoneGrows DEF Done, HeadersDone, PartDone
<1> QED  BY <1>1, <1>10, <1>11, Keep

LEMMA SeekFollows ==
    ASSUME TypeOK, FilesInv, PlaceInv, Sound, FollowsFile, SoFar, FileLbaToCluster
    PROVE  pc' # "halt" /\ FollowsFile' /\ SoFar'
<1>1. /\ pc = "seek" /\ UNCHANGED <<disk, memory, es, count, dest, left>>
      /\ es = 0 /\ count = Len(disk.image) /\ cx < count
      /\ dest = Current.rva /\ left = Current.size
      /\ skip <= Current.raw /\ di = disk.chain[Current.raw - skip + 1]
  BY DEF FileLbaToCluster, FollowsFile, Headed
<1>2. /\ cx + 1 \in 1 .. Len(disk.image) /\ cx \in Nat /\ skip \in Nat /\ left \in Nat
      /\ Current.rva \in Nat /\ Current.raw \in Nat /\ Current.size \in Nat
      /\ Current.raw < Len(disk.chain) /\ Len(disk.chain) \in Nat /\ Len(disk.image) \in Nat
  BY <1>1, InSection, Kinds, ChainIs, LoadedIs
<1>3. ASSUME skip > 0
      PROVE  Passable(di) /\ Fat0(di) = disk.chain[Current.raw - (skip - 1) + 1]
  <2> DEFINE k == Current.raw - skip + 1
  <2>1. k \in 1 .. Len(disk.chain) /\ k < Len(disk.chain) /\ k + 1 = Current.raw - (skip - 1) + 1
    BY <1>1, <1>2, <1>3
  <2>2. di = disk.chain[k]
    BY <1>1
  <2> HIDE DEF k
  <2>3. Passable(disk.chain[k]) /\ Fat0(disk.chain[k]) = disk.chain[k + 1]
    BY <2>1, ChainIs
  <2> QED  BY <2>1, <2>2, <2>3
<1>4. CASE skip > 0
  <2>1. di' = Fat0(di) /\ skip' = skip - 1 /\ UNCHANGED <<pc, cx>>
    BY <1>3, <1>4 DEF FileLbaToCluster
  <2>2. Current' = Current /\ Done' = Done
    BY <1>1, <2>1, DoneGrows DEF Done, HeadersDone, PartDone
  <2>3. FollowsFile'
    BY <1>1, <1>2, <1>3, <1>4, <2>1, <2>2 DEF FollowsFile, Headed, Past
  <2> QED  BY <1>1, <2>1, <2>2, <2>3, Keep
<1>5. CASE skip = 0 /\ left = 0
  <2>1. cx' = cx + 1 /\ pc' = IF cx + 1 < count THEN "section" ELSE "a20"
    BY <1>5 DEF FileLbaToCluster, NextSection
  <2>2. FollowsFile'
    BY <1>1, <1>2, <2>1 DEF FollowsFile, Headed, Past
  <2>3. SectionSectors(Current) = {}
    BY <1>1, <1>2, <1>5 DEF SectionSectors
  <2>4. Done' = Done
    BY <1>1, <1>2, <2>1, <2>3, DoneGrows DEF Done, HeadersDone, PartDone
  <2> QED  BY <1>1, <2>1, <2>2, <2>4, Keep
<1>6. CASE skip = 0 /\ left # 0
  <2>1. pc' = "sector" /\ UNCHANGED <<cx, di, skip>>
    BY <1>6 DEF FileLbaToCluster
  <2>2. Current' = Current
    BY <1>1, <2>1, DoneGrows
  <2>3. FollowsFile'
    <3>1. di = disk.chain[Current.raw + Current.size - left + 1]
      <4>1. Current.raw - skip + 1 = Current.raw + Current.size - left + 1
        BY <1>1, <1>2, <1>6
      <4> QED  BY <1>1, <4>1
    <3>2. dest = Current.rva + Current.size - left /\ left <= Current.size
      BY <1>1, <1>2
    <3> QED  BY <1>1, <2>1, <2>2, <3>1, <3>2 DEF FollowsFile, Headed, Past
  <2>4. PartDone = {} /\ PartDone' = {}
    BY <1>1, <1>2, <2>1, <2>2 DEF PartDone
  <2>5. Done' = Done
    BY <1>1, <2>1, <2>4, DoneGrows DEF Done, HeadersDone
  <2> QED  BY <1>1, <2>1, <2>3, <2>5, Keep
<1> QED  BY <1>2, <1>4, <1>5, <1>6

LEMMA SectorFollows ==
    ASSUME TypeOK, FilesInv, PlaceInv, Sound, FollowsFile, SoFar, LoadSector
    PROVE  pc' # "wild" /\ FollowsFile' /\ SoFar'
<1> DEFINE k == Current.raw + Current.size - left
<1>1. /\ pc = "sector" /\ TryReads /\ UNCHANGED <<disk, count>>
      /\ count = Len(disk.image) /\ cx < count
      /\ dest = Current.rva + Current.size - left
  BY DEF LoadSector, FollowsFile, Headed
<1>2. /\ cx + 1 \in 1 .. Len(disk.image) /\ cx \in Nat /\ left \in 1 .. Current.size /\ left \in Nat
      /\ Current.rva \in Nat /\ Current.raw \in Nat /\ Current.size \in Nat
      /\ Current.raw + Current.size <= Len(disk.chain) /\ Len(disk.chain) \in Nat
      /\ Len(disk.image) \in Nat /\ dest \in Nat
  BY <1>1, InSection, Kinds, ChainIs, LoadedIs
<1>3. k \in Nat /\ k + 1 \in 1 .. Len(disk.chain) /\ di = disk.chain[k + 1] /\ Delivered = FileSector(k)
  <2>1. k + 1 \in 1 .. Len(disk.chain) /\ di = disk.chain[k + 1] /\ Wanted = FileSector(k)
    BY <1>1, Reads
  <2>2. k \in Nat
    BY <1>2
  <2> QED  BY <2>1, <2>2, DeliveredIs
<1>4. ~Corrupt(di) /\ di' = IF k + 1 = Len(disk.chain) THEN FileEnd ELSE disk.chain[k + 1 + 1]
  <2> HIDE DEF k
  <2>1. /\ ~Corrupt(disk.chain[k + 1])
        /\ NextCluster(disk.chain[k + 1], di)
              = IF k + 1 = Len(disk.chain) THEN FileEnd ELSE disk.chain[k + 1 + 1]
    BY <1>3, ChainIs
  <2>2. di' = NextCluster(di, di)
    BY DEF LoadSector
  <2> QED  BY <1>3, <2>1, <2>2
<1>5. /\ dest' = dest + 1 /\ es' = (dest + 1) \div SegmentSectors /\ left' = left - 1
      /\ IF left = 1 THEN NextSection ELSE UNCHANGED <<pc, cx>>
  BY <1>4 DEF LoadSector, SectorDone
<1>6. dest \in SectionSectors(Current) /\ dest \in DOMAIN memory
  <2>1. dest \in Current.rva .. (Current.rva + Current.size - 1)
    BY <1>1, <1>2
  <2>2. dest + left <= MemorySectors
    BY <1>1 DEF PlaceInv
  <2>3. dest \in 0 .. MemorySectors - 1
    BY <1>2, <2>2, Sizes
  <2> QED  BY <2>1, <2>3, Kinds DEF SectionSectors
<1>7. memory' = [memory EXCEPT ![dest] = Loaded(dest)]
  <2>1. Loaded(dest) = FileSector(Current.raw + dest - Current.rva)
    BY <1>2, <1>6, LoadedIs DEF Current
  <2>2. Current.raw + dest - Current.rva = k
    BY <1>1, <1>2
  <2> QED  BY <1>3, <2>1, <2>2 DEF LoadSector
<1>8. PartDone = Current.rva .. (dest - 1) /\ Current.rva .. dest = (Current.rva .. (dest - 1)) \union {dest}
  BY <1>1, <1>2, SMTT(30) DEF PartDone
<1>9. CASE left = 1
  <2>1. cx' = cx + 1 /\ pc' = IF cx + 1 < count THEN "section" ELSE "a20"
    BY <1>5, <1>9 DEF NextSection
  <2>2. dest + 1 = Current.rva + Current.size /\ SectionSectors(Current) = Current.rva .. dest
    BY <1>1, <1>2, <1>9 DEF SectionSectors
  <2>3. cx + 1 < count => es' = 0
    <3> SUFFICES ASSUME cx + 1 < count PROVE es' = 0
      OBVIOUS
    <3>1. Current.rva + Current.size < SegmentSectors
      BY <1>1, <1>2, SectionIs DEF Current
    <3> DEFINE r == dest + 1
    <3>2. r \in Nat /\ r < SegmentSectors
      BY <1>2, <2>2, <3>1
    <3> HIDE DEF r
    <3>3. r \div SegmentSectors = 0
      BY <3>2, Sizes
    <3> QED  BY <1>5, <3>3 DEF r
  <2>4. FollowsFile'
    BY <1>1, <1>2, <2>1, <2>3 DEF FollowsFile, Headed, Past
  <2>5. Done' = Done \union {dest}
    <3>1. SectionsDone' = SectionsDone \union PartDone \union {dest}
      BY <1>1, <1>2, <1>8, <2>1, <2>2, DoneGrows
    <3>2. HeadersDone' = HeaderSectors /\ HeadersDone = HeaderSectors /\ PartDone' = {}
      BY <1>1, <2>1, DoneGrows DEF HeadersDone, PartDone
    <3> QED  BY <3>1, <3>2 DEF Done
  <2> QED  BY <1>1, <1>6, <1>7, <2>1, <2>4, <2>5, Fill
<1>10. CASE left # 1
  <2>1. UNCHANGED <<pc, cx>>
    BY <1>5, <1>10
  <2>2. Current' = Current /\ SectionsDone' = SectionsDone
    BY <1>1, <2>1, DoneGrows
  <2>3. FollowsFile'
    <3>1. k + 1 # Len(disk.chain) /\ Current.raw + Current.size - left' + 1 = k + 1 + 1
      BY <1>2, <1>5, <1>10, SMTT(30)
    <3>2. di' = disk.chain[Current.raw + Current.size - left' + 1]
      BY <1>4, <3>1
    <3>3. dest' = Current.rva + Current.size - left' /\ left' <= Current.size
      <4>1. dest' = dest + 1 /\ left' = left - 1
        BY <1>5
      <4>2. dest = Current.rva + Current.size - left
        BY <1>1
      <4> QED  BY <1>2, <4>1, <4>2
    <3> QED  BY <1>1, <2>1, <2>2, <3>2, <3>3 DEF FollowsFile, Headed, Past
  <2>4. Done' = Done \union {dest}
    <3>1. PartDone' = PartDone \union {dest}
      <4>1. dest' - 1 = dest
        BY <1>2, <1>5
      <4>2. PartDone' = Current.rva .. dest
        BY <1>1, <2>1, <2>2, <4>1 DEF PartDone
      <4> QED  BY <1>8, <4>2
    <3>2. HeadersDone' = HeadersDone
      BY <1>1, <2>1, DoneGrows DEF HeadersDone
    <3> QED  BY <2>2, <3>1, <3>2 DEF Done
  <2> QED  BY <1>1, <1>6, <1>7, <2>1, <2>3, <2>4, Fill
<1> QED  BY <1>9, <1>10

-----------------------------------------------------------------------------
\* Where the loader has stopped it stays.
LEMMA Stopped ==
    ASSUME TypeOK, FilesInv, [Next]_vars, pc \in {"halt", "wild", "fault"}
    PROVE  pc' = pc /\ UNCHANGED <<disk, calls, bios>>
<1>1. Wanted = Nothing
  BY WantedType
<1>2. pc' = pc
  <2>1. CASE UNCHANGED vars \/ ControllerReads
    BY <2>1 DEF vars, ControllerReads
  <2>2. CASE TryFails \/ ReadFails
    BY <1>1, <2>2 DEF TryFails, ReadFails
  <2>3. CASE LoadReserved \/ InitFat12 \/ NoFile \/ Match \/ NextName \/ LoadHeader \/ LoadHeader2
    BY <2>3 DEF LoadReserved, InitFat12, NoFile, Match, NextName, LoadHeader, LoadHeader2
  <2>4. CASE NoHeader2 \/ BeginSection \/ FileLbaToCluster \/ LoadSector \/ NoSector
    BY <2>4 DEF NoHeader2, BeginSection, FileLbaToCluster, LoadSector, NoSector
  <2>5. CASE SendCommand \/ SendByte \/ ByteTaken \/ MapReply \/ MapFull \/ EnterKernel \/ Tick
    BY <2>5 DEF SendCommand, SendByte, ByteTaken, MapReply, MapFull, EnterKernel, Tick
  <2> QED  BY <2>1, <2>2, <2>3, <2>4, <2>5 DEF Next, Loader
<1>3. UNCHANGED <<disk, calls, bios>>
  BY Changes DEF MapReply
<1> QED  BY <1>2, <1>3

\* Of a sound disk the file and its second header sector do not end early.
LEMMA NoEnd ==
    ASSUME TypeOK, FilesInv, PlaceInv, Sound, FollowsFile
    PROVE  ~NoHeader2 /\ ~NoSector
<1>1. pc = "header2" => Wanted # Nothing
  <2> SUFFICES ASSUME pc = "header2" PROVE Wanted # Nothing
    OBVIOUS
  <2>1. FileSector(2 - 1) \in 1 .. DiskSectors - 1 /\ Wanted = FileSector(1)
    BY Reads, ChainIs
  <2> QED  BY <2>1 DEF Nothing
<1>2. pc = "sector" => Wanted # Nothing
  <2> SUFFICES ASSUME pc = "sector" PROVE Wanted # Nothing
    OBVIOUS
  <2> DEFINE k == Current.raw + Current.size - left
  <2>1. k + 1 \in 1 .. Len(disk.chain) /\ Wanted = FileSector(k) /\ k \in Int
    BY Reads, InSection
  <2> HIDE DEF k
  <2>2. k + 1 - 1 = k
    BY <2>1
  <2>3. FileSector(k) \in 1 .. DiskSectors - 1
    BY <2>1, <2>2, ChainIs
  <2> QED  BY <2>1, <2>3 DEF Nothing
<1> QED  BY <1>1, <1>2 DEF NoHeader2, NoSector, NoRead

\* The loader's own steps through a sound disk.
LEMMA LoadStep ==
    ASSUME TypeOK, FilesInv, PlaceInv, LoadInv, [Next]_vars
    PROVE  LoadInv'
<1> SUFFICES ASSUME Sound', pc' \notin {"halt", "wild", "fault"}
             PROVE  FollowsFile' /\ SoFar'
  BY DEF LoadInv
<1>1. UNCHANGED disk /\ Sound
  BY Changes, SameDisk
<1>2. FollowsFile /\ SoFar
  BY <1>1, Stopped DEF LoadInv
<1>3. CASE LoadHeader
  BY <1>1, <1>2, <1>3, HeaderFollows
<1>4. CASE LoadHeader2
  BY <1>1, <1>2, <1>4, Header2Follows
<1>5. CASE BeginSection
  BY <1>1, <1>2, <1>5, BeginFollows
<1>6. CASE FileLbaToCluster
  BY <1>1, <1>2, <1>6, SeekFollows
<1>7. CASE LoadSector
  BY <1>1, <1>2, <1>7, SectorFollows
<1>8. CASE NoHeader2 \/ NoSector
  BY <1>1, <1>2, <1>8, NoEnd
<1>9. CASE LoadReserved \/ InitFat12 \/ Match \/ NextName
  <2>1. /\ pc \in {"reserved", "fat12", "find"} /\ pc' \in {"fat12", "find", "header"}
        /\ UNCHANGED <<cx, es, memory>>
    BY <1>9 DEF LoadReserved, InitFat12, Match, NextName, files, image
  <2>2. FollowsFile'
    BY <1>2, <2>1 DEF FollowsFile, Headed, Past
  <2>3. Done' = Done
    BY <1>1, <2>1, DoneGrows DEF Done, HeadersDone, PartDone
  <2> QED  BY <1>1, <1>2, <2>1, <2>2, <2>3, Keep
<1>10. CASE SendCommand \/ SendByte \/ ByteTaken \/ MapReply \/ MapFull \/ EnterKernel
  <2>1. pc \in Past /\ pc' \in Past /\ UNCHANGED <<cx, memory>>
    BY <1>10 DEF SendCommand, SendByte, ByteTaken, MapReply, MapFull, EnterKernel, image, Past
  <2>2. FollowsFile'
    BY <1>1, <1>2, <2>1 DEF FollowsFile, Headed, Past
  <2>3. Done' = Done
    BY <1>1, <2>1, DoneGrows DEF Done, HeadersDone, PartDone, Past
  <2> QED  BY <1>1, <1>2, <2>1, <2>2, <2>3, Keep
<1>11. CASE TryFails \/ ControllerReads \/ UNCHANGED vars
  <2>1. UNCHANGED <<disk, pc, image>>
    BY <1>11 DEF TryFails, ControllerReads, vars
  <2>2. UNCHANGED <<pc, memory, es, di, count, cx, skip, dest, left>>
    BY <2>1 DEF image
  <2>3. Current' = Current /\ Done' = Done
    BY <1>1, <2>2, DoneGrows DEF Done, HeadersDone, PartDone
  <2>4. FollowsFile'
    BY <1>1, <1>2, <2>2, <2>3 DEF FollowsFile
  <2> QED  BY <1>1, <1>2, <2>2, <2>3, <2>4, Keep
<1>12. CASE ReadFails \/ NoFile \/ Tick
  BY <1>12 DEF ReadFails, NoFile, Tick, DisplayError
<1> QED
  BY <1>3, <1>4, <1>5, <1>6, <1>7, <1>8, <1>9, <1>10, <1>11, <1>12 DEF Next, Loader

(***************************************************************************)
(* Why the loader may stop: of a sound disk every read is one of a sector  *)
(* it needs, and no cluster is missing or ambiguous.                       *)
(***************************************************************************)
LEMMA StopStep ==
    ASSUME TypeOK, ReadInv, FilesInv, PlaceInv, MapInv, LoadInv, [Next]_vars
    PROVE  pc \notin {"halt", "wild"} /\ pc' \in {"halt", "wild"} /\ Sound =>
               \/ Asked \subseteq Needed /\ glitches = 4
               \/ pc = "memoryMap" /\ CarrySet(bios[calls + 1])
<1> SUFFICES ASSUME pc \notin {"halt", "wild"}, pc' \in {"halt", "wild"}, Sound
             PROVE  \/ Asked \subseteq Needed /\ glitches = 4
                    \/ pc = "memoryMap" /\ CarrySet(bios[calls + 1])
  OBVIOUS
<1>1. pc # "fault"
  BY Stopped
<1>2. FollowsFile /\ SoFar
  BY <1>1 DEF LoadInv
<1>3. CASE ReadFails
  <2>1. glitches = 4 /\ Wanted # Nothing
    BY <1>3, GivesUp DEF ReadFails
  <2>2. Asked \subseteq Needed
    BY <1>2, <2>1, Reads
  <2> QED  BY <2>1, <2>2
<1>4. CASE MapReply
  BY <1>4 DEF MapReply
<1>5. CASE NoFile
  BY <1>5 DEF NoFile, Sound
<1>6. CASE LoadHeader
  <2>1. FollowsFile' /\ pc' = "halt" /\ Corrupt(Cluster)
    BY <1>2, <1>6, HeaderFollows DEF LoadHeader
  <2>2. Cluster = disk.chain[1] /\ 1 \in 1 .. Len(disk.chain)
    BY <1>2, <1>6, Reads, ChainIs DEF LoadHeader
  <2> QED  BY <2>1, <2>2, ChainIs
<1>7. CASE LoadHeader2
  <2>1. pc = "header2" /\ Corrupt(di)
    BY <1>7 DEF LoadHeader2
  <2>2. di = disk.chain[2] /\ 2 \in 1 .. Len(disk.chain)
    BY <1>2, <2>1, Reads DEF FollowsFile
  <2> QED  BY <2>1, <2>2, ChainIs
<1>8. CASE FileLbaToCluster
  <2>1. pc' # "halt"
    BY <1>2, <1>8, SeekFollows
  <2>2. pc' # "wild"
    BY <1>8 DEF FileLbaToCluster, NextSection, DisplayError
  <2> QED  BY <2>1, <2>2
<1>9. CASE LoadSector
  <2>1. pc' # "wild"
    BY <1>2, <1>9, SectorFollows
  <2>2. pc' # "halt"
    BY <1>9 DEF LoadSector, SectorDone, NextSection
  <2> QED  BY <2>1, <2>2
<1>10. CASE NoHeader2 \/ NoSector
  BY <1>2, <1>10, NoEnd
<1>11. CASE LoadReserved \/ InitFat12 \/ Match \/ NextName \/ BeginSection
  BY <1>11 DEF LoadReserved, InitFat12, Match, NextName, BeginSection
<1>12. CASE SendCommand \/ SendByte \/ ByteTaken \/ MapFull \/ EnterKernel \/ Tick
  BY <1>12 DEF SendCommand, SendByte, ByteTaken, MapFull, EnterKernel, Tick
<1>13. CASE TryFails \/ ControllerReads \/ UNCHANGED vars
  BY <1>13 DEF TryFails, ControllerReads, vars
<1> QED
  BY <1>3, <1>4, <1>5, <1>6, <1>7, <1>8, <1>9, <1>10, <1>11, <1>12, <1>13 DEF Next, Loader

-----------------------------------------------------------------------------
LEMMA InitInv ==
    ASSUME Init
    PROVE  IInv
<1>0. /\ disk \in Disks /\ bios \in BiosMaps /\ pc = "reserved" /\ bp = 5 /\ glitches = 0
      /\ fs = <<>> /\ entry = 0 /\ es = 0 /\ cx = 0 /\ calls = 0 /\ mmap = <<>>
      /\ memory = [a \in 0 .. MemorySectors - 1 |-> Nothing]
  BY DEF Init
<1>1. TypeOK
  <2>1. fs \in Seq(0 .. DiskSectors - 1) /\ Len(fs) = 0 /\ Len(mmap) = 0
    BY <1>0, EmptySeq
  <2>2. disk.root \in Seq(Entry)
    BY <1>0, DisksAssumption
  <2>3. 0 \in 0 .. Len(disk.root)
    BY <2>2, LenProperties
  <2>4. bios \in Seq(Reply)
    BY <1>0, BiosAssumption
  <2>5. calls \in 0 .. Len(bios)
    BY <1>0, <2>4, LenProperties
  <2>6. memory \in [0 .. MemorySectors - 1 -> 0 .. DiskSectors - 1]
    BY <1>0, Sizes DEF Nothing
  <2>7. /\ si = "name" /\ di = 0 /\ count = 0 /\ skip = 0 /\ dest = 0 /\ left = 0
        /\ interrupts = TRUE /\ entryFrom = Nothing
        /\ controller \in [buffer : {"empty", "other"}, command : {FALSE}, a20 : BOOLEAN]
    BY DEF Init
  <2>8. controller \in [buffer : {"empty", "other", "command", "byte"}, command : BOOLEAN, a20 : BOOLEAN]
    BY <2>7
  <2>9. di \in FatEntry
    BY <2>7 DEF FatEntry
  <2>10. dest \in 0 .. MemorySectors /\ entryFrom \in 0 .. DiskSectors - 1
    BY <2>7, Sizes DEF Nothing
  <2>11. cx \in 0 .. (IF count = 0 THEN 1 ELSE count) /\ Len(mmap) <= MaxMapEntries
    BY <1>0, <2>1, <2>7, Sizes
  <2> QED
    BY <1>0, <2>1, <2>3, <2>5, <2>6, <2>7, <2>8, <2>9, <2>10, <2>11 DEF TypeOK
<1>2. ReadInv
  <2>1. Wanted = 1
    BY <1>0 DEF Wanted
  <2> QED  BY <1>0, <2>1, Sizes DEF ReadInv, Nothing
<1>3. FilesInv
  <2>1. Len(fs) = 0 /\ fs = [i \in 1 .. 0 |-> N_RESERVED_SECTORS + i - 1]
    BY <1>0, EmptySeq
  <2> QED  BY <1>0, <2>1 DEF FilesInv, Headed, Past
<1>4. PlaceInv
  BY <1>0 DEF PlaceInv
<1>5. MapInv
  <2>1. Len(mmap) = 0 /\ mmap \in Seq(STRING)
    BY <1>0, EmptySeq
  <2> QED  BY <1>0, <2>1 DEF MapInv
<1>6. GateInv
  BY <1>0 DEF GateInv
<1>7. LoadInv
  <2>1. FollowsFile
    BY <1>0 DEF FollowsFile, Headed, Past
  <2>2. SectionsDone = {}
    BY <1>0 DEF SectionsDone
  <2>3. Done = {}
    BY <1>0, <2>2 DEF Done, HeadersDone, PartDone
  <2> QED  BY <1>0, <2>1, <2>3 DEF LoadInv, SoFar
<1> QED  BY <1>1, <1>2, <1>3, <1>4, <1>5, <1>6, <1>7 DEF IInv

LEMMA NextInv ==
    ASSUME IInv, [Next]_vars
    PROVE  IInv'
BY TypeStep, ReadStep, FilesStep, PlaceStep, MapStep, GateStep, LoadStep DEF IInv

\* Every state the loader can be in satisfies the inductive invariant.
THEOREM BootInvariant == Spec => []IInv
<1>1. Init => IInv
  BY InitInv
<1>2. IInv /\ [Next]_vars => IInv'
  BY NextInv
<1> QED  BY <1>1, <1>2, PTL DEF Spec

\* The type invariant, for every geometry, disk and memory map.
THEOREM BootTypeOK == Spec => []TypeOK
<1>1. IInv => TypeOK
  BY DEF IInv
<1> QED  BY <1>1, BootInvariant, PTL

\* Every kernel that is entered finds the BIOS's map and the open gate.
THEOREM KernelFindsMachine == Spec => []MachineReady
<1>1. IInv => MachineReady
  BY DEF IInv, MapInv, GateInv, MachineReady
<1> QED  BY <1>1, BootInvariant, PTL

(***************************************************************************)
(* From a sound disk booting stops only when every try of a sector it      *)
(* needs has failed, or the BIOS refuses the map.                          *)
(***************************************************************************)
THEOREM StopsForReason == Spec => StopsOnlyForReason
<1>1. IInv /\ [Next]_vars =>
          [pc \notin {"halt", "wild"} /\ pc' \in {"halt", "wild"} /\ Sound =>
               \/ Asked \subseteq Needed /\ glitches = 4
               \/ pc = "memoryMap" /\ CarrySet(bios[calls + 1])]_vars
  BY StopStep DEF IInv
<1> QED  BY <1>1, BootInvariant, PTL DEF Spec, StopsOnlyForReason

\* A kernel that is entered from a sound disk has its whole image in memory.
THEOREM KernelIsLoaded == Spec => []ImageLoaded
<1>1. ASSUME IInv PROVE ImageLoaded
  <2> SUFFICES ASSUME pc = "kernel", Sound
               PROVE  /\ \A a \in DOMAIN memory : memory[a] = Loaded(a)
                      /\ entryFrom = FileSector(0)
                      /\ fs = [i \in 1 .. READ_SIZE |-> N_RESERVED_SECTORS + i - 1]
    BY DEF ImageLoaded
  <2>1. TypeOK /\ FollowsFile /\ SoFar /\ cx = Len(disk.image)
    BY <1>1 DEF IInv, LoadInv, FollowsFile, Past
  <2>2. Done = HeaderSectors
           \union UNION {SectionSectors(disk.image[i]) : i \in 1 .. Len(disk.image)}
    BY <2>1 DEF Done, HeadersDone, SectionsDone, PartDone
  <2>3. \A a \in DOMAIN memory : memory[a] = Loaded(a)
    <3> SUFFICES ASSUME NEW a \in DOMAIN memory PROVE memory[a] = Loaded(a)
      OBVIOUS
    <3>1. CASE a \in Done
      BY <2>1, <3>1 DEF SoFar
    <3>2. CASE a \notin Done
      <4>1. memory[a] = Nothing
        BY <2>1, <3>2 DEF SoFar
      <4>2. a \notin HeaderSectors
            /\ \A i \in 1 .. Len(disk.image) : a \notin SectionSectors(disk.image[i])
        BY <2>2, <3>2
      <4> QED  BY <2>1, <4>1, <4>2, LoadedIs
    <3> QED  BY <3>1, <3>2
  <2>4. entryFrom = FileSector(0)
    <3>1. 0 \in DOMAIN memory
      BY <2>1, Kinds, Sizes
    <3>2. 0 \in HeaderSectors
      BY DEF HeaderSectors
    <3>3. entryFrom = memory[0]
      BY <1>1 DEF IInv, PlaceInv
    <3> QED  BY <2>1, <2>3, <3>1, <3>2, <3>3, LoadedIs
  <2>5. fs = [i \in 1 .. READ_SIZE |-> N_RESERVED_SECTORS + i - 1]
    BY <1>1 DEF IInv, FilesInv
  <2> QED  BY <2>3, <2>4, <2>5
<1> QED  BY <1>1, BootInvariant, PTL
=============================================================================
