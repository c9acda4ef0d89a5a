---------------------------- MODULE FloppyImage ----------------------------
(***************************************************************************)
(* The floppy image builder (tools/NerbOS.FloppyBuilder): it parses its    *)
(* arguments, collects the source files, lays out boot sector, FATs, root  *)
(* directory and data in memory, and writes the image out at the end.  Any *)
(* exception before that ends it without an image, and one while the image *)
(* is written out may leave a part of it.                                  *)
(*                                                                         *)
(* Other programs may change or delete a source file while it runs: the    *)
(* length it works with is the one FileInfo has cached, the bytes are      *)
(* those of a later moment.                                                *)
(***************************************************************************)
EXTENDS Fat12, FiniteSetsExt, SequencesExt

CONSTANTS
    SectorSize,
    ImageSectors,           \* FloppySize in sectors
    FatSectors,
    RootDirSectors,         \* DiskDescriptor.RootDirSectors
    DirectoryEntrySize,
    BpbSize,                \* 16, the bytes of a boot sector the builder reads
    IntMax,                 \* int.MaxValue
    Paths,
    Trees,                  \* what is at the paths when the builder starts
    Listing,                \* the paths in a directory
    Args,                   \* command lines
    Lengths,                \* the lengths a file may change to
    Edits                   \* bound: changes to files while the builder runs

FileData == [kind : {"file", "directory", "none"}, length : Nat, version : Nat,
             extension : {"none", "short", "full"}]
Argument == [name : {"file", "boot", "in", "out", "other"}, value : Paths \union {""}]

ASSUME SizesAssumption ==
    /\ {SectorSize, ImageSectors, FatSectors, RootDirSectors, DirectoryEntrySize} \subseteq Nat \ {0}
    /\ {BpbSize, IntMax} \subseteq Nat
    /\ SectorSize % DirectoryEntrySize = 0
    /\ SectorSize >= 3                          \* two FAT entries are in one sector
    /\ (ImageSectors * 3) \div 2 + 1 < FatSectors * SectorSize
                                    \* so the FATs have an entry for every sector
    /\ ImageSectors < EndMarkers

ASSUME InputsAssumption ==
    /\ Trees \subseteq [Paths -> FileData]
    /\ \A p \in Paths : Listing[p] \subseteq Paths /\ IsFiniteSet(Listing[p])
    /\ Args \subseteq Seq(Argument)
    /\ \A a \in Args : \A i \in DOMAIN a : a[i].name = "file" => a[i].value \in Paths
    /\ "" \notin Paths
    /\ Lengths \subseteq Nat
    /\ Edits \in Nat

VARIABLES
    tree,           \* the source files as they are now
    edits,          \* changes so far
    pc,             \* what the builder does next
    args,
    next,           \* arguments, then source file names, looked at so far
    cmd,            \* the parsed command line
    sourceFiles,    \* path and cached length, Unknown before it is asked for
    reserved,       \* NumReservedSectors
    nextCluster,    \* NextUnusedCluster
    nextEntry,      \* NextUnusedRootEntry
    fat0, fat1,     \* the image: two tables of bytes,
    root,           \*   the directory entries written, in order,
    area,           \*   and what lies at each byte from RootDirOffset on
    fileBytes,      \* the version and length of the bytes ReadAllBytes returned
    sector          \* the sector of the file written next

inputs == <<tree, edits, args>>
fats   == <<fat0, fat1>>
image  == <<reserved, nextCluster, nextEntry, fats, root, area>>
vars   == <<inputs, pc, next, cmd, sourceFiles, image, fileBytes, sector>>

Unknown == -1
Zero    == <<"", 0, 0>>                         \* a byte never written
EntryByte(n)             == <<"entry", n, 0>>   \* a byte of directory entry n
FileByte(path, data, k)  == <<path, data.version, k>>

\* The image after Write has put content[o] at the offsets o of a range.
Written(content) == [o \in DOMAIN area |-> IF o \in DOMAIN content THEN content[o] ELSE area[o]]

AreaSize(sectors) == (ImageSectors - sectors - 2 * FatSectors) * SectorSize

Init ==
    /\ tree \in Trees
    /\ edits = 0
    /\ pc = "arguments"
    /\ args \in Args
    /\ next = 0
    /\ cmd = [boot |-> "", in |-> "", out |-> "", files |-> <<>>]
    /\ sourceFiles = <<>>
    /\ reserved = 1
    /\ nextCluster = 2
    /\ nextEntry = 0
    /\ fat0 = [o \in 0 .. FatSectors * SectorSize - 1 |-> 0]
    /\ fat1 = fat0
    /\ root = <<>>
    /\ area = <<>>
    /\ fileBytes = [version |-> 0, length |-> 0]
    /\ sector = 0

-----------------------------------------------------------------------------
\* A switch is taken once; a second one is refused unless the first had no value.
Accepted(arg) == arg.name \in {"boot", "in", "out"} /\ cmd[arg.name] = ""

\* CommandLine.TryParse; the switches' two spellings are one name here.
TryParse ==
    /\ pc = "arguments"
    /\ next < Len(args)
    /\ LET arg == args[next + 1]
       IN  \/ /\ arg.name = "file"
              /\ cmd' = [cmd EXCEPT !.files = Append(@, arg.value)]
              /\ UNCHANGED pc
           \/ /\ Accepted(arg)
              /\ cmd' = [cmd EXCEPT ![arg.name] = arg.value]
              /\ UNCHANGED pc
           \/ /\ arg.name # "file"
              /\ ~Accepted(arg)
              /\ pc' = "usage"
              /\ UNCHANGED cmd
    /\ next' = next + 1
    /\ UNCHANGED <<inputs, sourceFiles, image, fileBytes, sector>>

Parsed ==
    /\ pc = "arguments"
    /\ next = Len(args)
    /\ next' = 0
    /\ pc' = "collect"
    /\ UNCHANGED <<inputs, cmd, sourceFiles, image, fileBytes, sector>>

\* Wrong: a file that does not exist is asked for again.
CollectFile_Retries ==
    /\ pc = "collect"
    /\ next < Len(cmd.files)
    /\ tree[cmd.files[next + 1]].kind = "file"
    /\ sourceFiles' = Append(sourceFiles, [path |-> cmd.files[next + 1],
                                           length |-> tree[cmd.files[next + 1]].length])
    /\ next' = next + 1
    /\ UNCHANGED <<inputs, pc, cmd, image, fileBytes, sector>>

\* Wrong: the first file that does not exist ends the loop.
CollectFile_StopsAtMissing ==
    /\ pc = "collect"
    /\ next < Len(cmd.files)
    /\ LET path == cmd.files[next + 1]
       IN  IF tree[path].kind = "file"
           THEN /\ sourceFiles' = Append(sourceFiles, [path |-> path, length |-> tree[path].length])
                /\ next' = next + 1
           ELSE /\ next' = Len(cmd.files)
                /\ UNCHANGED sourceFiles
    /\ UNCHANGED <<inputs, pc, cmd, image, fileBytes, sector>>

\* A named file: asking whether it exists makes FileInfo keep its length.
CollectFile ==
    /\ pc = "collect"
    /\ next < Len(cmd.files)
    /\ LET path == cmd.files[next + 1]
       IN  sourceFiles' =
               IF tree[path].kind = "file"
               THEN Append(sourceFiles, [path |-> path, length |-> tree[path].length])
               ELSE sourceFiles
    /\ next' = next + 1
    /\ UNCHANGED <<inputs, pc, cmd, image, fileBytes, sector>>

\* Every entry of the source directory, subdirectories too, in the system's order.
CollectDirectory ==
    /\ pc = "collect"
    /\ next = Len(cmd.files)
    /\ \/ /\ cmd.in = ""
          /\ pc' = "boot"
          /\ UNCHANGED sourceFiles
       \/ /\ cmd.in # ""
          /\ tree[cmd.in].kind = "directory"
          /\ \E order \in SetToSeqs({p \in Listing[cmd.in] : tree[p].kind # "none"}) :
                sourceFiles' = sourceFiles \o
                    [i \in DOMAIN order |-> [path |-> order[i], length |-> Unknown]]
          /\ pc' = "boot"
       \/ /\ cmd.in # ""
          /\ tree[cmd.in].kind # "directory"
          /\ pc' = "error"
          /\ UNCHANGED sourceFiles
    /\ UNCHANGED <<inputs, next, cmd, image, fileBytes, sector>>

-----------------------------------------------------------------------------
\* For a size near int.MaxValue the sum wraps, and the quotient is no count at all.
NumSectors(size) ==
    IF size + SectorSize - 1 > IntMax THEN 0 ELSE (size + SectorSize - 1) \div SectorSize

\* The start of CreateImage: the boot sector and the first two entries of the FATs.
BootFits(path) ==
    /\ tree[path].kind = "file"
    /\ tree[path].length >= BpbSize
    /\ tree[path].length <= ImageSectors * SectorSize

BootSectors == IF cmd.boot = "" THEN 1 ELSE NumSectors(tree[cmd.boot].length)

MarkReserved(fat) == SetFatEntry(SetFatEntry(fat, 0, EndMarkers), 1, FileEnd)

CreateImage ==
    /\ pc = "boot"
    /\ cmd.boot # "" => BootFits(cmd.boot)
    /\ BootSectors + FatSectors < ImageSectors
    /\ reserved' = BootSectors
    /\ fat0' = MarkReserved(fat0)
    /\ fat1' = MarkReserved(fat1)
    /\ area' = [o \in 0 .. AreaSize(BootSectors) - 1 |-> Zero]
    /\ pc' = "add"
    /\ UNCHANGED <<inputs, next, cmd, sourceFiles, nextCluster, nextEntry, root, fileBytes, sector>>

BootDoesNotFit ==
    /\ pc = "boot"
    /\ \/ cmd.boot # "" /\ ~BootFits(cmd.boot)
       \/ BootSectors + FatSectors >= ImageSectors
    /\ pc' = "error"
    /\ UNCHANGED <<inputs, next, cmd, sourceFiles, image, fileBytes, sector>>

-----------------------------------------------------------------------------
(***************************************************************************)
(* AddFileToImage.  First the length: the cached one, or else the one of   *)
(* this moment.  A directory or a deleted file has none.                   *)
(***************************************************************************)
File == sourceFiles[nextEntry + 1]

HasLength == File.length # Unknown \/ tree[File.path].kind = "file"
Length    == IF File.length # Unknown THEN File.length ELSE tree[File.path].length

FileLength ==
    /\ pc = "add"
    /\ nextEntry < Len(sourceFiles)
    /\ HasLength
    /\ Length <= IntMax
    /\ sourceFiles' = [sourceFiles EXCEPT ![nextEntry + 1].length = Length]
    /\ pc' = "read"
    /\ UNCHANGED <<inputs, next, cmd, image, fileBytes, sector>>

NoLength ==
    /\ pc = "add"
    /\ nextEntry < Len(sourceFiles)
    /\ HasLength => Length > IntMax
    /\ pc' = "error"
    /\ UNCHANGED <<inputs, next, cmd, sourceFiles, image, fileBytes, sector>>

EntryBytes(n) == n * DirectoryEntrySize .. (n + 1) * DirectoryEntrySize - 1

\* Then the bytes; a root entry needs three characters after the dot, if there is one.
EntryFits ==
    /\ tree[File.path].kind = "file"
    /\ tree[File.path].extension # "short"
    /\ EntryBytes(nextEntry) \subseteq DOMAIN area

(***************************************************************************)
(* ReadAllBytes and SetRootEntry.  `bytes' is no part of the image: it     *)
(* remembers for the properties what was read.  The four bytes that are    *)
(* skipped within an entry are taken for part of it.                       *)
(***************************************************************************)
SetRootEntry ==
    /\ pc = "read"
    /\ EntryFits
    /\ fileBytes' = [version |-> tree[File.path].version, length |-> tree[File.path].length]
    /\ root' = Append(root, [path |-> File.path, cluster |-> nextCluster, size |-> File.length,
                             bytes |-> fileBytes'])
    /\ area' = Written([o \in EntryBytes(nextEntry) |-> EntryByte(nextEntry)])
    /\ nextEntry' = nextEntry + 1
    /\ sector' = 0
    /\ pc' = "write"
    /\ UNCHANGED <<inputs, next, cmd, sourceFiles, reserved, nextCluster, fats>>

NoRootEntry ==
    /\ pc = "read"
    /\ ~EntryFits
    /\ pc' = "error"
    /\ UNCHANGED <<inputs, next, cmd, sourceFiles, image, fileBytes, sector>>

\* The file being written, and the offset in `area' of its next sector.
Adding      == root[nextEntry]
FileSectors == NumSectors(Adding.size)
Position    == (RootDirSectors + nextCluster - 2) * SectorSize

SectorFillSize == Min({SectorSize, fileBytes.length - sector * SectorSize})

\* Wrong: every sector gets the bytes at the start of the file.
SectorBytes_FromStart == [o \in Position .. Position + SectorFillSize - 1 |->
                             FileByte(Adding.path, fileBytes, o - Position)]

SectorBytes == [o \in Position .. Position + SectorFillSize - 1 |->
                   FileByte(Adding.path, fileBytes, sector * SectorSize + o - Position)]

\* Wrong: the image grows.
SectorFits_ImageGrows == SectorFillSize >= 0

\* Both tables, then as many bytes as are left; outside of the image Write throws.
SectorFits ==
    /\ SectorFillSize >= 0
    /\ Position + SectorFillSize <= AreaSize(reserved)

NextOf == IF sector < FileSectors - 1 THEN nextCluster + 1 ELSE FileEnd

\* Wrong: the second table is left alone.
WriteSector_OneFat ==
    /\ pc = "write"
    /\ sector < FileSectors
    /\ SectorFits
    /\ fat0' = SetFatEntry(fat0, nextCluster, NextOf)
    /\ area' = Written(SectorBytes)
    /\ nextCluster' = nextCluster + 1
    /\ sector' = sector + 1
    /\ UNCHANGED <<inputs, pc, next, cmd, sourceFiles, reserved, nextEntry, root, fileBytes, fat1>>

\* Wrong: a short sector does not use its cluster up.
WriteSector_SharesLast ==
    /\ pc = "write"
    /\ sector < FileSectors
    /\ SectorFits
    /\ fat0' = SetFatEntry(fat0, nextCluster, NextOf)
    /\ fat1' = SetFatEntry(fat1, nextCluster, NextOf)
    /\ area' = Written(SectorBytes)
    /\ nextCluster' = IF SectorFillSize = SectorSize THEN nextCluster + 1 ELSE nextCluster
    /\ sector' = sector + 1
    /\ UNCHANGED <<inputs, pc, next, cmd, sourceFiles, reserved, nextEntry, root, fileBytes>>

WriteSector ==
    /\ pc = "write"
    /\ sector < FileSectors
    /\ SectorFits
    /\ fat0' = SetFatEntry(fat0, nextCluster, NextOf)
    /\ fat1' = SetFatEntry(fat1, nextCluster, NextOf)
    /\ area' = Written(SectorBytes)
    /\ nextCluster' = nextCluster + 1
    /\ sector' = sector + 1
    /\ UNCHANGED <<inputs, pc, next, cmd, sourceFiles, reserved, nextEntry, root, fileBytes>>

SectorDoesNotFit ==
    /\ pc = "write"
    /\ sector < FileSectors
    /\ ~SectorFits
    /\ pc' = "error"
    /\ UNCHANGED <<inputs, next, cmd, sourceFiles, image, fileBytes, sector>>

FileAdded ==
    /\ pc = "write"
    /\ sector = FileSectors
    /\ pc' = "add"
    /\ UNCHANGED <<inputs, next, cmd, sourceFiles, image, fileBytes, sector>>

\* File.WriteAllBytes writes the image, or fails before its first byte or behind it.
WriteImage ==
    /\ pc = "add"
    /\ nextEntry = Len(sourceFiles)
    /\ \/ cmd.out = "" /\ pc' = "error"
       \/ cmd.out # "" /\ pc' \in {"done", "error", "partial"}
    /\ UNCHANGED <<inputs, next, cmd, sourceFiles, image, fileBytes, sector>>

Builder ==
    \/ TryParse
    \/ Parsed
    \/ CollectFile
    \/ CollectDirectory
    \/ CreateImage
    \/ BootDoesNotFit
    \/ FileLength
    \/ NoLength
    \/ SetRootEntry
    \/ NoRootEntry
    \/ WriteSector
    \/ SectorDoesNotFit
    \/ FileAdded
    \/ WriteImage

-----------------------------------------------------------------------------
\* Another program rewrites or deletes a file, once the builder has begun to look.
Running == pc \notin {"arguments", "usage", "error", "partial", "done"}

Rewrite(path, length) ==
    /\ Running
    /\ edits < Edits
    /\ tree[path].kind = "file"
    /\ tree' = [tree EXCEPT ![path].length = length, ![path].version = @ + 1]
    /\ edits' = edits + 1
    /\ UNCHANGED <<args, pc, next, cmd, sourceFiles, image, fileBytes, sector>>

Delete(path) ==
    /\ Running
    /\ edits < Edits
    /\ tree[path].kind = "file"
    /\ tree' = [tree EXCEPT ![path].kind = "none"]
    /\ edits' = edits + 1
    /\ UNCHANGED <<args, pc, next, cmd, sourceFiles, image, fileBytes, sector>>

Next ==
    \/ Builder
    \/ \E path \in Paths, length \in Lengths : Rewrite(path, length)
    \/ \E path \in Paths : Delete(path)

\* A single thread with nothing to wait for: the builder always goes on.
Spec     == Init /\ [][Next]_vars
FairSpec == Spec /\ WF_vars(Builder)
=============================================================================
