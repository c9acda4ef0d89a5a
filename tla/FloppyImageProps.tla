-------------------------- MODULE FloppyImageProps --------------------------
(***************************************************************************)
(* What an image must be for the boot loader, which finds a file by its    *)
(* directory entry and follows its clusters through the FATs.              *)
(***************************************************************************)
EXTENDS FloppyImage

\* The sectors for data, of which an empty last sector may be one too many.
DataSectors == ImageSectors - reserved - 2 * FatSectors - RootDirSectors

TypeOK ==
    /\ tree \in [Paths -> FileData]
    /\ edits \in 0 .. Edits
    /\ pc \in {"arguments", "usage", "collect", "boot", "add", "read", "write", "error",
               "partial", "done"}
    /\ args \in Args
    /\ next \in Nat
    /\ cmd \in [boot : Paths \union {""}, in : Paths \union {""}, out : Paths \union {""},
                files : Seq(Paths)]
    /\ sourceFiles \in Seq([path : Paths, length : Nat \union {Unknown}])
    /\ reserved \in 0 .. ImageSectors
    /\ nextCluster \in 2 .. Max({2, DataSectors + 3})
    /\ nextEntry \in 0 .. Len(sourceFiles)
    /\ {fat0, fat1} \subseteq [0 .. FatSectors * SectorSize - 1 -> Byte]
    /\ Len(root) = nextEntry
    /\ fileBytes \in [version : Nat, length : Nat]
    /\ sector \in Nat

-----------------------------------------------------------------------------
\* How many clusters a file of `size' bytes has.
Clusters(size) == (size + SectorSize - 1) \div SectorSize

\* Cluster number k of a file, as LoadNextCluster comes to it.
FollowFat(fat, first, n) ==
    LET cluster[k \in 0 .. n] ==
            IF k = 0 THEN first
            ELSE IF cluster[k - 1] < EndMarkers THEN GetFatEntry(fat, cluster[k - 1])
            ELSE cluster[k - 1]
    IN  cluster

\* LoadClusterByNumber: where cluster c lies, from the root directory on.
ClusterOffset(c) == (c + RootDirSectors - 2) * SectorSize

\* The byte at position k of the file of directory entry e.
ByteOf(e, k) ==
    LET c == FollowFat(fat0, e.cluster, Clusters(e.size))[k \div SectorSize]
        o == ClusterOffset(c) + (k % SectorSize)
    IN  IF o \in DOMAIN area THEN area[o] ELSE Zero

RootEntries == (RootDirSectors * SectorSize) \div DirectoryEntrySize

\* A size whose sectors an int can count.
Countable(size) == size + SectorSize - 1 <= IntMax

(***************************************************************************)
(* An image that was written gives every file back.  Its directory holds   *)
(* an entry for each file; from it, through either FAT, a chain of as many *)
(* clusters as the size needs leads to the bytes that were read, in order, *)
(* up to the size of the entry; and where the file had meanwhile become    *)
(* shorter, zeros.  This is for no more files than the directory has       *)
(* entries, and sizes that can be counted: the code checks neither.        *)
(***************************************************************************)
FilesReadBack ==
    pc = "done" /\ nextEntry <= RootEntries =>
        \A n \in DOMAIN root : LET e == root[n] IN
            Countable(e.size) =>
                /\ \A o \in EntryBytes(n - 1) : area[o] = EntryByte(n - 1)
                /\ \A fat \in {fat0, fat1} :
                        e.size > 0 => FollowFat(fat, e.cluster, Clusters(e.size))[Clusters(e.size)]
                                          = FileEnd
                /\ \A k \in 0 .. e.size - 1 :
                        ByteOf(e, k) = IF k < e.bytes.length THEN FileByte(e.path, e.bytes, k)
                                                             ELSE Zero

(***************************************************************************)
(* A file nobody touched is in the image as it is: what the boot loader    *)
(* reads from the entry's clusters, up to the entry's size, is the file,   *)
(* byte by byte and whole, although its length and its bytes were asked    *)
(* for at different times.  The same two restrictions as above.            *)
(***************************************************************************)
Untouched(path) == tree[path].version = 0 /\ tree[path].kind = "file"

UntouchedIsExact ==
    pc = "done" /\ nextEntry <= RootEntries =>
        \A n \in DOMAIN root : LET e == root[n] IN
            Untouched(e.path) /\ Countable(e.size) =>
                /\ e.size = tree[e.path].length
                /\ \A k \in 0 .. e.size - 1 : ByteOf(e, k) = FileByte(e.path, tree[e.path], k)

(***************************************************************************)
(* No cluster belongs to two files, at any time: each file has a stretch   *)
(* of clusters of its own, in the order of the directory, and both FATs    *)
(* lead through it, to the end of the file or to the cluster that is       *)
(* written next.  This is about NextUnusedCluster, which must move on for  *)
(* a partial sector too, and about neighbouring entries, which share a     *)
(* byte of a FAT.                                                          *)
(***************************************************************************)
SectorsOf(n)   == IF n = nextEntry /\ pc = "write" THEN sector ELSE NumSectors(root[n].size)
ClustersOf(n)  == root[n].cluster .. (root[n].cluster + SectorsOf(n) - 1)
LastCluster(n) == root[n].cluster + NumSectors(root[n].size) - 1

Linked(fat, n) ==
    \A c \in ClustersOf(n) : GetFatEntry(fat, c) = IF c = LastCluster(n) THEN FileEnd ELSE c + 1

ChainsInOrder ==
    pc # "error" =>
        \A n \in DOMAIN root :
            /\ ClustersOf(n) \subseteq 2 .. (nextCluster - 1)
            /\ Linked(fat0, n)
            /\ Linked(fat1, n)
            /\ \A m \in 1 .. (n - 1) : \A c \in ClustersOf(m), d \in ClustersOf(n) : c < d

(***************************************************************************)
(* All or nothing: an image is written to its end only with every file the *)
(* command line names, and every file of the directory it names, as often  *)
(* as it was asked for; what was deleted meanwhile is left out of this.    *)
(***************************************************************************)
Asked(path) ==
    Cardinality({i \in DOMAIN args : args[i] = [name |-> "file", value |-> path]})
        + (IF cmd.in # "" /\ path \in Listing[cmd.in] THEN 1 ELSE 0)

NothingLeftOut ==
    pc = "done" =>
        \A path \in Paths : tree[path].kind = "file" =>
            Cardinality({n \in DOMAIN root : root[n].path = path}) = Asked(path)

\* The builder ends, whatever is done to its files.
BuildEnds == <>(pc \in {"usage", "error", "partial", "done"})
=============================================================================
