-------------------------- MODULE FloppyImageProofs --------------------------
(***************************************************************************)
(* What the image builder writes and the boot loader reads of it, for      *)
(* every size of image and sector, every set of files and whatever other   *)
(* programs do to them meanwhile.  First the FATs: their entries, and that *)
(* every file has a chain of clusters of its own.  Then how far the        *)
(* counters go, what is known of each file's length and bytes, that no     *)
(* file is forgotten, and at the end the bytes of the image themselves.    *)
(***************************************************************************)
EXTENDS FloppyImageProps, FiniteSetTheorems, SequenceTheorems, WellFoundedInduction, TLAPS

-----------------------------------------------------------------------------
(***************************************************************************)
(* The packing of the image builder and the unpacking of the boot loader   *)
(* fit: for every table, entry and value.                                  *)
(***************************************************************************)
\* An even entry begins a pair of entries, three bytes long.
LEMMA EvenPair ==
    ASSUME NEW i \in Nat, i % 2 = 0
    PROVE  (i * 3) \div 2 = i + (i \div 2)
OBVIOUS

\* An odd entry begins at the second byte of its pair.
LEMMA OddPair ==
    ASSUME NEW i \in Nat, i % 2 = 1
    PROVE  (i * 3) \div 2 = i + (i \div 2)
OBVIOUS

\* Where both ends of a FAT's entry are found.
LEMMA Offset ==
    ASSUME NEW i \in Nat
    PROVE  (i * 3) \div 2 = i + (i \div 2)
BY EvenPair, OddPair

\* The upper half of a byte.
LEMMA UpperHalf ==
    ASSUME NEW byte \in 0 .. 255
    PROVE  \E q \in 0 .. 15 : byte - (byte % 16) = 16 * q
<1>1. byte = 16 * (byte \div 16) + (byte % 16) /\ byte \div 16 \in 0 .. 15
  OBVIOUS
<1> QED  BY <1>1

\* A byte in halves.
LEMMA ByteHalves ==
    ASSUME NEW byte \in 0 .. 255
    PROVE  \E q \in 0 .. 15, r \in 0 .. 15 :
              byte = 16 * q + r /\ byte % 16 = r /\ byte - (byte % 16) = 16 * q
<1>1. /\ byte = 16 * (byte \div 16) + (byte % 16)
      /\ byte \div 16 \in 0 .. 15
      /\ byte % 16 \in 0 .. 15
  OBVIOUS
<1> QED  BY <1>1

(***************************************************************************)
(* What SetFatEntry (Program.cs) stores, GetFatEntry (the boot loader)     *)
(* reads.                                                                  *)
(***************************************************************************)
THEOREM ReadsWhatWasSet ==
    ASSUME NEW size \in Nat, NEW fat \in [0 .. size - 1 -> Byte],
           NEW i \in Nat, i + (i \div 2) + 1 < size,
           NEW value \in FatEntry
    PROVE  GetFatEntry(SetFatEntry(fat, i, value), i) = value
<1> DEFINE si == i + (i \div 2)
<1>1. si \in 0 .. size - 1 /\ si + 1 \in 0 .. size - 1 /\ (i * 3) \div 2 = si
  BY Offset
<1>2. fat[si] \in 0 .. 255 /\ fat[si + 1] \in 0 .. 255
  BY <1>1 DEF Byte
<1>3. value \in 0 .. 4095 /\ value % 4096 = value
  BY DEF FatEntry
<1>4. CASE i % 2 = 0
  <2>1. /\ SetFatEntry(fat, i, value)[si] = value % 256
        /\ SetFatEntry(fat, i, value)[si + 1]
             = (fat[si + 1] - (fat[si + 1] % 16)) + (value \div 256)
    BY <1>1, <1>3, <1>4 DEF SetFatEntry
  <2>2. ((value % 256) + 256 * ((fat[si + 1] - (fat[si + 1] % 16)) + (value \div 256))) % 4096
          = value
    <3>1. PICK q \in 0 .. 15 : fat[si + 1] - (fat[si + 1] % 16) = 16 * q
      BY <1>2, UpperHalf
    <3>2. (value % 256) + 256 * (16 * q + (value \div 256)) = value + 4096 * q
      BY <1>3
    <3>3. (value + 4096 * q) % 4096 = value
      BY <1>3
    <3> QED  BY <3>1, <3>2, <3>3
  <2> QED  BY <1>4, <2>1, <2>2 DEF GetFatEntry
<1>5. CASE i % 2 # 0
  <2>1. /\ SetFatEntry(fat, i, value)[si] = (fat[si] % 16) + (value % 16) * 16
        /\ SetFatEntry(fat, i, value)[si + 1] = value \div 16
    BY <1>1, <1>3, <1>5 DEF SetFatEntry
  <2>2. ((fat[si] % 16) + (value % 16) * 16 + 256 * (value \div 16)) \div 16 = value
    <3> DEFINE low == fat[si]
               a   == low % 16
               b   == (value % 16) * 16 + 256 * (value \div 16)
    <3>1. low \in 0 .. 255 /\ a \in 0 .. 15
      <4>1. PICK q \in 0 .. 15, r \in 0 .. 15 : fat[si] = 16 * q + r /\ fat[si] % 16 = r
        BY <1>2, ByteHalves
      <4> QED  BY <1>2, <4>1
    <3>2. b = 16 * value
      BY <1>3
    <3> HIDE DEF low, a, b
    <3>3. (a + b) \div 16 = value
      BY <1>3, <3>1, <3>2
    <3>4. a + b = (low % 16) + (value % 16) * 16 + 256 * (value \div 16)
      BY <1>3, <3>1 DEF a, b
    <3> QED  BY <3>3, <3>4 DEF low
  <2> QED  BY <1>5, <2>1, <2>2 DEF GetFatEntry
<1> QED  BY <1>4, <1>5

-----------------------------------------------------------------------------
\* A value in the parts it is stored in.
LEMMA ValueParts ==
    ASSUME NEW value \in 0 .. 4095
    PROVE  value \div 256 \in 0 .. 15 /\ value % 16 \in 0 .. 15 /\ value % 4096 = value
OBVIOUS

(***************************************************************************)
(* Setting an entry disturbs no other, although two entries share a byte:  *)
(* what the boot loader reads of the other files' chains stays.            *)
(***************************************************************************)
THEOREM OthersStay ==
    ASSUME NEW size \in Nat, NEW fat \in [0 .. size - 1 -> Byte],
           NEW i \in Nat, i + (i \div 2) + 1 < size,
           NEW j \in Nat, j + (j \div 2) + 1 < size, j # i,
           NEW value \in FatEntry
    PROVE  GetFatEntry(SetFatEntry(fat, i, value), j) = GetFatEntry(fat, j)
<1> DEFINE si == (i * 3) \div 2
           sj == j + (j \div 2)
           new == SetFatEntry(fat, i, value)
<1>1. /\ si \in 0 .. size - 1 /\ si + 1 \in 0 .. size - 1
      /\ sj \in 0 .. size - 1 /\ sj + 1 \in 0 .. size - 1
      /\ si = i + (i \div 2)
  BY Offset
<1>2. \A o \in 0 .. size - 1 : fat[o] \in 0 .. 255
  BY DEF Byte
<1>3. value \in 0 .. 4095
  BY DEF FatEntry
<1>4. i % 2 = 0 /\ j = i + 1 => j % 2 # 0 /\ sj = si + 1
  BY <1>1
<1>5. i % 2 # 0 /\ i = j + 1 => j % 2 = 0 /\ sj + 1 = si
  BY <1>1
<1>6. \/ i % 2 = 0 /\ j = i + 1
      \/ i % 2 # 0 /\ i = j + 1
      \/ sj # si /\ sj # si + 1 /\ sj + 1 # si
  BY <1>1
<1>7. /\ i % 2 = 0 => new[si + 1] = (fat[si + 1] - (fat[si + 1] % 16)) + (value \div 256)
      /\ i % 2 # 0 => new[si] = (fat[si] % 16) + (value % 16) * 16
      /\ \A o \in 0 .. size - 1 : o # si /\ o # si + 1 => new[o] = fat[o]
  <2> DEFINE v == value % 4096
  <2>1. si \in 0 .. size - 1 /\ si + 1 \in 0 .. size - 1 /\ si \in Int
    BY <1>1
  <2>2. v = value
    BY <1>3, ValueParts, SMTT(30)
  <2>3. CASE i % 2 = 0
    <3> DEFINE high == (fat[si + 1] - (fat[si + 1] % 16)) + (v \div 256)
    <3>1. new = [fat EXCEPT ![si] = v % 256, ![si + 1] = high]
      BY <2>3 DEF SetFatEntry
    <3> HIDE DEF high, new, si, v
    <3>2. new[si + 1] = high /\ \A o \in 0 .. size - 1 : o # si /\ o # si + 1 => new[o] = fat[o]
      BY <2>1, <3>1
    <3> QED  BY <2>2, <2>3, <3>2 DEF high
  <2>4. CASE i % 2 # 0
    <3> DEFINE low == (fat[si] % 16) + (v % 16) * 16
    <3>1. new = [fat EXCEPT ![si] = low, ![si + 1] = v \div 16]
      BY <2>4 DEF SetFatEntry
    <3> HIDE DEF low, new, si, v
    <3>2. new[si] = low /\ \A o \in 0 .. size - 1 : o # si /\ o # si + 1 => new[o] = fat[o]
      BY <2>1, <3>1
    <3> QED  BY <2>2, <2>4, <3>2 DEF low
  <2> QED  BY <2>3, <2>4
<1>8. /\ GetFatEntry(fat, j) =
            IF j % 2 = 0 THEN (fat[sj] + 256 * fat[sj + 1]) % 4096
                         ELSE (fat[sj] + 256 * fat[sj + 1]) \div 16
      /\ GetFatEntry(new, j) =
            IF j % 2 = 0 THEN (new[sj] + 256 * new[sj + 1]) % 4096
                         ELSE (new[sj] + 256 * new[sj + 1]) \div 16
  BY DEF GetFatEntry
<1> SUFFICES GetFatEntry(new, j) = GetFatEntry(fat, j)
  OBVIOUS
<1> HIDE DEF si, sj, new
<1>9. CASE i % 2 = 0 /\ j = i + 1
  <2>1. new[sj] = (fat[sj] - (fat[sj] % 16)) + (value \div 256) /\ new[sj + 1] = fat[sj + 1]
    BY <1>1, <1>4, <1>7, <1>9
  <2>2. PICK q \in 0 .. 15, r \in 0 .. 15 :
           fat[sj] = 16 * q + r /\ fat[sj] - (fat[sj] % 16) = 16 * q
    BY <1>1, <1>2, ByteHalves
  <2>3. PICK t \in 0 .. 15 : value \div 256 = t
    BY <1>3, ValueParts, SMTT(30)
  <2>4. PICK high \in 0 .. 255 : fat[sj + 1] = high
    BY <1>1, <1>2
  <2>5. (16 * q + t + 256 * high) \div 16 = (16 * q + r + 256 * high) \div 16
    <3>1. (16 * q + t + 256 * high) \div 16 = q + 16 * high
      OBVIOUS
    <3>2. (16 * q + r + 256 * high) \div 16 = q + 16 * high
      OBVIOUS
    <3> QED  BY <3>1, <3>2
  <2>6. new[sj] = 16 * q + t /\ new[sj + 1] = high
    BY <2>1, <2>2, <2>3, <2>4
  <2> QED  BY <1>4, <1>8, <1>9, <2>2, <2>4, <2>5, <2>6
<1>10. CASE i % 2 # 0 /\ i = j + 1
  <2>1. new[sj + 1] = (fat[sj + 1] % 16) + (value % 16) * 16 /\ new[sj] = fat[sj]
    BY <1>1, <1>5, <1>7, <1>10
  <2>2. PICK q \in 0 .. 15, r \in 0 .. 15 : fat[sj + 1] = 16 * q + r /\ fat[sj + 1] % 16 = r
    BY <1>1, <1>2, ByteHalves
  <2>3. PICK t \in 0 .. 15 : value % 16 = t
    BY <1>3, ValueParts
  <2>4. PICK low \in 0 .. 255 : fat[sj] = low
    BY <1>1, <1>2
  <2>5. (low + 256 * (r + t * 16)) % 4096 = (low + 256 * (16 * q + r)) % 4096
    OBVIOUS
  <2>6. new[sj] = low /\ new[sj + 1] = r + t * 16
    BY <2>1, <2>2, <2>3, <2>4
  <2> QED  BY <1>5, <1>8, <1>10, <2>2, <2>4, <2>5, <2>6
<1>11. CASE sj # si /\ sj # si + 1 /\ sj + 1 # si
  <2>1. new[sj] = fat[sj] /\ new[sj + 1] = fat[sj + 1]
    BY <1>1, <1>7, <1>11
  <2> QED  BY <1>8, <2>1
<1> QED  BY <1>6, <1>9, <1>10, <1>11

-----------------------------------------------------------------------------

Table  == [0 .. FatSectors * SectorSize - 1 -> Byte]
Entry  == [path : Paths, cluster : Nat, size : Nat, bytes : [version : Nat, length : Nat]]
Source == [path : Paths, length : Nat \union {Unknown}]

Command == [boot : Paths \union {""}, in : Paths \union {""}, out : Paths \union {""},
            files : Seq(Paths)]

ProgramTypes ==
    /\ tree \in [Paths -> FileData]
    /\ args \in Args
    /\ next \in Nat
    /\ cmd \in Command
    /\ sourceFiles \in Seq(Source)
    /\ fileBytes \in [version : Nat, length : Nat]
    /\ sector \in Nat

ImageTypes ==
    /\ reserved \in Nat
    /\ nextCluster \in Nat /\ nextCluster >= 2
    /\ nextEntry = Len(root)
    /\ fat0 \in Table /\ fat1 \in Table
    /\ root \in Seq(Entry)

Types == ProgramTypes /\ ImageTypes

\* What each place in AddFileToImage relies on.
Place ==
    /\ pc \in {"arguments", "usage", "collect", "boot"} => root = <<>>
    /\ pc = "read" => nextEntry + 1 \in DOMAIN sourceFiles /\ File.length \in Nat
    /\ pc = "write" =>
           /\ nextEntry \in DOMAIN root
           /\ sector <= FileSectors
           /\ nextCluster = Adding.cluster + sector

\* The chain of entry n lies behind those of the entries before it.
Chained(n) ==
    /\ 2 <= root[n].cluster
    /\ root[n].cluster + SectorsOf(n) <= nextCluster
    /\ Linked(fat0, n)
    /\ Linked(fat1, n)
    /\ \A m \in 1 .. (n - 1) : root[m].cluster + NumSectors(root[m].size) <= root[n].cluster

Chains == pc # "error" => \A n \in DOMAIN root : Chained(n)

IInv == Types /\ Place /\ Chains

-----------------------------------------------------------------------------
LEMMA NumSectorsNat ==
    ASSUME NEW size \in Nat PROVE NumSectors(size) \in Nat
<1>1. SectorSize \in Nat \ {0}
  BY SizesAssumption
<1>2. (size + SectorSize - 1) \div SectorSize \in Nat
  BY <1>1
<1> QED
  BY <1>2 DEF NumSectors

LEMMA Cancel ==
    ASSUME NEW a \in Int, NEW b \in Int, NEW s \in Nat \ {0}, NEW f \in Nat, a * s + f <= b * s
    PROVE  a <= b
<1> SUFFICES ASSUME a > b PROVE FALSE
  OBVIOUS
<1>1. PICK d \in Nat \ {0} : a = b + d
  <2>1. a - b \in Nat \ {0} /\ a = b + (a - b)
    OBVIOUS
  <2> QED  BY <2>1
<1>2. a * s = b * s + d * s
  BY <1>1
<1>3. d * s > 0
  OBVIOUS
<1> QED  BY <1>2, <1>3

\* A cluster has an entry in the FATs if it is the number of a sector.
LEMMA EntryInTable ==
    ASSUME NEW c \in Nat, c < ImageSectors
    PROVE  c + (c \div 2) + 1 < FatSectors * SectorSize
<1>1. ImageSectors \in Nat /\ FatSectors * SectorSize \in Nat
  BY SizesAssumption
<1>2. (c * 3) \div 2 <= (ImageSectors * 3) \div 2
  BY <1>1
<1>3. (c * 3) \div 2 = c + (c \div 2)
  BY Offset
<1> QED
  BY <1>1, <1>2, <1>3, SizesAssumption

LEMMA MinOfInts ==
    ASSUME NEW a \in Int, NEW b \in Int
    PROVE  Min({a, b}) \in {a, b}
<1> DEFINE Least(x) == x \in {a, b} /\ \A y \in {a, b} : x <= y
<1>1. \E x : Least(x)
  <2>1. CASE a <= b
    BY <2>1
  <2>2. CASE ~(a <= b)
    BY <2>2
  <2> QED  BY <2>1, <2>2
<1>2. Min({a, b}) = CHOOSE x \in {a, b} : \A y \in {a, b} : x <= y
  BY DEF Min
<1> QED  BY <1>1, <1>2

\* Where a sector fits the image, its cluster is such a number.
LEMMA ClusterInTable ==
    ASSUME Types, SectorFits
    PROVE  nextCluster < ImageSectors
<1> DEFINE a == RootDirSectors + nextCluster - 2
           b == ImageSectors - reserved - 2 * FatSectors
<1>1. /\ SectorSize \in Nat \ {0} /\ ImageSectors \in Nat /\ FatSectors \in Nat \ {0}
      /\ RootDirSectors \in Nat \ {0} /\ reserved \in Nat /\ nextCluster \in Nat
  BY SizesAssumption DEF Types, ProgramTypes, ImageTypes
<1>2. SectorFillSize \in Nat
  <2>1. fileBytes.length - sector * SectorSize \in Int
    <3>1. fileBytes.length \in Nat /\ sector \in Nat
      BY DEF Types, ProgramTypes, ImageTypes
    <3>2. sector * SectorSize \in Int
      BY <1>1, <3>1
    <3> QED  BY <3>1, <3>2
  <2>2. SectorFillSize \in Int
    BY <1>1, <2>1, MinOfInts DEF SectorFillSize
  <2> QED  BY <2>2 DEF SectorFits
<1>3. a * SectorSize + SectorFillSize <= b * SectorSize
  BY DEF SectorFits, Position, AreaSize
<1>4. a \in Int /\ b \in Int
  BY <1>1
<1> HIDE DEF a, b
<1>5. a <= b
  BY <1>1, <1>2, <1>3, <1>4, Cancel
<1> QED
  BY <1>1, <1>5 DEF a, b

\* A table stays one.
LEMMA TypesOfSetFatEntry ==
    ASSUME NEW fat \in Table, NEW c \in Nat, c + (c \div 2) + 1 < FatSectors * SectorSize,
           NEW value \in FatEntry
    PROVE  SetFatEntry(fat, c, value) \in Table
<1> DEFINE pair == (c * 3) \div 2
           v    == value % 4096
<1>1. /\ v % 256 \in Byte
      /\ v \div 16 \in Byte
      /\ v \div 256 \in 0 .. 15
      /\ v % 16 \in 0 .. 15
  BY DEF Byte, FatEntry
<1>2. pair = c + (c \div 2) /\ pair \in 0 .. FatSectors * SectorSize - 1
      /\ pair + 1 \in 0 .. FatSectors * SectorSize - 1
  BY Offset, SizesAssumption
<1>3. fat[pair] \in 0 .. 255 /\ fat[pair + 1] \in 0 .. 255
  BY <1>2 DEF Table, Byte
<1> HIDE DEF pair, v
<1>4. CASE c % 2 = 0
  <2> DEFINE high == fat[pair + 1]
  <2>1. PICK q \in 0 .. 15, r \in 0 .. 15 : high - (high % 16) = 16 * q
    BY <1>3, ByteHalves
  <2>2. (high - (high % 16)) + (v \div 256) \in Byte
    BY <1>1, <2>1 DEF Byte
  <2> QED
    BY <1>1, <1>2, <1>4, <2>2 DEF SetFatEntry, Table, pair, v
<1>5. CASE c % 2 # 0
  <2> DEFINE low == fat[pair]
  <2>1. low % 16 \in 0 .. 15
    BY <1>3
  <2>2. (low % 16) + (v % 16) * 16 \in Byte
    BY <1>1, <2>1 DEF Byte
  <2> QED
    BY <1>1, <1>2, <1>5, <2>2 DEF SetFatEntry, Table, pair, v
<1> QED  BY <1>4, <1>5

-----------------------------------------------------------------------------
\* Nothing the chains are made of changes.
LEMMA ChainsStay ==
    ASSUME IInv, UNCHANGED <<root, fat0, fat1, nextCluster>>, pc' # "error" => pc # "error",
           \A n \in DOMAIN root : SectorsOf(n)' = SectorsOf(n)
    PROVE  Chains'
<1> SUFFICES ASSUME pc' # "error", NEW n \in DOMAIN root' PROVE Chained(n)'
  BY DEF Chains
<1>1. Chained(n)
  BY DEF IInv, Chains
<1>2. SectorsOf(n)' = SectorsOf(n) /\ LastCluster(n)' = LastCluster(n)
  BY DEF LastCluster
<1>3. ClustersOf(n)' = ClustersOf(n)
  BY <1>2 DEF ClustersOf
<1>4. Linked(fat0, n)' /\ Linked(fat1, n)'
  BY <1>1, <1>2, <1>3 DEF Chained, Linked
<1> QED
  BY <1>1, <1>2, <1>4 DEF Chained

\* An action that leaves the image alone, outside of the loop over the sectors.
LEMMA ImageStays ==
    ASSUME IInv, UNCHANGED image, pc' # "error" => pc # "error", pc # "write", pc' # "write"
    PROVE  Chains'
<1>1. \A n \in DOMAIN root : SectorsOf(n)' = SectorsOf(n)
  BY DEF SectorsOf, image
<1> QED
  BY <1>1, ChainsStay DEF image, fats

LEMMA InitIsSafe == Init => IInv
<1> SUFFICES ASSUME Init PROVE IInv
  OBVIOUS
<1>1. ImageTypes
  <2>1. /\ reserved = 1 /\ nextCluster = 2 /\ nextEntry = 0 /\ root = <<>>
        /\ fat0 = [o \in 0 .. FatSectors * SectorSize - 1 |-> 0] /\ fat1 = fat0
    BY Zenon DEF Init
  <2>2. 0 \in Byte
    BY DEF Byte
  <2>3. fat0 \in Table
    BY <2>1, <2>2, Zenon DEF Table
  <2> QED  BY <2>1, <2>3, EmptySeq DEF ImageTypes
<1>2. ProgramTypes
  <2>1. /\ next = 0 /\ sector = 0 /\ sourceFiles = <<>>
        /\ fileBytes = [version |-> 0, length |-> 0]
        /\ cmd = [boot |-> "", in |-> "", out |-> "", files |-> <<>>]
        /\ tree \in Trees /\ args \in Args
    BY Zenon DEF Init
  <2>2. sourceFiles \in Seq(Source) /\ cmd \in Command
    BY <2>1, EmptySeq DEF Command
  <2> QED  BY <2>1, <2>2, InputsAssumption DEF ProgramTypes
<1>3. root = <<>> /\ pc = "arguments"
  BY DEF Init
<1>4. Place /\ Chains
  BY <1>3 DEF Place, Chains
<1> QED  BY <1>1, <1>2, <1>4 DEF IInv, Types

-----------------------------------------------------------------------------
\* The parser and the collector: there is no image yet.
LEMMA TryParseIsSafe ==
    ASSUME IInv, TryParse PROVE IInv'
<1>1. /\ UNCHANGED <<inputs, sourceFiles, image, fileBytes, sector>>
      /\ next' = next + 1
      /\ pc = "arguments" /\ next < Len(args)
  BY DEF TryParse
<1>2. cmd' \in Command /\ pc' \in {"arguments", "usage"}
  <2> DEFINE arg == args[next + 1]
  <2>1. /\ arg.value \in Paths \union {""}
        /\ arg.name = "file" => arg.value \in Paths
    <3>1. args \in Seq(Argument) /\ args \in Args /\ next \in Nat
      BY InputsAssumption DEF IInv, Types, ProgramTypes
    <3>2. next + 1 \in 1 .. Len(args) /\ DOMAIN args = 1 .. Len(args)
      BY <1>1, <3>1
    <3>3. arg \in Argument
      BY <3>1, <3>2, ElementOfSeq
    <3> QED  BY <3>1, <3>2, <3>3, InputsAssumption DEF Argument
  <2>2. cmd \in Command
    BY DEF IInv, Types, ProgramTypes
  <2>3. \/ arg.name = "file" /\ cmd' = [cmd EXCEPT !.files = Append(@, arg.value)] /\ pc' = pc
        \/ /\ arg.name \in {"boot", "in", "out"}
           /\ cmd' = [cmd EXCEPT ![arg.name] = arg.value] /\ pc' = pc
        \/ cmd' = cmd /\ pc' = "usage"
    BY DEF TryParse, Accepted
  <2> HIDE DEF arg
  <2>4. CASE arg.name = "file" /\ cmd' = [cmd EXCEPT !.files = Append(@, arg.value)] /\ pc' = pc
    <3>1. cmd.files \in Seq(Paths)
      BY <2>2 DEF Command
    <3>2. Append(cmd.files, arg.value) \in Seq(Paths)
      <4> DEFINE path == arg.value
      <4>1. path \in Paths
        BY <2>1, <2>4
      <4> HIDE DEF path
      <4>2. Append(cmd.files, path) \in Seq(Paths)
        BY <3>1, <4>1, AppendProperties
      <4> QED  BY <4>2 DEF path
    <3> QED  BY <1>1, <2>2, <2>4, <3>2 DEF Command
  <2>5. CASE /\ arg.name \in {"boot", "in", "out"}
             /\ cmd' = [cmd EXCEPT ![arg.name] = arg.value] /\ pc' = pc
    BY <1>1, <2>1, <2>2, <2>5 DEF Command
  <2>6. CASE cmd' = cmd /\ pc' = "usage"
    BY <2>2, <2>6
  <2> QED  BY <2>3, <2>4, <2>5, <2>6
<1>3. ProgramTypes'
  BY <1>1, <1>2 DEF IInv, Types, ProgramTypes, inputs
<1>4. ImageTypes'
  BY <1>1 DEF IInv, Types, ImageTypes, image, fats
<1>5. root' = <<>>
  BY <1>1 DEF IInv, Place, image
<1>6. Place' /\ Chains'
  BY <1>2, <1>5 DEF Place, Chains
<1> QED  BY <1>3, <1>4, <1>6 DEF IInv, Types

LEMMA CollectFileIsSafe ==
    ASSUME IInv, CollectFile PROVE IInv'
<1>1. /\ UNCHANGED <<inputs, pc, cmd, image, fileBytes, sector>>
      /\ next' = next + 1
      /\ pc = "collect" /\ next < Len(cmd.files)
  BY DEF CollectFile
<1>2. sourceFiles' \in Seq(Source)
  <2> DEFINE path == cmd.files[next + 1]
             source == [path |-> path, length |-> tree[path].length]
  <2>1. sourceFiles' = IF tree[path].kind = "file" THEN Append(sourceFiles, source)
                                                  ELSE sourceFiles
    BY DEF CollectFile
  <2>2. sourceFiles \in Seq(Source) /\ next \in Nat /\ cmd.files \in Seq(Paths)
        /\ tree \in [Paths -> FileData]
    BY DEF IInv, Types, ProgramTypes, Command
  <2>3. path \in Paths
    BY <1>1, <2>2
  <2> HIDE DEF path
  <2>4. source \in Source
    BY <2>2, <2>3 DEF Source, FileData
  <2> HIDE DEF source
  <2> QED  BY <2>1, <2>2, <2>4, AppendProperties
<1>3. ProgramTypes'
  BY <1>1, <1>2 DEF IInv, Types, ProgramTypes, inputs
<1>4. ImageTypes'
  BY <1>1 DEF IInv, Types, ImageTypes, image, fats
<1>5. root' = <<>>
  BY <1>1 DEF IInv, Place, image
<1>6. Place' /\ Chains'
  BY <1>1, <1>5 DEF Place, Chains
<1> QED  BY <1>3, <1>4, <1>6 DEF IInv, Types

\* The files of a directory, in whatever order the system names them.
LEMMA OrdersAreSequences ==
    ASSUME NEW S, NEW T, S \subseteq T, IsFiniteSet(S), NEW order \in SetToSeqs(S)
    PROVE  Len(order) \in Nat /\ DOMAIN order = 1 .. Len(order)
           /\ \A i \in DOMAIN order : order[i] \in T
<1>1. Cardinality(S) \in Nat
  BY FS_CardinalityType
<1>2. order \in [1 .. Cardinality(S) -> S]
  BY DEF SetToSeqs
<1> QED  BY <1>1, <1>2

LEMMA CollectDirectoryIsSafe ==
    ASSUME IInv, CollectDirectory PROVE IInv'
<1>1. /\ UNCHANGED <<inputs, next, cmd, image, fileBytes, sector>>
      /\ pc = "collect" /\ pc' \in {"boot", "error"}
  BY DEF CollectDirectory
<1>2. sourceFiles' \in Seq(Source)
  <2> DEFINE found == {p \in Listing[cmd.in] : tree[p].kind # "none"}
  <2>1. sourceFiles \in Seq(Source) /\ cmd.in \in Paths \union {""}
    BY DEF IInv, Types, ProgramTypes, Command
  <2>2. CASE UNCHANGED sourceFiles
    BY <2>1, <2>2
  <2>3. CASE /\ cmd.in # ""
             /\ \E order \in SetToSeqs(found) :
                  sourceFiles' = sourceFiles \o
                     [i \in DOMAIN order |-> [path |-> order[i], length |-> Unknown]]
    <3>1. PICK order \in SetToSeqs(found) :
             sourceFiles' = sourceFiles \o
                [i \in DOMAIN order |-> [path |-> order[i], length |-> Unknown]]
      BY <2>3
    <3>2. found \subseteq Paths /\ IsFiniteSet(found)
      <4>1. found \subseteq Listing[cmd.in] /\ Listing[cmd.in] \subseteq Paths
            /\ IsFiniteSet(Listing[cmd.in])
        BY <2>1, <2>3, InputsAssumption
      <4> QED  BY <4>1, FS_Subset
    <3> HIDE DEF found
    <3>3. /\ Len(order) \in Nat /\ DOMAIN order = 1 .. Len(order)
          /\ \A i \in DOMAIN order : order[i] \in Paths
      BY <3>1, <3>2, OrdersAreSequences
    <3> DEFINE added == [i \in DOMAIN order |-> [path |-> order[i], length |-> Unknown]]
    <3>4. added \in Seq(Source)
      <4>1. \A i \in 1 .. Len(order) : [path |-> order[i], length |-> Unknown] \in Source
        BY <3>3 DEF Source
      <4>2. [i \in 1 .. Len(order) |-> [path |-> order[i], length |-> Unknown]] \in Seq(Source)
        BY <3>3, <4>1, IsASeq
      <4> QED  BY <3>3, <4>2
    <3> HIDE DEF added
    <3> QED  BY <2>1, <3>1, <3>4, ConcatProperties DEF added
  <2> QED  BY <2>2, <2>3 DEF CollectDirectory
<1>3. ProgramTypes'
  BY <1>1, <1>2 DEF IInv, Types, ProgramTypes, inputs
<1>4. ImageTypes'
  BY <1>1 DEF IInv, Types, ImageTypes, image, fats
<1>5. root' = <<>>
  BY <1>1 DEF IInv, Place, image
<1>6. Place' /\ Chains'
  BY <1>1, <1>5 DEF Place, Chains
<1> QED  BY <1>3, <1>4, <1>6 DEF IInv, Types

-----------------------------------------------------------------------------
LEMMA MarkReservedTypes ==
    ASSUME NEW fat \in Table PROVE MarkReserved(fat) \in Table
<1>1. 2 < FatSectors * SectorSize
  <2>1. FatSectors \in Nat \ {0} /\ SectorSize \in Nat /\ SectorSize >= 3
    BY SizesAssumption
  <2>2. PICK d \in Nat : FatSectors = d + 1
    BY <2>1
  <2>3. (d + 1) * SectorSize = d * SectorSize + SectorSize /\ d * SectorSize \in Nat
    BY <2>1
  <2> QED  BY <2>1, <2>2, <2>3
<1>2. EndMarkers \in FatEntry /\ FileEnd \in FatEntry
  BY DEF EndMarkers, FileEnd, FatEntry
<1>3. SetFatEntry(fat, 0, EndMarkers) \in Table
  <2>1. 0 + (0 \div 2) + 1 < FatSectors * SectorSize
    BY <1>1, SizesAssumption
  <2> QED  BY <1>2, <2>1, TypesOfSetFatEntry
<1> DEFINE first == SetFatEntry(fat, 0, EndMarkers)
<1> HIDE DEF first
<1>4. SetFatEntry(first, 1, FileEnd) \in Table
  <2>1. 1 + (1 \div 2) + 1 < FatSectors * SectorSize
    BY <1>1, SizesAssumption
  <2> QED  BY <1>2, <1>3, <2>1, TypesOfSetFatEntry DEF first
<1> QED  BY <1>4 DEF MarkReserved, first

LEMMA CreateImageIsSafe ==
    ASSUME IInv, CreateImage PROVE IInv'
<1>1. /\ UNCHANGED <<inputs, next, cmd, sourceFiles, nextCluster, nextEntry, root, fileBytes,
                     sector>>
      /\ pc = "boot" /\ pc' = "add"
      /\ cmd.boot # "" => BootFits(cmd.boot)
      /\ reserved' = BootSectors
      /\ fat0' = MarkReserved(fat0) /\ fat1' = MarkReserved(fat1)
  BY DEF CreateImage
<1>2. BootSectors \in Nat
  <2>1. cmd.boot \in Paths \union {""} /\ tree \in [Paths -> FileData]
    BY DEF IInv, Types, ProgramTypes, Command
  <2>2. CASE cmd.boot = ""
    BY <2>2 DEF BootSectors
  <2>3. CASE cmd.boot # ""
    <3>1. tree[cmd.boot].length \in Nat
      BY <2>1, <2>3 DEF FileData
    <3>2. NumSectors(tree[cmd.boot].length) \in Nat
      BY <3>1, NumSectorsNat
    <3> QED  BY <2>3, <3>2 DEF BootSectors
  <2> QED  BY <2>2, <2>3
<1>3. ProgramTypes'
  BY <1>1 DEF IInv, Types, ProgramTypes, inputs
<1>4. ImageTypes'
  BY <1>1, <1>2, MarkReservedTypes DEF IInv, Types, ImageTypes
<1>5. root' = <<>>
  BY <1>1 DEF IInv, Place
<1>6. Place'
  BY <1>1, <1>5, Zenon DEF Place
<1>7. DOMAIN root' = {}
  BY <1>5
<1>8. Chains'
  BY <1>7 DEF Chains
<1> QED  BY <1>3, <1>4, <1>6, <1>8 DEF IInv, Types

LEMMA FileLengthIsSafe ==
    ASSUME IInv, FileLength PROVE IInv'
<1> DEFINE i == nextEntry + 1
           source == [File EXCEPT !.length = Length]
<1>1. /\ UNCHANGED <<inputs, next, cmd, image, fileBytes, sector>>
      /\ pc = "add" /\ pc' = "read"
      /\ nextEntry < Len(sourceFiles)
      /\ HasLength
      /\ sourceFiles' = [sourceFiles EXCEPT ![i].length = Length]
  BY DEF FileLength
<1>2. /\ sourceFiles \in Seq(Source) /\ i \in 1 .. Len(sourceFiles)
      /\ tree \in [Paths -> FileData]
  BY <1>1 DEF IInv, Types, ProgramTypes, ImageTypes
<1>3. File \in Source
  BY <1>2, ElementOfSeq DEF File
<1>4. Length \in Nat
  <2>1. File.path \in Paths /\ File.length \in Nat \union {Unknown}
    BY <1>3 DEF Source
  <2>2. tree[File.path].length \in Nat
    BY <1>2, <2>1 DEF FileData
  <2> QED  BY <2>1, <2>2 DEF Length
<1>5. source \in Source /\ source.length = Length
  BY <1>3, <1>4 DEF Source
<1>6. sourceFiles' = [sourceFiles EXCEPT ![i] = source]
  BY <1>1 DEF File
<1> HIDE DEF source, i
<1>7. /\ sourceFiles' \in Seq(Source)
      /\ i \in DOMAIN sourceFiles'
      /\ sourceFiles'[i] = source
  BY <1>2, <1>5, <1>6
<1>8. ProgramTypes'
  BY <1>1, <1>7 DEF IInv, Types, ProgramTypes, inputs
<1>9. ImageTypes'
  BY <1>1 DEF IInv, Types, ImageTypes, image, fats
<1>10. Place'
  BY <1>1, <1>4, <1>5, <1>7 DEF Place, File, image, i
<1>11. Chains'
  BY <1>1, ImageStays
<1> QED  BY <1>8, <1>9, <1>10, <1>11 DEF IInv, Types

LEMMA SetRootEntryIsSafe ==
    ASSUME IInv, SetRootEntry PROVE IInv'
<1> DEFINE entry == [path |-> File.path, cluster |-> nextCluster, size |-> File.length,
                     bytes |-> fileBytes']
           last  == Len(root) + 1
<1>1. /\ UNCHANGED <<inputs, next, cmd, sourceFiles, reserved, nextCluster, fats>>
      /\ pc = "read" /\ pc' = "write"
      /\ fileBytes' = [version |-> tree[File.path].version, length |-> tree[File.path].length]
      /\ root' = Append(root, entry)
      /\ nextEntry' = nextEntry + 1
      /\ sector' = 0
  BY DEF SetRootEntry
<1>2. /\ File \in Source /\ File.length \in Nat
      /\ tree \in [Paths -> FileData]
      /\ root \in Seq(Entry)
      /\ nextEntry = Len(root)
      /\ nextCluster \in Nat /\ nextCluster >= 2
  BY <1>1, ElementOfSeq DEF IInv, Types, ProgramTypes, ImageTypes, Place, File
<1>3. fileBytes' \in [version : Nat, length : Nat]
  BY <1>1, <1>2 DEF Source, FileData
<1>4. entry \in Entry
  BY <1>2, <1>3 DEF Entry, Source
<1>5. entry.cluster = nextCluster /\ entry.size = File.length
  OBVIOUS
<1> HIDE DEF entry
<1>6. /\ root' \in Seq(Entry)
      /\ Len(root') = last /\ DOMAIN root' = 1 .. last /\ last \in Nat \ {0}
      /\ root'[last] = entry
      /\ \A n \in 1 .. Len(root) : root'[n] = root[n]
      /\ DOMAIN root = 1 .. Len(root)
  BY <1>1, <1>2, <1>4, AppendProperties
<1>7. ProgramTypes'
  BY <1>1, <1>3 DEF IInv, Types, ProgramTypes, inputs
<1>8. ImageTypes'
  BY <1>1, <1>2, <1>6 DEF IInv, Types, ImageTypes, fats
<1>9. NumSectors(entry.size) \in Nat
  BY <1>2, <1>5, NumSectorsNat
<1>10. nextEntry' = last /\ Adding' = entry
  BY <1>1, <1>2, <1>6 DEF Adding
<1>11. Place'
  BY <1>1, <1>2, <1>5, <1>6, <1>9, <1>10 DEF Place, FileSectors
<1>12. Chains'
  <2> SUFFICES ASSUME NEW n \in 1 .. last PROVE Chained(n)'
    BY <1>1, <1>6 DEF Chains
  <2>1. \A m \in 1 .. Len(root) :
           /\ Chained(m)
           /\ SectorsOf(m) = NumSectors(root[m].size)
           /\ SectorsOf(m)' = SectorsOf(m)
           /\ root'[m] = root[m]
    BY <1>1, <1>6, <1>10 DEF IInv, Chains, SectorsOf
  <2>2. CASE n # last
    <3>1. n \in 1 .. Len(root)
      BY <1>6, <2>2
    <3>2. /\ ClustersOf(n)' = ClustersOf(n) /\ LastCluster(n)' = LastCluster(n)
          /\ fat0' = fat0 /\ fat1' = fat1 /\ nextCluster' = nextCluster
      BY <1>1, <2>1, <3>1 DEF ClustersOf, LastCluster, fats
    <3>3. Chained(n) /\ root'[n] = root[n] /\ SectorsOf(n)' = SectorsOf(n)
      BY <2>1, <3>1
    <3>4. Linked(fat0, n)' /\ Linked(fat1, n)'
      BY <3>2, <3>3 DEF Chained, Linked
    <3>5. \A m \in 1 .. (n - 1) : root'[m] = root[m]
      BY <2>1, <3>1
    <3> QED  BY <3>2, <3>3, <3>4, <3>5 DEF Chained
  <2>3. CASE n = last
    <3>1. SectorsOf(n)' = 0 /\ root'[n] = entry
      BY <1>1, <1>6, <1>10, <2>3 DEF SectorsOf
    <3>2. ClustersOf(n)' = {}
      BY <1>2, <1>5, <3>1 DEF ClustersOf
    <3>3. Linked(fat0, n)' /\ Linked(fat1, n)'
      BY <3>2 DEF Linked
    <3>4. \A m \in 1 .. (n - 1) : root'[m].cluster + NumSectors(root'[m].size) <= entry.cluster
      BY <1>5, <1>6, <2>1, <2>3 DEF Chained
    <3> QED  BY <1>1, <1>2, <1>5, <3>1, <3>3, <3>4 DEF Chained
  <2> QED  BY <2>2, <2>3
<1> QED  BY <1>7, <1>8, <1>11, <1>12 DEF IInv, Types

\* Setting the entry of one cluster keeps what a table says of those before it.
LEMMA FatSetBehind ==
    ASSUME NEW fat \in Table, NEW c \in Nat, c < ImageSectors, NEW value \in FatEntry
    PROVE  /\ SetFatEntry(fat, c, value) \in Table
           /\ GetFatEntry(SetFatEntry(fat, c, value), c) = value
           /\ \A d \in 0 .. (c - 1) :
                 GetFatEntry(SetFatEntry(fat, c, value), d) = GetFatEntry(fat, d)
<1>1. c + (c \div 2) + 1 < FatSectors * SectorSize
  BY EntryInTable
<1>2. FatSectors * SectorSize \in Nat
  BY SizesAssumption
<1>3. fat \in [0 .. FatSectors * SectorSize - 1 -> Byte]
  BY DEF Table
<1>4. SetFatEntry(fat, c, value) \in Table
  BY <1>1, TypesOfSetFatEntry
<1> DEFINE size == FatSectors * SectorSize
<1> HIDE DEF size
<1>5. GetFatEntry(SetFatEntry(fat, c, value), c) = value
  BY <1>1, <1>2, <1>3, ReadsWhatWasSet DEF size
<1>6. ASSUME NEW d \in 0 .. (c - 1)
      PROVE  GetFatEntry(SetFatEntry(fat, c, value), d) = GetFatEntry(fat, d)
  <2>1. d \in Nat /\ d # c /\ d < ImageSectors
    BY SizesAssumption
  <2>2. d + (d \div 2) + 1 < FatSectors * SectorSize
    BY <2>1, EntryInTable
  <2> QED  BY <1>1, <1>2, <1>3, <2>1, <2>2, OthersStay DEF size
<1> QED  BY <1>4, <1>5, <1>6

LEMMA WriteSectorIsSafe ==
    ASSUME IInv, WriteSector PROVE IInv'
<1> DEFINE c == nextCluster
           e == nextEntry
<1>1. /\ UNCHANGED <<inputs, pc, next, cmd, sourceFiles, reserved, nextEntry, root, fileBytes>>
      /\ pc = "write"
      /\ sector < FileSectors
      /\ SectorFits
      /\ fat0' = SetFatEntry(fat0, c, NextOf) /\ fat1' = SetFatEntry(fat1, c, NextOf)
      /\ nextCluster' = c + 1
      /\ sector' = sector + 1
  BY DEF WriteSector
<1>2. /\ root \in Seq(Entry) /\ e \in DOMAIN root /\ DOMAIN root = 1 .. Len(root)
      /\ e = Len(root)
      /\ c \in Nat /\ c >= 2 /\ sector \in Nat
      /\ c = root[e].cluster + sector
      /\ fat0 \in Table /\ fat1 \in Table
  BY <1>1 DEF IInv, Types, ProgramTypes, ImageTypes, Place, Adding
<1>3. /\ root[e].cluster \in Nat /\ root[e].size \in Nat
      /\ \A n \in DOMAIN root : root[n].cluster \in Nat /\ root[n].size \in Nat
  <2>1. \A n \in DOMAIN root : root[n] \in Entry
    BY <1>2, ElementOfSeq
  <2>2. \A n \in DOMAIN root : root[n].cluster \in Nat /\ root[n].size \in Nat
    BY <2>1 DEF Entry
  <2> QED  BY <1>2, <2>2
<1>4. FileSectors \in Nat /\ FileSectors = NumSectors(root[e].size)
  BY <1>3, NumSectorsNat DEF FileSectors, Adding
<1>5. c < ImageSectors /\ ImageSectors < 4080 /\ ImageSectors \in Nat
  BY <1>1, ClusterInTable, SizesAssumption DEF IInv, EndMarkers
<1>6. NextOf \in FatEntry /\ NextOf = IF c = LastCluster(e) THEN FileEnd ELSE c + 1
  <2>1. LastCluster(e) = root[e].cluster + FileSectors - 1
    BY <1>4 DEF LastCluster
  <2>2. c = LastCluster(e) <=> ~(sector < FileSectors - 1)
    BY <1>1, <1>2, <1>3, <1>4, <2>1, SMTT(30)
  <2>3. NextOf = IF c = LastCluster(e) THEN FileEnd ELSE c + 1
    BY <2>2 DEF NextOf
  <2>4. c + 1 \in FatEntry
    <3>1. c \in Nat /\ c < 4080
      BY <1>2, <1>5
    <3> HIDE DEF c
    <3> QED  BY <3>1 DEF FatEntry
  <2>5. FileEnd \in FatEntry
    BY DEF FileEnd, FatEntry
  <2> QED  BY <2>3, <2>4, <2>5
<1>7. ASSUME NEW fat \in Table
      PROVE  /\ SetFatEntry(fat, c, NextOf) \in Table
             /\ GetFatEntry(SetFatEntry(fat, c, NextOf), c) = NextOf
             /\ \A d \in 0 .. (c - 1) :
                   GetFatEntry(SetFatEntry(fat, c, NextOf), d) = GetFatEntry(fat, d)
  BY <1>2, <1>5, <1>6, FatSetBehind, SMTT(30)
<1>8. ProgramTypes'
  BY <1>1, <1>2 DEF IInv, Types, ProgramTypes, inputs
<1>9. ImageTypes'
  BY <1>1, <1>2, <1>7 DEF IInv, Types, ImageTypes
<1>10. Place'
  <2>1. FileSectors' = FileSectors /\ Adding' = Adding /\ Adding = root[e]
    BY <1>1 DEF FileSectors, Adding
  <2>2. nextCluster' = Adding.cluster + sector' /\ sector' <= FileSectors
    BY <1>1, <1>2, <1>3, <1>4, <2>1, SMTT(30)
  <2> QED  BY <1>1, <1>2, <2>1, <2>2 DEF Place
<1>11. Chains'
  <2> SUFFICES ASSUME NEW n \in DOMAIN root PROVE Chained(n)'
    BY <1>1 DEF Chains
  <2>1. Chained(n) /\ \A m \in DOMAIN root : Chained(m)
    BY <1>1 DEF IInv, Chains
  <2>2. root' = root /\ LastCluster(n)' = LastCluster(n)
    BY <1>1 DEF LastCluster
  <2>3. SectorsOf(n) \in Nat
    BY <1>2, <1>3, NumSectorsNat DEF SectorsOf
  <2>4. CASE n # e
    <3>1. SectorsOf(n)' = SectorsOf(n) /\ SectorsOf(n) = NumSectors(root[n].size)
      BY <1>1, <2>4 DEF SectorsOf
    <3>2. ClustersOf(n)' = ClustersOf(n)
      BY <2>2, <3>1 DEF ClustersOf
    <3>3. root[n].cluster + SectorsOf(n) <= root[e].cluster
      BY <1>2, <2>1, <2>4, <3>1 DEF Chained
    <3>4. ClustersOf(n) \subseteq 0 .. (c - 1)
      BY <1>2, <1>3, <2>3, <3>3, SMTT(30) DEF ClustersOf
    <3>5. Linked(fat0, n)' /\ Linked(fat1, n)'
      BY <1>1, <1>2, <1>7, <2>1, <2>2, <3>2, <3>4 DEF Linked, Chained
    <3>6. root[n].cluster + SectorsOf(n) <= nextCluster'
      BY <1>1, <1>2, <1>3, <2>3, <3>3, SMTT(30)
    <3> QED  BY <2>1, <2>2, <3>1, <3>5, <3>6 DEF Chained
  <2>5. CASE n = e
    <3>1. SectorsOf(n)' = sector + 1 /\ SectorsOf(n) = sector
      BY <1>1, <2>5 DEF SectorsOf
    <3>2. /\ ClustersOf(n)' = ClustersOf(n) \union {c}
          /\ ClustersOf(n) \subseteq 0 .. (c - 1)
      BY <1>2, <1>3, <2>2, <2>5, <3>1 DEF ClustersOf
    <3>3. Linked(fat0, n)' /\ Linked(fat1, n)'
      BY <1>1, <1>2, <1>6, <1>7, <2>1, <2>2, <2>5, <3>2 DEF Linked, Chained
    <3>4. root[n].cluster + SectorsOf(n)' <= nextCluster'
      BY <1>1, <1>2, <1>3, <2>5, <3>1
    <3> QED  BY <2>1, <2>2, <3>3, <3>4 DEF Chained
  <2> QED  BY <2>4, <2>5
<1> QED  BY <1>8, <1>9, <1>10, <1>11 DEF IInv, Types

LEMMA FileAddedIsSafe ==
    ASSUME IInv, FileAdded PROVE IInv'
<1>1. /\ UNCHANGED <<inputs, next, cmd, sourceFiles, image, fileBytes, sector>>
      /\ pc = "write" /\ pc' = "add" /\ sector = FileSectors
  BY DEF FileAdded
<1>2. ProgramTypes' /\ ImageTypes'
  BY <1>1 DEF IInv, Types, ProgramTypes, ImageTypes, inputs, image, fats
<1>3. Place'
  BY <1>1, Zenon DEF Place
<1>4. \A n \in DOMAIN root : SectorsOf(n)' = SectorsOf(n)
  BY <1>1 DEF SectorsOf, FileSectors, Adding, image
<1>5. Chains'
  BY <1>1, <1>4, ChainsStay DEF image, fats
<1> QED  BY <1>2, <1>3, <1>5 DEF IInv, Types

\* The files, but not what the builder has of them, change.
LEMMA EditIsSafe ==
    ASSUME IInv, tree' \in [Paths -> FileData],
           UNCHANGED <<args, pc, next, cmd, sourceFiles, image, fileBytes, sector>>
    PROVE  IInv'
<1>1. ProgramTypes' /\ ImageTypes'
  BY DEF IInv, Types, ProgramTypes, ImageTypes, image, fats
<1>2. Place'
  BY DEF IInv, Place, File, FileSectors, Adding, image
<1>3. \A n \in DOMAIN root : SectorsOf(n)' = SectorsOf(n)
  BY DEF SectorsOf, image
<1>4. Chains'
  BY <1>3, ChainsStay DEF image, fats
<1> QED  BY <1>1, <1>2, <1>4 DEF IInv, Types

\* The builder gives up, goes on, or is done, with the image it has.
LEMMA ImageLeftIsSafe ==
    ASSUME IInv, UNCHANGED <<inputs, cmd, sourceFiles, image, fileBytes, sector>>, next' \in Nat,
           pc # "error",
           \/ pc' = "error"
           \/ pc' \in {"done", "partial"} /\ pc = "add"
           \/ pc' = "collect" /\ pc = "arguments"
    PROVE  IInv'
<1>1. ProgramTypes' /\ ImageTypes'
  BY DEF IInv, Types, ProgramTypes, ImageTypes, inputs, image, fats
<1>2. Place'
  <2>1. pc' = "collect" => root' = <<>>
    BY DEF IInv, Place, image
  <2> QED  BY <2>1, Zenon DEF Place
<1>3. Chains'
  <2>1. CASE pc' = "error"
    BY <2>1 DEF Chains
  <2>2. CASE pc' # "error"
    BY <2>2, ImageStays
  <2> QED  BY <2>1, <2>2
<1> QED  BY <1>1, <1>2, <1>3 DEF IInv, Types

LEMMA BuilderIsSafe ==
    ASSUME IInv, Builder PROVE IInv'
<1> DEFINE Stops == /\ UNCHANGED <<inputs, next, cmd, sourceFiles, image, fileBytes, sector>>
                    /\ pc # "error"
                    /\ pc' = "error" \/ (pc' \in {"done", "partial"} /\ pc = "add")
<1>1. next \in Nat
  BY DEF IInv, Types, ProgramTypes
<1>2. Stops => IInv'
  BY <1>1, ImageLeftIsSafe
<1>3. CASE TryParse
  BY <1>3, TryParseIsSafe
<1>4. CASE Parsed
  <2>1. /\ UNCHANGED <<inputs, cmd, sourceFiles, image, fileBytes, sector>>
        /\ next' \in Nat /\ pc = "arguments" /\ pc' = "collect"
    BY <1>4 DEF Parsed
  <2> QED  BY <2>1, ImageLeftIsSafe
<1>5. CASE CollectFile
  BY <1>5, CollectFileIsSafe
<1>6. CASE CollectDirectory
  BY <1>6, CollectDirectoryIsSafe
<1>7. CASE CreateImage
  BY <1>7, CreateImageIsSafe
<1>8. CASE BootDoesNotFit
  BY <1>2, <1>8 DEF BootDoesNotFit
<1>9. CASE FileLength
  BY <1>9, FileLengthIsSafe
<1>10. CASE NoLength
  BY <1>2, <1>10 DEF NoLength
<1>11. CASE SetRootEntry
  BY <1>11, SetRootEntryIsSafe
<1>12. CASE NoRootEntry
  BY <1>2, <1>12 DEF NoRootEntry
<1>13. CASE WriteSector
  BY <1>13, WriteSectorIsSafe
<1>14. CASE SectorDoesNotFit
  BY <1>2, <1>14 DEF SectorDoesNotFit
<1>15. CASE FileAdded
  BY <1>15, FileAddedIsSafe
<1>16. CASE WriteImage
  BY <1>2, <1>16 DEF WriteImage
<1> QED
  BY <1>3, <1>4, <1>5, <1>6, <1>7, <1>8, <1>9, <1>10, <1>11, <1>12, <1>13, <1>14, <1>15, <1>16
     DEF Builder

LEMMA StepIsSafe == IInv /\ [Next]_vars => IInv'
<1> SUFFICES ASSUME IInv, [Next]_vars PROVE IInv'
  OBVIOUS
<1>1. tree \in [Paths -> FileData]
  BY DEF IInv, Types, ProgramTypes
<1>2. CASE Builder
  BY <1>2, BuilderIsSafe
<1>3. ASSUME NEW path \in Paths, NEW length \in Lengths, Rewrite(path, length) PROVE IInv'
  <2>1. tree' \in [Paths -> FileData]
    <3>1. length \in Nat
      BY InputsAssumption
    <3>2. tree' = [tree EXCEPT ![path].length = length, ![path].version = @ + 1]
      BY <1>3 DEF Rewrite
    <3> QED  BY <1>1, <3>1, <3>2 DEF FileData
  <2>2. UNCHANGED <<args, pc, next, cmd, sourceFiles, image, fileBytes, sector>>
    BY <1>3 DEF Rewrite
  <2> QED  BY <2>1, <2>2, EditIsSafe
<1>4. ASSUME NEW path \in Paths, Delete(path) PROVE IInv'
  <2>1. tree' \in [Paths -> FileData]
    BY <1>1, <1>4 DEF Delete, FileData
  <2>2. UNCHANGED <<args, pc, next, cmd, sourceFiles, image, fileBytes, sector>>
    BY <1>4 DEF Delete
  <2> QED  BY <2>1, <2>2, EditIsSafe
<1>5. CASE UNCHANGED vars
  BY <1>1, <1>5, EditIsSafe DEF vars, inputs
<1> QED
  BY <1>2, <1>3, <1>4, <1>5 DEF Next

-----------------------------------------------------------------------------
(***************************************************************************)
(* No cluster belongs to two files, and both FATs lead through each file's *)
(* own, at every step of the builder, for every image, every set of files  *)
(* and every change to them (AddFileToImage and SetFatEntry of             *)
(* Program.cs).                                                            *)
(***************************************************************************)
THEOREM ChainsStayInOrder == Spec => []ChainsInOrder
<1>1. IInv => ChainsInOrder
  <2> SUFFICES ASSUME IInv, pc # "error", NEW n \in DOMAIN root
               PROVE  /\ ClustersOf(n) \subseteq 2 .. (nextCluster - 1)
                      /\ Linked(fat0, n)
                      /\ Linked(fat1, n)
                      /\ \A m \in 1 .. (n - 1) :
                            \A c \in ClustersOf(m), d \in ClustersOf(n) : c < d
    BY DEF ChainsInOrder
  <2>1. /\ Chained(n) /\ nextCluster \in Nat /\ sector \in Nat
        /\ root \in Seq(Entry) /\ DOMAIN root = 1 .. Len(root)
        /\ nextEntry = Len(root)
        /\ \A m \in DOMAIN root : root[m] \in Entry
    BY ElementOfSeq DEF IInv, Chains, Types, ProgramTypes, ImageTypes
  <2>2. \A m \in DOMAIN root : /\ root[m].cluster \in Nat
                               /\ NumSectors(root[m].size) \in Nat
                               /\ SectorsOf(m) \in Nat
    BY <2>1, NumSectorsNat DEF Entry, SectorsOf
  <2>3. ClustersOf(n) \subseteq 2 .. (nextCluster - 1)
    BY <2>1, <2>2 DEF Chained, ClustersOf
  <2>4. ASSUME NEW m \in 1 .. (n - 1), NEW c \in ClustersOf(m), NEW d \in ClustersOf(n)
        PROVE  c < d
    <3>1. m \in DOMAIN root /\ m # nextEntry
      <4>1. n \in 1 .. Len(root) /\ Len(root) \in Nat
        BY <2>1
      <4>2. m \in 1 .. Len(root) /\ m # Len(root)
        BY <4>1
      <4> QED  BY <2>1, <4>2
    <3>2. SectorsOf(m) = NumSectors(root[m].size)
      BY <3>1 DEF SectorsOf
    <3>3. root[m].cluster + NumSectors(root[m].size) <= root[n].cluster
      BY <2>1 DEF Chained
    <3>4. c < root[m].cluster + NumSectors(root[m].size) /\ c \in Int
      BY <2>2, <3>1, <3>2 DEF ClustersOf
    <3>5. root[n].cluster <= d /\ d \in Int
      BY <2>2 DEF ClustersOf
    <3> QED  BY <2>2, <3>1, <3>3, <3>4, <3>5
  <2> QED  BY <2>1, <2>3, <2>4 DEF Chained
<1> QED
  BY <1>1, InitIsSafe, StepIsSafe, PTL DEF Spec

-----------------------------------------------------------------------------
(***************************************************************************)
(* How far the counters go: the clusters in use lie in the image, but for  *)
(* one more that an empty last sector may take.                            *)
(***************************************************************************)
Bounds ==
    /\ edits \in 0 .. Edits
    /\ pc \in {"arguments", "usage", "collect", "boot", "add", "read", "write", "error",
           "partial", "done"}
    /\ reserved \in 0 .. ImageSectors
    /\ nextCluster = 2 \/ nextCluster <= DataSectors + 3
    /\ pc \in {"arguments", "usage", "collect", "boot"} => nextCluster = 2
    /\ nextEntry <= Len(sourceFiles)

LEMMA SourceFilesNeverFewer ==
    ASSUME IInv, Builder
    PROVE  Len(sourceFiles) \in Nat /\ Len(sourceFiles') >= Len(sourceFiles)
<1>1. sourceFiles \in Seq(Source) /\ Len(sourceFiles) \in Nat
  BY LenProperties DEF IInv, Types, ProgramTypes
<1>2. IInv'
  BY BuilderIsSafe
<1>3. sourceFiles' \in Seq(Source) /\ Len(sourceFiles') \in Nat
  BY <1>2, LenProperties DEF IInv, Types, ProgramTypes
<1>4. CASE UNCHANGED sourceFiles
  BY <1>1, <1>4
<1>5. CASE CollectFile
  <2> DEFINE source == [path |-> cmd.files[next + 1], length |-> tree[cmd.files[next + 1]].length]
  <2>1. sourceFiles' = Append(sourceFiles, source) \/ sourceFiles' = sourceFiles
    BY <1>5 DEF CollectFile
  <2> HIDE DEF source
  <2>2. Len(Append(sourceFiles, source)) = Len(sourceFiles) + 1
    BY <1>1
  <2> QED  BY <1>1, <2>1, <2>2
<1>6. CASE CollectDirectory
  <2>1. PICK order : \/ sourceFiles' = sourceFiles
                     \/ sourceFiles' = sourceFiles \o
                          [i \in DOMAIN order |-> [path |-> order[i], length |-> Unknown]]
    BY <1>6 DEF CollectDirectory
  <2> DEFINE added == [i \in DOMAIN order |-> [path |-> order[i], length |-> Unknown]]
  <2> QED  BY <1>1, <1>3, <2>1
<1>7. CASE FileLength
  <2>1. sourceFiles' = [sourceFiles EXCEPT ![nextEntry + 1].length = Length]
    BY <1>7 DEF FileLength
  <2>2. DOMAIN sourceFiles' = DOMAIN sourceFiles
    BY <2>1
  <2> QED  BY <1>1, <1>3, <2>2
<1> QED
  BY <1>4, <1>5, <1>6, <1>7
     DEF Builder, TryParse, Parsed, CreateImage, BootDoesNotFit, NoLength, SetRootEntry,
         NoRootEntry, WriteSector, SectorDoesNotFit, FileAdded, WriteImage

\* The numbers the bounds speak of.
LEMMA SizesAreNumbers ==
    /\ SectorSize \in Nat \ {0} /\ ImageSectors \in Nat \ {0} /\ FatSectors \in Nat \ {0}
    /\ RootDirSectors \in Nat \ {0} /\ DirectoryEntrySize \in Nat \ {0} /\ IntMax \in Nat
    /\ Edits \in Nat
BY SizesAssumption, InputsAssumption

\* Where a sector fits, its cluster is a sector for data or the one behind them.
LEMMA SectorIsForData ==
    ASSUME Types, SectorFits
    PROVE  nextCluster <= DataSectors + 2
<1> DEFINE a == RootDirSectors + nextCluster - 2
           b == ImageSectors - reserved - 2 * FatSectors
<1>1. /\ SectorSize \in Nat \ {0} /\ ImageSectors \in Nat /\ FatSectors \in Nat \ {0}
      /\ RootDirSectors \in Nat \ {0} /\ reserved \in Nat /\ nextCluster \in Nat
      /\ fileBytes.length \in Nat /\ sector \in Nat
  BY SizesAreNumbers DEF Types, ProgramTypes, ImageTypes
<1>2. SectorFillSize \in Nat
  <2>1. sector * SectorSize \in Int
    BY <1>1
  <2>2. fileBytes.length - sector * SectorSize \in Int
    BY <1>1, <2>1
  <2>3. SectorFillSize \in Int
    BY <1>1, <2>2, MinOfInts DEF SectorFillSize
  <2> QED  BY <2>3 DEF SectorFits
<1>3. a * SectorSize + SectorFillSize <= b * SectorSize
  BY DEF SectorFits, Position, AreaSize
<1>4. a \in Int /\ b \in Int
  BY <1>1
<1> HIDE DEF a, b
<1>5. a <= b
  BY <1>1, <1>2, <1>3, <1>4, Cancel
<1> QED
  BY <1>1, <1>5 DEF a, b, DataSectors

LEMMA BuilderKeepsBounds ==
    ASSUME IInv, Bounds, Builder PROVE Bounds'
<1>1. /\ Len(sourceFiles) \in Nat /\ Len(sourceFiles') \in Nat
      /\ Len(sourceFiles') >= Len(sourceFiles)
      /\ nextEntry \in Nat /\ nextCluster \in Nat /\ reserved \in Nat
  <2>1. IInv'
    BY BuilderIsSafe
  <2> QED  BY <2>1, SourceFilesNeverFewer, LenProperties DEF IInv, Types, ProgramTypes, ImageTypes
<1>2. edits' = edits
  BY DEF Builder, TryParse, Parsed, CollectFile, CollectDirectory, CreateImage, BootDoesNotFit,
         FileLength, NoLength, SetRootEntry, NoRootEntry, WriteSector, SectorDoesNotFit,
         FileAdded, WriteImage, inputs
<1>3. CASE UNCHANGED image /\ pc' \in {"usage", "collect", "boot", "add", "read", "write", "error",
                                       "partial", "done"}
           /\ (pc' \in {"usage", "collect", "boot"} => pc \in {"arguments", "collect"})
  BY <1>1, <1>2, <1>3 DEF Bounds, image, DataSectors
<1>4. CASE TryParse
  <2>1. UNCHANGED image /\ pc = "arguments" /\ pc' \in {"arguments", "usage"}
    BY <1>4 DEF TryParse
  <2> QED  BY <1>1, <1>2, <2>1 DEF Bounds, image, DataSectors
<1>5. CASE Parsed
  BY <1>3, <1>5 DEF Parsed
<1>6. CASE CollectFile
  <2>1. UNCHANGED image /\ pc = "collect" /\ pc' = "collect"
    BY <1>6 DEF CollectFile
  <2> QED  BY <1>3, <2>1
<1>7. CASE CollectDirectory
  <2>1. UNCHANGED image /\ pc = "collect" /\ pc' \in {"boot", "error"}
    BY <1>7 DEF CollectDirectory
  <2> QED  BY <1>3, <2>1
<1>8. CASE CreateImage
  <2>1. /\ UNCHANGED <<sourceFiles, nextCluster, nextEntry>>
        /\ pc = "boot" /\ pc' = "add" /\ reserved' = BootSectors
        /\ BootSectors + FatSectors < ImageSectors
    BY <1>8 DEF CreateImage
  <2>2. reserved' \in Nat
    <3>1. IInv'
      BY BuilderIsSafe
    <3> QED  BY <3>1 DEF IInv, Types, ImageTypes
  <2>3. reserved' \in 0 .. ImageSectors
    BY <2>1, <2>2, SizesAreNumbers
  <2> QED  BY <1>1, <1>2, <2>1, <2>3 DEF Bounds
<1>9. CASE BootDoesNotFit
  BY <1>3, <1>9 DEF BootDoesNotFit
<1>10. CASE FileLength
  BY <1>3, <1>10 DEF FileLength
<1>11. CASE NoLength
  BY <1>3, <1>11 DEF NoLength
<1>12. CASE SetRootEntry
  <2>1. /\ UNCHANGED <<sourceFiles, nextCluster, reserved>> /\ pc = "read" /\ pc' = "write"
        /\ nextEntry' = nextEntry + 1
    BY <1>12 DEF SetRootEntry
  <2>2. nextEntry + 1 <= Len(sourceFiles)
    BY <1>1, <2>1, LenProperties DEF IInv, Place, Types, ProgramTypes
  <2> QED  BY <1>1, <1>2, <2>1, <2>2 DEF Bounds, DataSectors
<1>13. CASE NoRootEntry
  BY <1>3, <1>13 DEF NoRootEntry
<1>14. CASE WriteSector
  <2>1. /\ UNCHANGED <<sourceFiles, nextEntry, reserved, pc>> /\ pc = "write"
        /\ nextCluster' = nextCluster + 1 /\ SectorFits
    BY <1>14 DEF WriteSector
  <2>2. nextCluster <= DataSectors + 2 /\ DataSectors \in Int
    <3>1. DataSectors \in Int
      BY <1>1, SizesAreNumbers DEF DataSectors
    <3> QED  BY <2>1, <3>1, SectorIsForData DEF IInv
  <2> QED  BY <1>1, <1>2, <2>1, <2>2 DEF Bounds, DataSectors
<1>15. CASE SectorDoesNotFit
  BY <1>3, <1>15 DEF SectorDoesNotFit
<1>16. CASE FileAdded
  BY <1>3, <1>16 DEF FileAdded
<1>17. CASE WriteImage
  BY <1>3, <1>17 DEF WriteImage
<1> QED
  BY <1>4, <1>5, <1>6, <1>7, <1>8, <1>9, <1>10, <1>11, <1>12, <1>13, <1>14, <1>15, <1>16, <1>17
     DEF Builder

\* A change by another program, as the builder's variables see it.
LEMMA EditOrBuilder ==
    ASSUME [Next]_vars
    PROVE  \/ Builder
           \/ \E path \in Paths, length \in Lengths : Rewrite(path, length)
           \/ \E path \in Paths : Delete(path)
           \/ UNCHANGED vars
BY DEF Next

LEMMA StepKeepsBounds ==
    ASSUME IInv, Bounds, [Next]_vars PROVE Bounds'
<1>1. edits \in Nat /\ Edits \in Nat
  BY SizesAreNumbers DEF Bounds
<1>2. CASE Builder
  BY <1>2, BuilderKeepsBounds
<1>3. ASSUME NEW path \in Paths, NEW length \in Lengths, Rewrite(path, length) PROVE Bounds'
  BY <1>1, <1>3 DEF Rewrite, Bounds, image, DataSectors
<1>4. ASSUME NEW path \in Paths, Delete(path) PROVE Bounds'
  BY <1>1, <1>4 DEF Delete, Bounds, image, DataSectors
<1>5. CASE UNCHANGED vars
  BY <1>5 DEF vars, inputs, image, Bounds, DataSectors
<1> QED  BY <1>2, <1>3, <1>4, <1>5, EditOrBuilder

LEMMA MaxOfInts ==
    ASSUME NEW a \in Int, NEW b \in Int
    PROVE  Max({a, b}) = IF a >= b THEN a ELSE b
<1>1. \E x \in {a, b} : \A y \in {a, b} : x >= y
  <2>1. CASE a <= b
    BY <2>1
  <2>2. CASE ~(a <= b)
    BY <2>2
  <2> QED  BY <2>1, <2>2
<1>2. Max({a, b}) = CHOOSE x \in {a, b} : \A y \in {a, b} : x >= y
  BY DEF Max
<1>3. Max({a, b}) \in {a, b} /\ Max({a, b}) >= a /\ Max({a, b}) >= b
  BY <1>1, <1>2
<1> QED  BY <1>3

LEMMA BoundsAlways == Spec => []Bounds
<1>1. Init => Bounds
  <2> SUFFICES ASSUME Init PROVE Bounds
    OBVIOUS
  <2>1. edits = 0 /\ pc = "arguments" /\ reserved = 1 /\ nextCluster = 2 /\ nextEntry = 0
        /\ sourceFiles = <<>>
    BY Zenon DEF Init
  <2> QED  BY <2>1, SizesAreNumbers DEF Bounds
<1>2. IInv /\ Bounds /\ [Next]_vars => Bounds'
  BY StepKeepsBounds
<1> QED  BY <1>1, <1>2, InitIsSafe, StepIsSafe, PTL DEF Spec

(***************************************************************************)
(* The types of the builder's variables, with the numbers of clusters and  *)
(* entries it may reach (Program.cs), for every size of the image.         *)
(***************************************************************************)
THEOREM BuilderTypeOK == Spec => []TypeOK
<1>1. ASSUME IInv, Bounds PROVE TypeOK
  <2>1. nextCluster \in 2 .. Max({2, DataSectors + 3})
    <3>1. DataSectors + 3 \in Int /\ nextCluster \in Nat /\ nextCluster >= 2
      BY <1>1, SizesAreNumbers DEF IInv, Types, ImageTypes, DataSectors
    <3> DEFINE d == DataSectors + 3
    <3>2. nextCluster = 2 \/ nextCluster <= d
      BY <1>1 DEF Bounds
    <3> HIDE DEF d
    <3> QED  BY <3>1, <3>2, MaxOfInts DEF d
  <2>2. ProgramTypes /\ fat0 \in Table /\ fat1 \in Table /\ nextEntry = Len(root)
    BY <1>1 DEF IInv, Types, ImageTypes
  <2>3. nextEntry \in 0 .. Len(sourceFiles)
    <3>1. Len(root) \in Nat
      BY <1>1, LenProperties DEF IInv, Types, ImageTypes
    <3> QED  BY <1>1, <2>2, <3>1, LenProperties DEF Bounds, ProgramTypes
  <2>4. edits \in 0 .. Edits /\ reserved \in 0 .. ImageSectors
        /\ pc \in {"arguments", "usage", "collect", "boot", "add", "read", "write", "error",
           "partial", "done"}
    BY <1>1 DEF Bounds
  <2>5. {fat0, fat1} \subseteq [0 .. FatSectors * SectorSize - 1 -> Byte]
    BY <2>2 DEF Table
  <2> HIDE <1>1
  <2> QED
    BY <2>1, <2>2, <2>3, <2>4, <2>5, Zenon DEF TypeOK, ProgramTypes, Command, Source
<1>2. IInv /\ [Next]_vars => IInv'
  BY StepIsSafe
<1> QED  BY <1>1, <1>2, InitIsSafe, BoundsAlways, PTL DEF Spec

-----------------------------------------------------------------------------
(***************************************************************************)
(* As long as nobody has touched a file, what the builder knows of it is   *)
(* what it is: the length it cached, and the bytes it read.                *)
(***************************************************************************)
LengthKnown(i) ==
    Untouched(sourceFiles[i].path) /\ sourceFiles[i].length # Unknown =>
        sourceFiles[i].length = tree[sourceFiles[i].path].length

BytesRead(n) ==
    Untouched(root[n].path) =>
        /\ root[n].size = tree[root[n].path].length
        /\ root[n].bytes = [version |-> 0, length |-> root[n].size]

Exact ==
    /\ \A i \in DOMAIN sourceFiles : LengthKnown(i)
    /\ \A n \in DOMAIN root : BytesRead(n)

\* The files and the entries are those of paths.
LEMMA ElementTypes ==
    ASSUME IInv
    PROVE  /\ \A i \in DOMAIN sourceFiles : sourceFiles[i] \in Source /\ sourceFiles[i].path \in Paths
           /\ \A n \in DOMAIN root : root[n] \in Entry /\ root[n].path \in Paths
<1>1. sourceFiles \in Seq(Source) /\ root \in Seq(Entry)
  BY DEF IInv, Types, ProgramTypes, ImageTypes
<1>2. \A i \in DOMAIN sourceFiles : sourceFiles[i] \in Source
  BY <1>1, ElementOfSeq, LenProperties
<1>3. \A n \in DOMAIN root : root[n] \in Entry
  BY <1>1, ElementOfSeq, LenProperties
<1> QED  BY <1>2, <1>3 DEF Source, Entry

LEMMA CollectFileKeepsExact ==
    ASSUME IInv, Exact, CollectFile PROVE Exact'
<1> DEFINE path   == cmd.files[next + 1]
           source == [path |-> path, length |-> tree[path].length]
<1>1. /\ sourceFiles' = Append(sourceFiles, source) \/ sourceFiles' = sourceFiles
      /\ tree' = tree /\ root' = root
      /\ next < Len(cmd.files)
  BY DEF CollectFile, inputs, image
<1>2. sourceFiles \in Seq(Source) /\ source \in Source
  <2>1. next \in Nat /\ cmd.files \in Seq(Paths) /\ tree \in [Paths -> FileData]
        /\ sourceFiles \in Seq(Source)
    BY DEF IInv, Types, ProgramTypes, Command
  <2>2. path \in Paths
    BY <1>1, <2>1
  <2> QED  BY <2>1, <2>2 DEF Source, FileData
<1>3. source.length = tree[source.path].length
  OBVIOUS
<1> HIDE DEF source
<1>4. ASSUME NEW i \in DOMAIN sourceFiles' PROVE LengthKnown(i)'
  <2>1. (i \in DOMAIN sourceFiles /\ sourceFiles'[i] = sourceFiles[i]) \/ sourceFiles'[i] = source
    BY <1>1, <1>2, AppendProperties, LenProperties
  <2>2. CASE i \in DOMAIN sourceFiles /\ sourceFiles'[i] = sourceFiles[i]
    BY <1>1, <2>2 DEF Exact, LengthKnown, Untouched
  <2>3. CASE sourceFiles'[i] = source
    BY <1>1, <1>3, <2>3 DEF LengthKnown, Untouched
  <2> QED  BY <2>1, <2>2, <2>3
<1>5. ASSUME NEW n \in DOMAIN root' PROVE BytesRead(n)'
  BY <1>1 DEF Exact, BytesRead, Untouched
<1> QED  BY <1>4, <1>5 DEF Exact

LEMMA CollectDirectoryKeepsExact ==
    ASSUME IInv, Exact, CollectDirectory PROVE Exact'
<1>1. tree' = tree /\ root' = root
  BY DEF CollectDirectory, inputs, image
<1>2. ASSUME NEW n \in DOMAIN root' PROVE BytesRead(n)'
  BY <1>1 DEF Exact, BytesRead, Untouched
<1>3. PICK order : \/ sourceFiles' = sourceFiles
                   \/ sourceFiles' = sourceFiles \o
                         [i \in DOMAIN order |-> [path |-> order[i], length |-> Unknown]]
  BY DEF CollectDirectory
<1>4. sourceFiles \in Seq(Source) /\ sourceFiles' \in Seq(Source)
  <2>1. IInv'
    BY CollectDirectoryIsSafe
  <2> QED  BY <2>1 DEF IInv, Types, ProgramTypes
<1>5. ASSUME NEW i \in DOMAIN sourceFiles' PROVE LengthKnown(i)'
  <2>1. (i \in DOMAIN sourceFiles /\ sourceFiles'[i] = sourceFiles[i])
        \/ sourceFiles'[i].length = Unknown
    <3>1. CASE sourceFiles' = sourceFiles
      BY <3>1
    <3>2. CASE sourceFiles' = sourceFiles \o
                  [j \in DOMAIN order |-> [path |-> order[j], length |-> Unknown]]
      <4> DEFINE added == [j \in DOMAIN order |-> [path |-> order[j], length |-> Unknown]]
      <4>1. \A j \in DOMAIN added : added[j].length = Unknown
        OBVIOUS
      <4> HIDE DEF added
      <4>2. sourceFiles' = sourceFiles \o added
        BY <3>2 DEF added
      <4> QED  BY <1>4, <4>1, <4>2
    <3> QED  BY <1>3, <3>1, <3>2
  <2> QED  BY <1>1, <2>1 DEF Exact, LengthKnown, Untouched
<1> QED  BY <1>2, <1>5 DEF Exact

LEMMA FileLengthKeepsExact ==
    ASSUME IInv, Exact, FileLength PROVE Exact'
<1> DEFINE k == nextEntry + 1
<1>1. /\ tree' = tree /\ root' = root
      /\ sourceFiles' = [sourceFiles EXCEPT ![k].length = Length]
      /\ nextEntry < Len(sourceFiles)
  BY DEF FileLength, inputs, image
<1>2. sourceFiles \in Seq(Source) /\ k \in DOMAIN sourceFiles /\ nextEntry \in Nat
  BY <1>1, LenProperties DEF IInv, Types, ProgramTypes, ImageTypes
<1>3. ASSUME NEW n \in DOMAIN root' PROVE BytesRead(n)'
  BY <1>1 DEF Exact, BytesRead, Untouched
<1>4. ASSUME NEW i \in DOMAIN sourceFiles' PROVE LengthKnown(i)'
  <2>1. i \in DOMAIN sourceFiles
    BY <1>1
  <2>2. CASE i # k
    BY <1>1, <2>1, <2>2 DEF Exact, LengthKnown, Untouched
  <2>3. CASE i = k
    <3>1. File \in Source /\ File = sourceFiles[i]
      BY <1>2, <2>3, ElementOfSeq, LenProperties DEF File
    <3>2. sourceFiles'[i] = [File EXCEPT !.length = Length]
      BY <1>1, <1>2, <2>3, <3>1
    <3>3. sourceFiles'[i].path = File.path /\ sourceFiles'[i].length = Length
      BY <3>1, <3>2 DEF Source
    <3>4. LengthKnown(i)
      BY <2>1 DEF Exact
    <3> QED  BY <1>1, <3>1, <3>3, <3>4 DEF LengthKnown, Untouched, Length
  <2> QED  BY <2>2, <2>3
<1> QED  BY <1>3, <1>4 DEF Exact

LEMMA SetRootEntryKeepsExact ==
    ASSUME IInv, Exact, SetRootEntry PROVE Exact'
<1> DEFINE entry == [path |-> File.path, cluster |-> nextCluster, size |-> File.length,
                     bytes |-> fileBytes']
           last  == Len(root) + 1
<1>1. /\ tree' = tree /\ sourceFiles' = sourceFiles
      /\ pc = "read"
      /\ fileBytes' = [version |-> tree[File.path].version, length |-> tree[File.path].length]
      /\ root' = Append(root, entry)
  BY DEF SetRootEntry, inputs
<1>2. /\ nextEntry + 1 \in DOMAIN sourceFiles /\ File = sourceFiles[nextEntry + 1]
      /\ File \in Source /\ File.length \in Nat /\ tree \in [Paths -> FileData]
      /\ root \in Seq(Entry) /\ nextCluster \in Nat
  BY <1>1, ElementOfSeq, LenProperties DEF IInv, Types, ProgramTypes, ImageTypes, Place, File
<1>3. /\ entry.path = File.path /\ entry.size = File.length /\ entry.bytes = fileBytes'
      /\ entry \in Entry
  <2>1. fileBytes' \in [version : Nat, length : Nat] /\ File.path \in Paths
    BY <1>1, <1>2 DEF Source, FileData
  <2> QED  BY <1>2, <2>1 DEF Entry
<1> HIDE DEF entry
<1>4. ASSUME NEW i \in DOMAIN sourceFiles' PROVE LengthKnown(i)'
  BY <1>1 DEF Exact, LengthKnown, Untouched
<1>5. ASSUME NEW n \in DOMAIN root' PROVE BytesRead(n)'
  <2>1. (n \in DOMAIN root /\ root'[n] = root[n]) \/ root'[n] = entry
    BY <1>1, <1>2, <1>3, AppendProperties, LenProperties
  <2>2. CASE n \in DOMAIN root /\ root'[n] = root[n]
    BY <1>1, <2>2 DEF Exact, BytesRead, Untouched
  <2>3. CASE root'[n] = entry
    <3>1. Untouched(File.path) => File.length = tree[File.path].length
      <4>1. LengthKnown(nextEntry + 1)
        BY <1>2 DEF Exact
      <4>2. File.length # Unknown
        BY <1>2 DEF Unknown
      <4> QED  BY <1>2, <4>1, <4>2 DEF LengthKnown
    <3> QED  BY <1>1, <1>3, <2>3, <3>1 DEF BytesRead, Untouched
  <2> QED  BY <2>1, <2>2, <2>3
<1> QED  BY <1>4, <1>5 DEF Exact

LEMMA EditKeepsExact ==
    ASSUME IInv, Exact, NEW path \in Paths, UNCHANGED <<sourceFiles, root>>,
           \/ \E length \in Lengths :
                 tree' = [tree EXCEPT ![path].length = length, ![path].version = @ + 1]
           \/ tree' = [tree EXCEPT ![path].kind = "none"]
    PROVE  Exact'
<1>1. tree \in [Paths -> FileData]
  BY DEF IInv, Types, ProgramTypes
<1>2. ASSUME NEW p \in Paths, Untouched(p)' PROVE tree'[p] = tree[p]
  <2>1. CASE p # path
    BY <1>1, <2>1
  <2>2. CASE p = path
    <3>1. tree[p].version \in Nat
      BY <1>1 DEF FileData
    <3>2. tree'[p].version = tree[p].version + 1 \/ tree'[p].kind = "none"
      BY <1>1, <2>2 DEF FileData
    <3> QED  BY <1>2, <3>1, <3>2 DEF Untouched
  <2> QED  BY <2>1, <2>2
<1>3. ASSUME NEW i \in DOMAIN sourceFiles' PROVE LengthKnown(i)'
  <2>1. sourceFiles[i].path \in Paths
    BY ElementTypes
  <2> QED  BY <1>2, <2>1 DEF Exact, LengthKnown, Untouched
<1>4. ASSUME NEW n \in DOMAIN root' PROVE BytesRead(n)'
  <2>1. root[n].path \in Paths
    BY ElementTypes
  <2> QED  BY <1>2, <2>1 DEF Exact, BytesRead, Untouched
<1> QED  BY <1>3, <1>4 DEF Exact

LEMMA StepKeepsExact ==
    ASSUME IInv, Exact, [Next]_vars PROVE Exact'
<1>1. ASSUME UNCHANGED <<tree, sourceFiles, root>> PROVE Exact'
  BY <1>1 DEF Exact, LengthKnown, BytesRead, Untouched
<1>2. CASE Builder
  <2>1. CASE CollectFile
    BY <2>1, CollectFileKeepsExact
  <2>2. CASE CollectDirectory
    BY <2>2, CollectDirectoryKeepsExact
  <2>3. CASE FileLength
    BY <2>3, FileLengthKeepsExact
  <2>4. CASE SetRootEntry
    BY <2>4, SetRootEntryKeepsExact
  <2>5. CASE CreateImage \/ WriteSector
    BY <1>1, <2>5 DEF CreateImage, WriteSector, inputs
  <2>6. CASE TryParse \/ Parsed \/ BootDoesNotFit \/ NoLength \/ NoRootEntry \/ SectorDoesNotFit
             \/ FileAdded \/ WriteImage
    <3>1. UNCHANGED <<inputs, sourceFiles, image>>
      BY <2>6 DEF TryParse, Parsed, BootDoesNotFit, NoLength, NoRootEntry, SectorDoesNotFit,
                  FileAdded, WriteImage
    <3> QED  BY <1>1, <3>1 DEF inputs, image
  <2> QED  BY <1>2, <2>1, <2>2, <2>3, <2>4, <2>5, <2>6 DEF Builder
<1>3. ASSUME NEW path \in Paths, NEW length \in Lengths, Rewrite(path, length) PROVE Exact'
  BY <1>3, EditKeepsExact DEF Rewrite, image
<1>4. ASSUME NEW path \in Paths, Delete(path) PROVE Exact'
  BY <1>4, EditKeepsExact DEF Delete, image
<1>5. CASE UNCHANGED vars
  BY <1>1, <1>5 DEF vars, inputs, image
<1> QED  BY <1>2, <1>3, <1>4, <1>5, EditOrBuilder

LEMMA ExactAlways == Spec => []Exact
<1>1. Init => Exact
  <2>1. Init => sourceFiles = <<>> /\ root = <<>>
    BY Zenon DEF Init
  <2> QED  BY <2>1 DEF Exact
<1>2. IInv /\ Exact /\ [Next]_vars => Exact'
  BY StepKeepsExact
<1> QED  BY <1>1, <1>2, InitIsSafe, StepIsSafe, PTL DEF Spec

-----------------------------------------------------------------------------
(***************************************************************************)
(* What is asked for is carried, as often as it is asked for, from the     *)
(* arguments to the command line, from there to the source files, and from *)
(* these to the directory.                                                 *)
(***************************************************************************)
Named(path, n)  == {i \in 1 .. n : args[i] = [name |-> "file", value |-> path]}
Wanted(path, n) == {i \in 1 .. n : cmd.files[i] = path}
Collected(path) == {i \in DOMAIN sourceFiles : sourceFiles[i].path = path}

FilesNamed(n) ==
    \A path \in Paths :
        Cardinality(Wanted(path, Len(cmd.files))) = Cardinality(Named(path, n))

FilesCollected(n) ==
    \A path \in Paths : tree[path].kind = "file" =>
        Cardinality(Collected(path)) = Cardinality(Wanted(path, n))

AllCollected ==
    \A path \in Paths : tree[path].kind = "file" => Cardinality(Collected(path)) = Asked(path)

InOrderOfSources ==
    \A n \in DOMAIN root : n \in DOMAIN sourceFiles /\ root[n].path = sourceFiles[n].path

Counted ==
    /\ pc = "arguments" => next <= Len(args) /\ FilesNamed(next)
    /\ pc \in {"arguments", "usage"} => sourceFiles = <<>>
    /\ pc \notin {"arguments", "usage"} => FilesNamed(Len(args))
    /\ pc = "collect" => next <= Len(cmd.files) /\ FilesCollected(next)
    /\ pc \in {"boot", "add", "read", "write", "done"} => AllCollected
    /\ InOrderOfSources
    /\ pc = "done" => nextEntry = Len(sourceFiles)

\* The types the counting needs.
LEMMA CountTypes ==
    ASSUME IInv
    PROVE  /\ args \in Seq(Argument) /\ Len(args) \in Nat /\ DOMAIN args = 1 .. Len(args)
           /\ cmd.files \in Seq(Paths) /\ Len(cmd.files) \in Nat
           /\ DOMAIN cmd.files = 1 .. Len(cmd.files)
           /\ sourceFiles \in Seq(Source) /\ Len(sourceFiles) \in Nat
           /\ DOMAIN sourceFiles = 1 .. Len(sourceFiles)
           /\ root \in Seq(Entry) /\ Len(root) \in Nat /\ DOMAIN root = 1 .. Len(root)
           /\ next \in Nat /\ nextEntry = Len(root) /\ tree \in [Paths -> FileData]
           /\ cmd \in Command
<1>1. cmd \in Command /\ sourceFiles \in Seq(Source) /\ root \in Seq(Entry) /\ args \in Args
      /\ next \in Nat /\ nextEntry = Len(root) /\ tree \in [Paths -> FileData]
  BY DEF IInv, Types, ProgramTypes, ImageTypes
<1>2. cmd.files \in Seq(Paths) /\ args \in Seq(Argument)
  BY <1>1, InputsAssumption DEF Command
<1> QED  BY <1>1, <1>2, LenProperties

\* Counting one more position of a sequence.
LEMMA CountOneMore ==
    ASSUME NEW S, NEW T, NEW n \in Nat, S \subseteq 1 .. n,
           \/ T = S \union {n + 1}
           \/ T = S
    PROVE  /\ Cardinality(S) \in Nat
           /\ Cardinality(T) = Cardinality(S) + (IF T = S THEN 0 ELSE 1)
<1>1. IsFiniteSet(1 .. n)
  BY FS_Interval
<1>2. IsFiniteSet(S) /\ Cardinality(S) \in Nat
  BY <1>1, FS_Subset, FS_CardinalityType
<1>3. n + 1 \notin S
  OBVIOUS
<1>4. Cardinality(S \union {n + 1}) = Cardinality(S) + 1
  BY <1>2, <1>3, FS_AddElement
<1>5. CASE T = S
  BY <1>2, <1>5
<1>6. CASE T # S
  BY <1>2, <1>4, <1>6
<1> QED  BY <1>5, <1>6

LEMMA TryParseKeepsCount ==
    ASSUME IInv, Counted, TryParse PROVE Counted'
<1> DEFINE arg == args[next + 1]
<1>1. /\ UNCHANGED <<tree, args, sourceFiles, root, nextEntry>>
      /\ pc = "arguments" /\ next' = next + 1 /\ next < Len(args)
      /\ \/ /\ arg.name = "file" /\ cmd' = [cmd EXCEPT !.files = Append(@, arg.value)] /\ pc' = pc
         \/ /\ arg.name # "file" /\ pc' \in {"arguments", "usage"}
            /\ cmd'.files = cmd.files
  <2>1. cmd \in Command
    BY CountTypes
  <2>2. \A name \in {"boot", "in", "out"} : \A v : [cmd EXCEPT ![name] = v].files = cmd.files
    BY <2>1 DEF Command
  <2> QED  BY <2>2 DEF TryParse, Accepted, inputs, image
<1>2. arg \in Argument /\ (arg.name = "file" => arg.value \in Paths)
  <2>1. next + 1 \in DOMAIN args /\ args \in Args /\ next + 1 \in 1 .. Len(args)
    BY <1>1, CountTypes DEF IInv, Types, ProgramTypes
  <2>2. args[next + 1] \in Argument
    BY <2>1, CountTypes, ElementOfSeq
  <2> QED  BY <2>1, <2>2, InputsAssumption
<1>3. FilesNamed(next) /\ sourceFiles = <<>> /\ InOrderOfSources
  BY <1>1 DEF Counted
<1>4. ASSUME pc' = "arguments", NEW path \in Paths
      PROVE  Cardinality(Wanted(path, Len(cmd.files))') = Cardinality(Named(path, next + 1))
  <2> DEFINE W == Wanted(path, Len(cmd.files))
             N == Named(path, next)
  <2>1. W \subseteq 1 .. Len(cmd.files) /\ N \subseteq 1 .. next
    BY DEF Wanted, Named
  <2>2. Cardinality(W) = Cardinality(N)
    BY <1>3 DEF FilesNamed
  <2>3. CASE arg.name = "file"
    <3>1. cmd'.files = Append(cmd.files, arg.value)
      BY <1>1, <2>3, CountTypes DEF Command
    <3> DEFINE v == arg.value
    <3>2. v \in Paths
      BY <1>2, <2>3
    <3>3. arg = [name |-> "file", value |-> v]
      BY <1>2, <2>3 DEF Argument
    <3> HIDE DEF v
    <3>4. /\ Len(cmd'.files) = Len(cmd.files) + 1
          /\ cmd'.files[Len(cmd.files) + 1] = v
          /\ \A i \in 1 .. Len(cmd.files) : cmd'.files[i] = cmd.files[i]
      BY <3>1, <3>2, CountTypes, AppendProperties DEF v
    <3>5. Wanted(path, Len(cmd.files))' = IF v = path THEN W \union {Len(cmd.files) + 1} ELSE W
      <4> DEFINE L  == Len(cmd.files)
                 c  == cmd.files
                 c1 == cmd'.files
      <4>1. L \in Nat /\ Len(c1) = L + 1 /\ c1[L + 1] = v /\ \A i \in 1 .. L : c1[i] = c[i]
        BY <3>4, CountTypes
      <4>2. Wanted(path, L)' = {i \in 1 .. Len(c1) : c1[i] = path} /\ W = {i \in 1 .. L : c[i] = path}
        BY DEF Wanted
      <4> HIDE DEF L, c, c1, W
      <4>3. {i \in 1 .. L + 1 : c1[i] = path}
              = IF v = path THEN {i \in 1 .. L : c[i] = path} \union {L + 1}
                            ELSE {i \in 1 .. L : c[i] = path}
        BY <4>1
      <4> QED  BY <4>1, <4>2, <4>3 DEF L
    <3>6. Named(path, next + 1) = IF v = path THEN N \union {next + 1} ELSE N
      BY <3>3, CountTypes DEF Named
    <3>7. Len(cmd.files) + 1 \notin W /\ next + 1 \notin N
      BY <2>1, CountTypes
    <3> DEFINE W1 == Wanted(path, Len(cmd.files))'
               N1 == Named(path, next + 1)
    <3> HIDE DEF W, N, W1, N1
    <3>8. Cardinality(W1) = Cardinality(W) + (IF W1 = W THEN 0 ELSE 1)
      <4>1. W1 = W \union {Len(cmd.files) + 1} \/ W1 = W
        BY <3>5 DEF W1
      <4>2. Len(cmd.files) \in Nat
        BY CountTypes
      <4> QED  BY <2>1, <4>1, <4>2, CountOneMore
    <3>9. Cardinality(N1) = Cardinality(N) + (IF N1 = N THEN 0 ELSE 1)
      <4>1. N1 = N \union {next + 1} \/ N1 = N
        BY <3>6 DEF N1
      <4>2. next \in Nat
        BY CountTypes
      <4> QED  BY <2>1, <4>1, <4>2, CountOneMore
    <3>10. W1 = W <=> N1 = N
      BY <3>5, <3>6, <3>7 DEF W1, N1
    <3> QED  BY <2>2, <3>8, <3>9, <3>10 DEF W1, N1
  <2>4. CASE arg.name # "file"
    <3>1. Wanted(path, Len(cmd.files))' = W
      BY <1>1, <2>4 DEF Wanted
    <3>2. Named(path, next + 1) = N
      BY <2>4, CountTypes DEF Named
    <3> QED  BY <2>2, <3>1, <3>2
  <2> QED  BY <2>3, <2>4
<1>5. pc' = "arguments" => next' <= Len(args') /\ FilesNamed(next)'
  <2>1. next' <= Len(args')
    BY <1>1, CountTypes
  <2>2. pc' = "arguments" => FilesNamed(next)'
    BY <1>1, <1>4 DEF FilesNamed, Named
  <2> QED  BY <2>1, <2>2
<1>6. InOrderOfSources'
  BY <1>1, <1>3 DEF InOrderOfSources
<1>7. pc' \in {"arguments", "usage"}
  BY <1>1
<1> QED  BY <1>1, <1>3, <1>5, <1>6, <1>7 DEF Counted

\* What is asked for does not depend on the files.
LEMMA AskedInNumbers ==
    ASSUME IInv, NEW path \in Paths
    PROVE  /\ Cardinality(Named(path, Len(args))) \in Nat
           /\ cmd.in # "" /\ path \in Listing[cmd.in] =>
                  Asked(path) = Cardinality(Named(path, Len(args))) + 1
           /\ cmd.in = "" \/ path \notin Listing[cmd.in] =>
                  Asked(path) = Cardinality(Named(path, Len(args)))
<1>1. Named(path, Len(args)) \subseteq 1 .. Len(args)
  BY DEF Named
<1>2. IsFiniteSet(1 .. Len(args))
  BY CountTypes, FS_Interval
<1>3. Cardinality(Named(path, Len(args))) \in Nat
  BY <1>1, <1>2, FS_Subset, FS_CardinalityType
<1>4. Named(path, Len(args)) = {i \in DOMAIN args : args[i] = [name |-> "file", value |-> path]}
  BY CountTypes DEF Named
<1> DEFINE n    == Cardinality(Named(path, Len(args)))
           here == cmd.in # "" /\ path \in Listing[cmd.in]
<1>5. Asked(path) = n + (IF here THEN 1 ELSE 0)
  BY <1>4 DEF Asked
<1> HIDE DEF n, here
<1>6. n \in Nat
  BY <1>3 DEF n
<1>7. here => Asked(path) = n + 1
  BY <1>5
<1>8. ~here => Asked(path) = n
  BY <1>5, <1>6
<1> QED  BY <1>6, <1>7, <1>8 DEF n, here

LEMMA ParsedKeepsCount ==
    ASSUME IInv, Counted, Parsed PROVE Counted'
<1>1. /\ UNCHANGED <<tree, args, cmd, sourceFiles, root, nextEntry>>
      /\ pc = "arguments" /\ pc' = "collect" /\ next = Len(args) /\ next' = 0
  BY DEF Parsed, inputs, image
<1>2. FilesNamed(Len(args)) /\ sourceFiles = <<>> /\ InOrderOfSources
  BY <1>1 DEF Counted
<1>3. FilesNamed(Len(args))' /\ InOrderOfSources'
  BY <1>1, <1>2 DEF FilesNamed, Wanted, Named, InOrderOfSources
<1>4. \A path \in Paths : Collected(path)' = {} /\ Wanted(path, 0)' = {}
  BY <1>1, <1>2 DEF Collected, Wanted
<1>5. FilesCollected(next)'
  BY <1>1, <1>4 DEF FilesCollected
<1>6. next' <= Len(cmd.files)'
  BY <1>1, CountTypes
<1> QED  BY <1>1, <1>3, <1>5, <1>6 DEF Counted

LEMMA CollectFileKeepsCount ==
    ASSUME IInv, Counted, CollectFile PROVE Counted'
<1> DEFINE file   == cmd.files[next + 1]
           source == [path |-> file, length |-> tree[file].length]
<1>1. /\ UNCHANGED <<tree, args, pc, cmd, root, nextEntry>>
      /\ pc = "collect" /\ next' = next + 1 /\ next < Len(cmd.files)
      /\ sourceFiles' = IF tree[file].kind = "file" THEN Append(sourceFiles, source)
                                                    ELSE sourceFiles
  BY DEF CollectFile, inputs, image
<1>2. file \in Paths /\ source \in Source
  <2>1. file \in Paths
    BY <1>1, CountTypes
  <2> QED  BY <2>1, CountTypes DEF Source, FileData
<1>3. FilesNamed(Len(args)) /\ FilesCollected(next) /\ InOrderOfSources
  BY <1>1 DEF Counted
<1>4. source.path = file
  OBVIOUS
<1> HIDE DEF source
<1>5. tree[file].kind = "file" =>
          /\ Len(sourceFiles') = Len(sourceFiles) + 1
          /\ DOMAIN sourceFiles' = 1 .. Len(sourceFiles) + 1
          /\ sourceFiles'[Len(sourceFiles) + 1] = source
          /\ \A i \in 1 .. Len(sourceFiles) : sourceFiles'[i] = sourceFiles[i]
  BY <1>1, <1>2, CountTypes, AppendProperties, LenProperties
<1>6. InOrderOfSources'
  BY <1>1, <1>3, <1>5, CountTypes DEF InOrderOfSources
<1>7. FilesNamed(Len(args))'
  BY <1>1, <1>3 DEF FilesNamed, Wanted, Named
<1>8. ASSUME NEW path \in Paths, tree[path].kind = "file"
      PROVE  Cardinality(Collected(path)') = Cardinality(Wanted(path, next + 1))
  <2> DEFINE C  == Collected(path)
             C1 == Collected(path)'
             W  == Wanted(path, next)
             W1 == Wanted(path, next + 1)
  <2>1. C \subseteq 1 .. Len(sourceFiles) /\ W \subseteq 1 .. next
    BY CountTypes DEF Collected, Wanted
  <2>2. Cardinality(C) = Cardinality(W)
    BY <1>3, <1>8 DEF FilesCollected
  <2>3. W1 = IF file = path THEN W \union {next + 1} ELSE W
    BY CountTypes DEF Wanted
  <2>4. C1 = IF file = path THEN C \union {Len(sourceFiles) + 1} ELSE C
    <3>1. CASE tree[file].kind = "file"
      BY <1>4, <1>5, <3>1, CountTypes DEF Collected
    <3>2. CASE tree[file].kind # "file"
      <4>1. sourceFiles' = sourceFiles /\ file # path
        BY <1>1, <1>8, <3>2
      <4> QED  BY <4>1 DEF Collected
    <3> QED  BY <3>1, <3>2
  <2>5. Len(sourceFiles) + 1 \notin C /\ next + 1 \notin W
    BY <2>1, CountTypes
  <2> HIDE DEF C, C1, W, W1, file
  <2>6. Cardinality(C1) = Cardinality(C) + (IF C1 = C THEN 0 ELSE 1)
    <3>1. C1 = C \union {Len(sourceFiles) + 1} \/ C1 = C
      BY <2>4
    <3>2. Len(sourceFiles) \in Nat
      BY CountTypes
    <3> QED  BY <2>1, <3>1, <3>2, CountOneMore
  <2>7. Cardinality(W1) = Cardinality(W) + (IF W1 = W THEN 0 ELSE 1)
    <3>1. W1 = W \union {next + 1} \/ W1 = W
      BY <2>3
    <3>2. next \in Nat
      BY CountTypes
    <3> QED  BY <2>1, <3>1, <3>2, CountOneMore
  <2>8. C1 = C <=> W1 = W
    BY <2>3, <2>4, <2>5
  <2> QED  BY <2>2, <2>6, <2>7, <2>8 DEF C1, W1
<1>9. FilesCollected(next)'
  BY <1>1, <1>8 DEF FilesCollected, Wanted
<1>10. next' <= Len(cmd.files)'
  BY <1>1, CountTypes
<1> QED  BY <1>1, <1>6, <1>7, <1>9, <1>10 DEF Counted

\* The order of a directory's files names each of them once.
LEMMA OrdersNameEachOnce ==
    ASSUME NEW S, IsFiniteSet(S), NEW order \in SetToSeqs(S)
    PROVE  /\ Len(order) \in Nat /\ DOMAIN order = 1 .. Len(order)
           /\ \A i, j \in DOMAIN order : order[i] = order[j] => i = j
           /\ \A x \in S : \E i \in DOMAIN order : order[i] = x
           /\ \A i \in DOMAIN order : order[i] \in S
<1> DEFINE D == 1 .. Cardinality(S)
<1>1. Cardinality(S) \in Nat
  BY FS_CardinalityType
<1>2. order \in [D -> S] /\ \A i, j \in D : i # j => order[i] # order[j]
  BY DEF SetToSeqs
<1>3. order \in Injection(D, S)
  BY <1>2 DEF Injection, IsInjective
<1>4. Cardinality(D) = Cardinality(S)
  BY <1>1, FS_Interval
<1>5. order \in Surjection(D, S)
  BY <1>3, <1>4, FS_Injection
<1>6. \A x \in S : \E i \in D : order[i] = x
  BY <1>5 DEF Surjection
<1>7. Len(order) = Cardinality(S)
  BY <1>1, <1>2
<1> QED  BY <1>1, <1>2, <1>6, <1>7

LEMMA CollectDirectoryKeepsCount ==
    ASSUME IInv, Counted, CollectDirectory PROVE Counted'
<1> DEFINE found == {p \in Listing[cmd.in] : tree[p].kind # "none"}
<1>1. /\ UNCHANGED <<tree, args, cmd, next, root, nextEntry>>
      /\ pc = "collect" /\ next = Len(cmd.files) /\ pc' \in {"boot", "error"}
  BY DEF CollectDirectory, inputs, image
<1>2. FilesNamed(Len(args)) /\ FilesCollected(next) /\ InOrderOfSources
  BY <1>1 DEF Counted
<1>3. FilesNamed(Len(args))'
  BY <1>1, <1>2 DEF FilesNamed, Wanted, Named
<1>4. \/ UNCHANGED sourceFiles /\ (cmd.in = "" \/ pc' = "error")
      \/ /\ cmd.in # ""
         /\ \E order \in SetToSeqs(found) :
               sourceFiles' = sourceFiles \o
                  [i \in DOMAIN order |-> [path |-> order[i], length |-> Unknown]]
  BY DEF CollectDirectory
<1>5. \A path \in Paths : /\ Asked(path)' = Asked(path)
                          /\ Cardinality(Wanted(path, next)) = Cardinality(Named(path, Len(args)))
  BY <1>1, <1>2 DEF Asked, FilesNamed
<1>6. CASE UNCHANGED sourceFiles /\ (cmd.in = "" \/ pc' = "error")
  <2>1. InOrderOfSources'
    BY <1>1, <1>2, <1>6 DEF InOrderOfSources
  <2>2. ASSUME pc' = "boot", NEW path \in Paths, tree[path].kind = "file"
        PROVE  Cardinality(Collected(path)') = Asked(path)
    <3>1. Collected(path)' = Collected(path)
      BY <1>6 DEF Collected
    <3>2. Asked(path) = Cardinality(Named(path, Len(args)))
      BY <1>6, <2>2, AskedInNumbers
    <3> QED  BY <1>2, <1>5, <2>2, <3>1, <3>2 DEF FilesCollected
  <2>3. pc' = "boot" => AllCollected'
    BY <1>1, <1>5, <2>2 DEF AllCollected
  <2> QED  BY <1>1, <1>3, <2>1, <2>3 DEF Counted
<1>7. CASE /\ cmd.in # ""
           /\ \E order \in SetToSeqs(found) :
                 sourceFiles' = sourceFiles \o
                    [i \in DOMAIN order |-> [path |-> order[i], length |-> Unknown]]
  <2>1. PICK order \in SetToSeqs(found) :
           sourceFiles' = sourceFiles \o
              [i \in DOMAIN order |-> [path |-> order[i], length |-> Unknown]]
    BY <1>7
  <2>2. found \subseteq Listing[cmd.in] /\ Listing[cmd.in] \subseteq Paths /\ IsFiniteSet(found)
    <3>1. cmd.in \in Paths
      BY <1>7, CountTypes DEF Command
    <3>2. Listing[cmd.in] \subseteq Paths /\ IsFiniteSet(Listing[cmd.in])
      BY <3>1, InputsAssumption
    <3>3. found \subseteq Listing[cmd.in]
      OBVIOUS
    <3> QED  BY <3>2, <3>3, FS_Subset
  <2>3. \A path \in Paths : tree[path].kind = "file" => (path \in found <=> path \in Listing[cmd.in])
    OBVIOUS
  <2> HIDE DEF found
  <2>4. /\ Len(order) \in Nat /\ DOMAIN order = 1 .. Len(order)
        /\ \A i, j \in DOMAIN order : order[i] = order[j] => i = j
        /\ \A x \in found : \E i \in DOMAIN order : order[i] = x
        /\ \A i \in DOMAIN order : order[i] \in found
    BY <2>1, <2>2, OrdersNameEachOnce
  <2> DEFINE added == [i \in DOMAIN order |-> [path |-> order[i], length |-> Unknown]]
             L == Len(sourceFiles)
  <2>5. added \in Seq(Source) /\ Len(added) = Len(order)
        /\ \A i \in DOMAIN order : added[i].path = order[i]
    <3>1. \A i \in 1 .. Len(order) : [path |-> order[i], length |-> Unknown] \in Source
      BY <2>2, <2>4 DEF Source
    <3>2. [i \in 1 .. Len(order) |-> [path |-> order[i], length |-> Unknown]] \in Seq(Source)
      BY <2>4, <3>1, IsASeq
    <3>3. added \in Seq(Source)
      BY <2>4, <3>2
    <3>4. DOMAIN added = 1 .. Len(order)
      BY <2>4
    <3>5. Len(added) = Len(order)
      <4> HIDE DEF added
      <4> QED  BY <2>4, <3>3, <3>4, LenProperties
    <3> QED  BY <3>3, <3>5
  <2> HIDE DEF added
  <2>6. /\ sourceFiles' = sourceFiles \o added
        /\ Len(sourceFiles') = L + Len(order) /\ DOMAIN sourceFiles' = 1 .. L + Len(order)
        /\ \A i \in 1 .. L : sourceFiles'[i] = sourceFiles[i]
        /\ \A i \in 1 .. Len(order) : sourceFiles'[L + i] = added[i]
    <3>1. sourceFiles' = sourceFiles \o added
      BY <2>1 DEF added
    <3> QED  BY <2>4, <2>5, <3>1, CountTypes, ConcatProperties, LenProperties, SMTT(30)
  <2>7. InOrderOfSources'
    BY <1>1, <1>2, <2>4, <2>6, CountTypes DEF InOrderOfSources
  <2>8. ASSUME NEW path \in Paths, tree[path].kind = "file"
        PROVE  Cardinality(Collected(path)') = Asked(path)
    <3> DEFINE C  == Collected(path)
               C1 == Collected(path)'
    <3>1. C \subseteq 1 .. L /\ L \in Nat /\ IsFiniteSet(1 .. L)
      BY CountTypes, FS_Interval DEF Collected
    <3>2. IsFiniteSet(C) /\ Cardinality(C) \in Nat
      BY <3>1, FS_Subset, FS_CardinalityType
    <3>3. Cardinality(C) = Cardinality(Named(path, Len(args)))
      BY <1>2, <1>5, <2>8 DEF FilesCollected
    <3>4. CASE path \in found
      <4>1. PICK i \in 1 .. Len(order) : order[i] = path
        BY <2>4, <3>4
      <4>2. C1 = C \union {L + i}
        <5>1. ASSUME NEW j \in C1 PROVE j \in C \union {L + i}
          <6>1. j \in 1 .. L + Len(order) /\ sourceFiles'[j].path = path
            BY <2>6 DEF Collected
          <6>2. CASE j <= L
            BY <2>6, <6>1, <6>2, CountTypes DEF Collected
          <6>3. CASE ~(j <= L)
            <7>1. j - L \in 1 .. Len(order) /\ j = L + (j - L)
              BY <2>4, <3>1, <6>1, <6>3
            <7>2. sourceFiles'[j] = added[j - L] /\ added[j - L].path = order[j - L]
              BY <2>4, <2>5, <2>6, <7>1
            <7>3. order[j - L] = path
              BY <6>1, <7>2
            <7> QED  BY <2>4, <4>1, <7>1, <7>3
          <6> QED  BY <6>2, <6>3
        <5>2. L + i \in C1
          <6>1. sourceFiles'[L + i] = added[i] /\ added[i].path = path
            BY <2>4, <2>5, <2>6, <4>1
          <6>2. L + i \in DOMAIN sourceFiles'
            BY <2>4, <2>6, <3>1
          <6> QED  BY <6>1, <6>2 DEF Collected
        <5>3. C \subseteq C1
          BY <2>4, <2>6, <3>1, CountTypes DEF Collected
        <5> QED  BY <5>1, <5>2, <5>3
      <4>3. L + i \notin C
        BY <3>1
      <4>4. Cardinality(C1) = Cardinality(C) + 1
        BY <3>2, <4>2, <4>3, FS_AddElement
      <4>5. Asked(path) = Cardinality(Named(path, Len(args))) + 1
        BY <1>7, <2>3, <2>8, <3>4, AskedInNumbers
      <4> QED  BY <3>3, <4>4, <4>5
    <3>5. CASE path \notin found
      <4>1. C1 = C
        <5>1. ASSUME NEW j \in C1 PROVE j \in C
          <6>1. j \in 1 .. L + Len(order) /\ sourceFiles'[j].path = path
            BY <2>6 DEF Collected
          <6>2. CASE j <= L
            BY <2>6, <6>1, <6>2, CountTypes DEF Collected
          <6>3. CASE ~(j <= L)
            <7>1. j - L \in 1 .. Len(order) /\ j = L + (j - L)
              BY <2>4, <3>1, <6>1, <6>3
            <7>2. sourceFiles'[j] = added[j - L] /\ added[j - L].path = order[j - L]
              BY <2>4, <2>5, <2>6, <7>1
            <7>3. order[j - L] = path
              BY <6>1, <7>2
            <7> QED  BY <2>4, <3>5, <7>1, <7>3
          <6> QED  BY <6>2, <6>3
        <5>2. C \subseteq C1
          BY <2>4, <2>6, <3>1, CountTypes DEF Collected
        <5> QED  BY <5>1, <5>2
      <4>2. Asked(path) = Cardinality(Named(path, Len(args)))
        BY <1>7, <2>3, <2>8, <3>5, AskedInNumbers
      <4> QED  BY <3>3, <4>1, <4>2
    <3> QED  BY <3>4, <3>5
  <2>9. AllCollected'
    BY <1>1, <1>5, <2>8 DEF AllCollected
  <2> QED  BY <1>1, <1>3, <2>7, <2>9 DEF Counted
<1> QED  BY <1>4, <1>6, <1>7

\* Nothing that is counted changes, and no file comes into being.
LEMMA CountStays ==
    ASSUME IInv, Counted, UNCHANGED <<args, cmd, next>>,
           DOMAIN sourceFiles' = DOMAIN sourceFiles,
           \A i \in DOMAIN sourceFiles : sourceFiles'[i].path = sourceFiles[i].path,
           \A path \in Paths : tree'[path].kind = "file" => tree[path].kind = "file",
           InOrderOfSources',
           \/ pc' = pc /\ pc \notin {"arguments", "usage", "done"}
           \/ pc' = "error" /\ pc \notin {"arguments", "usage"}
           \/ pc \in {"boot", "add", "read", "write"} /\ pc' \in {"add", "read", "write"}
           \/ pc = "add" /\ pc' \in {"done", "partial"} /\ nextEntry' = Len(sourceFiles')
    PROVE  Counted'
<1>1. \A path \in Paths : Collected(path)' = Collected(path) /\ Asked(path)' = Asked(path)
  BY DEF Collected, Asked
<1>2. FilesNamed(Len(args)) => FilesNamed(Len(args))'
  BY DEF FilesNamed, Wanted, Named
<1>3. FilesCollected(next) => FilesCollected(next)'
  BY <1>1 DEF FilesCollected, Wanted
<1>4. AllCollected => AllCollected'
  BY <1>1 DEF AllCollected
<1> QED  BY <1>2, <1>3, <1>4 DEF Counted

LEMMA FileLengthKeepsCount ==
    ASSUME IInv, Counted, FileLength PROVE Counted'
<1> DEFINE k == nextEntry + 1
<1>1. /\ UNCHANGED <<tree, args, cmd, next, root, nextEntry>>
      /\ pc = "add" /\ pc' = "read"
      /\ sourceFiles' = [sourceFiles EXCEPT ![k].length = Length]
  BY DEF FileLength, inputs, image
<1>2. DOMAIN sourceFiles' = DOMAIN sourceFiles
  BY <1>1
<1>3. ASSUME NEW i \in DOMAIN sourceFiles PROVE sourceFiles'[i].path = sourceFiles[i].path
  <2>1. sourceFiles[i] \in Source
    BY ElementTypes
  <2>2. sourceFiles'[i] = sourceFiles[i]
        \/ sourceFiles'[i] = [sourceFiles[i] EXCEPT !.length = Length]
    BY <1>1
  <2> QED  BY <2>1, <2>2 DEF Source
<1>4. InOrderOfSources'
  BY <1>1, <1>2, <1>3 DEF Counted, InOrderOfSources
<1> QED  BY <1>1, <1>2, <1>3, <1>4, CountStays

LEMMA SetRootEntryKeepsCount ==
    ASSUME IInv, Counted, SetRootEntry PROVE Counted'
<1> DEFINE entry == [path |-> File.path, cluster |-> nextCluster, size |-> File.length,
                     bytes |-> fileBytes']
<1>1. /\ UNCHANGED <<tree, args, cmd, next, sourceFiles>>
      /\ pc = "read" /\ pc' = "write"
      /\ root' = Append(root, entry)
  BY DEF SetRootEntry, inputs
<1>2. root' \in Seq(Entry) /\ entry.path = File.path
  <2>1. IInv'
    BY SetRootEntryIsSafe
  <2> QED  BY <2>1 DEF IInv, Types, ImageTypes
<1> HIDE DEF entry
<1>3. nextEntry + 1 \in DOMAIN sourceFiles /\ File = sourceFiles[nextEntry + 1]
      /\ nextEntry = Len(root) /\ root \in Seq(Entry)
  BY <1>1, CountTypes DEF IInv, Place, File
<1>4. ASSUME NEW n \in DOMAIN root'
      PROVE  n \in DOMAIN sourceFiles' /\ root'[n].path = sourceFiles'[n].path
  <2>1. \/ n \in DOMAIN root /\ root'[n] = root[n]
        \/ n = Len(root) + 1 /\ root'[n] = entry
    BY <1>1, <1>2, <1>3
  <2>2. CASE n \in DOMAIN root /\ root'[n] = root[n]
    BY <1>1, <2>2 DEF Counted, InOrderOfSources
  <2>3. CASE n = Len(root) + 1 /\ root'[n] = entry
    BY <1>1, <1>2, <1>3, <2>3
  <2> QED  BY <2>1, <2>2, <2>3
<1>5. InOrderOfSources'
  BY <1>4 DEF InOrderOfSources
<1> QED  BY <1>1, <1>5, CountStays

LEMMA EditKeepsCount ==
    ASSUME IInv, Counted, NEW path \in Paths,
           UNCHANGED <<args, pc, next, cmd, sourceFiles, nextEntry, root>>,
           tree[path].kind = "file",
           \/ \E length \in Lengths :
                 tree' = [tree EXCEPT ![path].length = length, ![path].version = @ + 1]
           \/ tree' = [tree EXCEPT ![path].kind = "none"],
           Running
    PROVE  Counted'
<1>1. \A p \in Paths : tree'[p].kind = "file" => tree[p].kind = "file"
  <2> SUFFICES ASSUME NEW p \in Paths, p # path PROVE tree'[p] = tree[p]
    OBVIOUS
  <2> QED  BY CountTypes
<1>2. InOrderOfSources'
  BY DEF Counted, InOrderOfSources
<1> QED  BY <1>1, <1>2, CountStays DEF Running

LEMMA StepKeepsCount ==
    ASSUME IInv, Counted, [Next]_vars PROVE Counted'
<1>1. ASSUME UNCHANGED <<tree, args, cmd, next, sourceFiles, root>>,
             \/ pc' = "error" /\ pc \notin {"arguments", "usage"}
             \/ pc \in {"boot", "add", "read", "write"} /\ pc' \in {"add", "read", "write"}
             \/ pc = "add" /\ pc' \in {"done", "partial"} /\ nextEntry' = Len(sourceFiles')
      PROVE  Counted'
  <2>1. InOrderOfSources'
    BY <1>1 DEF Counted, InOrderOfSources
  <2> QED  BY <1>1, <2>1, CountStays
<1>2. CASE Builder
  <2>1. CASE TryParse
    BY <2>1, TryParseKeepsCount
  <2>2. CASE Parsed
    BY <2>2, ParsedKeepsCount
  <2>3. CASE CollectFile
    BY <2>3, CollectFileKeepsCount
  <2>4. CASE CollectDirectory
    BY <2>4, CollectDirectoryKeepsCount
  <2>5. CASE FileLength
    BY <2>5, FileLengthKeepsCount
  <2>6. CASE SetRootEntry
    BY <2>6, SetRootEntryKeepsCount
  <2>7. CASE CreateImage
    BY <1>1, <2>7 DEF CreateImage, inputs
  <2>8. CASE WriteSector
    BY <1>1, <2>8 DEF WriteSector, inputs
  <2>9. CASE BootDoesNotFit \/ NoLength \/ NoRootEntry \/ SectorDoesNotFit
    <3>1. UNCHANGED <<inputs, next, cmd, sourceFiles, image>> /\ pc' = "error"
          /\ pc \notin {"arguments", "usage"}
      BY <2>9 DEF BootDoesNotFit, NoLength, NoRootEntry, SectorDoesNotFit
    <3> QED  BY <1>1, <3>1 DEF inputs, image
  <2>10. CASE FileAdded
    BY <1>1, <2>10 DEF FileAdded, inputs, image
  <2>11. CASE WriteImage
    BY <1>1, <2>11 DEF WriteImage, inputs, image
  <2> QED
    BY <1>2, <2>1, <2>2, <2>3, <2>4, <2>5, <2>6, <2>7, <2>8, <2>9, <2>10, <2>11 DEF Builder
<1>3. ASSUME NEW path \in Paths, NEW length \in Lengths, Rewrite(path, length) PROVE Counted'
  BY <1>3, EditKeepsCount DEF Rewrite, image
<1>4. ASSUME NEW path \in Paths, Delete(path) PROVE Counted'
  BY <1>4, EditKeepsCount DEF Delete, image
<1>5. CASE UNCHANGED vars
  <2>1. UNCHANGED <<tree, args, pc, next, cmd, sourceFiles, root, nextEntry>>
    BY <1>5 DEF vars, inputs, image
  <2>2. (FilesNamed(next) => FilesNamed(next)') /\ (FilesNamed(Len(args)) => FilesNamed(Len(args))')
        /\ (FilesCollected(next) => FilesCollected(next)')
    BY <2>1 DEF FilesNamed, FilesCollected, Wanted, Named, Collected
  <2>3. (AllCollected => AllCollected') /\ (InOrderOfSources => InOrderOfSources')
    BY <2>1 DEF AllCollected, InOrderOfSources, Collected, Asked
  <2> QED  BY <2>1, <2>2, <2>3 DEF Counted
<1> QED  BY <1>2, <1>3, <1>4, <1>5, EditOrBuilder

(***************************************************************************)
(* All or nothing: an image that is written has every file that was asked  *)
(* for, as often as it was, whatever is deleted or changed meanwhile       *)
(* (TryParse, CollectSourceFiles, CreateImage of Program.cs).              *)
(***************************************************************************)
THEOREM NothingIsLeftOut == Spec => []NothingLeftOut
<1>1. Init => Counted
  <2> SUFFICES ASSUME Init PROVE Counted
    OBVIOUS
  <2>1. /\ pc = "arguments" /\ next = 0 /\ sourceFiles = <<>> /\ root = <<>> /\ args \in Args
        /\ cmd = [boot |-> "", in |-> "", out |-> "", files |-> <<>>]
    BY Zenon DEF Init
  <2>2. cmd.files = <<>>
    BY <2>1
  <2>3. Len(args) \in Nat
    BY <2>1, InputsAssumption, LenProperties
  <2>4. \A path \in Paths : Wanted(path, Len(cmd.files)) = {} /\ Named(path, next) = {}
    <3>1. Len(cmd.files) = 0
      BY <2>2, EmptySeq
    <3>2. 1 .. Len(cmd.files) = {} /\ 1 .. next = {}
      <4>1. next = 0
        BY <2>1
      <4> QED  BY <3>1, <4>1
    <3> QED  BY <3>2 DEF Wanted, Named
  <2>5. FilesNamed(next)
    BY <2>4 DEF FilesNamed
  <2>6. InOrderOfSources
    BY <2>1 DEF InOrderOfSources
  <2>7. next <= Len(args)
    <3>1. next = 0
      BY <2>1
    <3> QED  BY <2>3, <3>1
  <2>8. pc = "arguments"
    BY <2>1
  <2> QED  BY <2>1, <2>5, <2>6, <2>7, <2>8 DEF Counted
<1>2. IInv /\ Counted /\ [Next]_vars => Counted'
  BY StepKeepsCount
<1>3. IInv /\ Counted => NothingLeftOut
  <2> SUFFICES ASSUME IInv, Counted, pc = "done", NEW path \in Paths, tree[path].kind = "file"
               PROVE  Cardinality({n \in DOMAIN root : root[n].path = path}) = Asked(path)
    BY DEF NothingLeftOut
  <2>1. AllCollected /\ InOrderOfSources /\ nextEntry = Len(sourceFiles)
    BY DEF Counted
  <2>2. DOMAIN root = DOMAIN sourceFiles
    BY <2>1, CountTypes
  <2>3. {n \in DOMAIN root : root[n].path = path} = Collected(path)
    BY <2>1, <2>2 DEF Collected, InOrderOfSources
  <2> QED  BY <2>1, <2>3 DEF AllCollected
<1> QED  BY <1>1, <1>2, <1>3, InitIsSafe, StepIsSafe, PTL DEF Spec

-----------------------------------------------------------------------------
(***************************************************************************)
(* What lies in the image.  `Position' is where the next sector goes: the  *)
(* entries and the sectors of files lie before it and nothing behind it.   *)
(***************************************************************************)
At(f, o) == IF o \in DOMAIN f THEN f[o] ELSE Zero

Content(e, k) == IF k < e.bytes.length THEN FileByte(e.path, e.bytes, k) ELSE Zero

EntryStored(n) == \A o \in EntryBytes(n - 1) : o \in DOMAIN area /\ area[o] = EntryByte(n - 1)

FileStored(n) ==
    \A k \in 0 .. SectorsOf(n) * SectorSize - 1 :
        At(area, ClusterOffset(root[n].cluster) + k) = Content(root[n], k)

RestEmpty == \A o \in DOMAIN area : o >= Position => area[o] = Zero

Stored ==
    pc \in {"add", "read", "write", "done"} =>
        /\ DOMAIN area = 0 .. AreaSize(reserved) - 1
        /\ pc = "write" => Adding.bytes = fileBytes
        /\ nextEntry <= RootEntries =>
              /\ \A n \in DOMAIN root : EntryStored(n) /\ FileStored(n)
              /\ RestEmpty

\* Arithmetic of sectors.
LEMMA TimesNat == ASSUME NEW a \in Nat, NEW b \in Nat PROVE a * b \in Nat
OBVIOUS

LEMMA TimesInt == ASSUME NEW a \in Int, NEW b \in Int PROVE a * b \in Int
OBVIOUS

LEMMA TimesMonotone ==
    ASSUME NEW a \in Int, NEW b \in Int, NEW s \in Nat, a <= b PROVE a * s <= b * s
<1>1. b - a \in Nat /\ b = a + (b - a)
  OBVIOUS
<1>2. PICK d \in Nat : b = a + d
  BY <1>1
<1>3. b * s = a * s + d * s /\ d * s \in Nat
  BY <1>2
<1> QED  BY <1>3

LEMMA TimesSum ==
    ASSUME NEW a \in Int, NEW b \in Int, NEW s \in Int PROVE (a + b) * s = a * s + b * s
OBVIOUS

\* The entry of a file lies in the sectors of the root directory.
LEMMA EntryInDirectory ==
    ASSUME NEW n \in Nat, n + 1 <= RootEntries
    PROVE  EntryBytes(n) \subseteq 0 .. RootDirSectors * SectorSize - 1
<1> DEFINE size == RootDirSectors * SectorSize
           d    == DirectoryEntrySize
<1>1. size \in Nat /\ d \in Nat \ {0}
  BY SizesAreNumbers, TimesNat
<1>2. n + 1 <= size \div d
  BY DEF RootEntries
<1> HIDE DEF size, d
<1>3. (n + 1) * d <= size
  <2>1. size \div d \in Nat /\ (size \div d) * d <= size
    BY <1>1
  <2>2. (n + 1) * d <= (size \div d) * d
    BY <1>1, <1>2, <2>1, TimesMonotone
  <2>3. (n + 1) * d \in Int /\ (size \div d) * d \in Int
    BY <1>1, <2>1, TimesInt
  <2> QED  BY <1>1, <2>1, <2>2, <2>3
<1>4. n * d \in Nat /\ (n + 1) * d \in Nat
  BY <1>1, TimesNat
<1>5. n * d .. (n + 1) * d - 1 \subseteq 0 .. size - 1
  BY <1>1, <1>3, <1>4
<1> QED  BY <1>5 DEF EntryBytes, size, d

\* Entries do not overlap.
LEMMA EntriesDisjoint ==
    ASSUME NEW m \in Nat, NEW n \in Nat, m < n, NEW o \in EntryBytes(m)
    PROVE  o \notin EntryBytes(n)
<1> DEFINE d == DirectoryEntrySize
<1>1. d \in Nat \ {0}
  BY SizesAreNumbers
<1> HIDE DEF d
<1>2. (m + 1) * d <= n * d /\ (m + 1) * d \in Int /\ n * d \in Int /\ (n + 1) * d \in Int /\ m * d \in Int
  BY <1>1, TimesMonotone, TimesInt
<1>3. o \in m * d .. (m + 1) * d - 1
  BY DEF EntryBytes, d
<1>4. o \notin n * d .. (n + 1) * d - 1
  BY <1>2, <1>3
<1> QED  BY <1>4 DEF EntryBytes, d

\* A file's clusters lie behind the root directory.
LEMMA ClusterBehindDirectory ==
    ASSUME NEW c \in Nat, c >= 2
    PROVE  /\ ClusterOffset(c) \in Nat
           /\ ClusterOffset(c) >= RootDirSectors * SectorSize
           /\ RootDirSectors * SectorSize \in Nat
           /\ \A s \in Nat : ClusterOffset(c + s) = ClusterOffset(c) + s * SectorSize
<1> DEFINE S == SectorSize
           R == RootDirSectors
<1>1. S \in Nat \ {0} /\ R \in Nat \ {0}
  BY SizesAreNumbers
<1>2. \A x \in Nat : ClusterOffset(x) = (x + R - 2) * S
  BY DEF ClusterOffset
<1> HIDE DEF S, R
<1>3. (c + R - 2) * S \in Nat /\ R * S \in Nat
  BY <1>1, TimesNat
<1>4. R * S <= (c + R - 2) * S
  BY <1>1, TimesMonotone
<1>5. ASSUME NEW s \in Nat
      PROVE  (c + s + R - 2) * S = (c + R - 2) * S + s * S
  <2>1. c + s + R - 2 = (c + R - 2) + s
    BY <1>1
  <2> DEFINE a == c + R - 2
  <2>2. a \in Int
    BY <1>1
  <2> HIDE DEF a
  <2>3. (a + s) * S = a * S + s * S
    BY <1>1, <2>2, TimesSum
  <2> QED  BY <2>1, <2>3 DEF a
<1>6. \A s \in Nat : ClusterOffset(c + s) = ClusterOffset(c) + s * S
  BY <1>2, <1>5
<1> QED  BY <1>2, <1>3, <1>4, <1>6 DEF S, R

LEMMA PositionIsCluster ==
    ASSUME nextCluster \in Nat
    PROVE  Position = ClusterOffset(nextCluster)
BY SizesAreNumbers DEF Position, ClusterOffset

\* The image after a write.
LEMMA WrittenArea ==
    ASSUME NEW content, area' = Written(content)
    PROVE  /\ DOMAIN area' = DOMAIN area
           /\ \A o : At(area', o) = IF o \in DOMAIN content /\ o \in DOMAIN area
                                    THEN content[o] ELSE At(area, o)
BY DEF Written, At

\* The chain of each file, in numbers.
LEMMA ChainNumbers ==
    ASSUME IInv, pc # "error", NEW n \in DOMAIN root
    PROVE  /\ root[n].cluster \in Nat /\ root[n].cluster >= 2
           /\ NumSectors(root[n].size) \in Nat /\ SectorsOf(n) \in Nat
           /\ root[n].cluster + SectorsOf(n) <= nextCluster
           /\ nextCluster \in Nat
           /\ n # nextEntry => root[n].cluster + NumSectors(root[n].size) <= root[nextEntry].cluster
<1>1. root[n] \in Entry /\ nextCluster \in Nat /\ sector \in Nat
  BY ElementTypes DEF IInv, Types, ProgramTypes, ImageTypes
<1>2. NumSectors(root[n].size) \in Nat
  BY <1>1, NumSectorsNat DEF Entry
<1>3. Chained(n)
  BY DEF IInv, Chains
<1>4. n # nextEntry => root[n].cluster + NumSectors(root[n].size) <= root[nextEntry].cluster
  <2>1. n # nextEntry => nextEntry \in DOMAIN root /\ n \in 1 .. (nextEntry - 1)
    BY CountTypes
  <2>2. nextEntry \in DOMAIN root => Chained(nextEntry)
    BY DEF IInv, Chains
  <2> QED  BY <2>1, <2>2 DEF Chained
<1> QED  BY <1>1, <1>2, <1>3, <1>4 DEF Entry, Chained, SectorsOf

\* The sectors of a file lie behind the directory and before the next cluster that is used.
LEMMA FileBytesPlace ==
    ASSUME IInv, pc # "error", NEW n \in DOMAIN root, NEW m \in Nat, NEW c \in Nat,
           root[n].cluster + m <= c, NEW k \in 0 .. m * SectorSize - 1
    PROVE  /\ ClusterOffset(root[n].cluster) + k \in Nat
           /\ ClusterOffset(root[n].cluster) + k >= RootDirSectors * SectorSize
           /\ ClusterOffset(root[n].cluster) + k < ClusterOffset(c)
<1> DEFINE b == root[n].cluster
<1>1. b \in Nat /\ b >= 2
  BY ChainNumbers
<1>2. PICK d \in Nat : c = (b + m) + d
  <2>1. c - (b + m) \in Nat /\ c = (b + m) + (c - (b + m))
    BY <1>1
  <2> QED  BY <2>1
<1> HIDE DEF b
<1>3. ClusterOffset(b + m) = ClusterOffset(b) + m * SectorSize
  BY <1>1, ClusterBehindDirectory
<1>4. ClusterOffset((b + m) + d) = ClusterOffset(b + m) + d * SectorSize
  <2>1. b + m \in Nat /\ b + m >= 2
    BY <1>1
  <2> QED  BY <2>1, ClusterBehindDirectory
<1>5. m * SectorSize \in Nat /\ d * SectorSize \in Nat
  BY SizesAreNumbers, TimesNat
<1>6. ClusterOffset(b) \in Nat /\ ClusterOffset(b) >= RootDirSectors * SectorSize
      /\ RootDirSectors * SectorSize \in Nat
  BY <1>1, ClusterBehindDirectory
<1>7. ClusterOffset(c) = ClusterOffset(b) + m * SectorSize + d * SectorSize
  BY <1>2, <1>3, <1>4
<1> DEFINE x == m * SectorSize
           y == d * SectorSize
           z == RootDirSectors * SectorSize
           p == ClusterOffset(b)
<1>8. k \in 0 .. x - 1 /\ x \in Nat /\ y \in Nat /\ z \in Nat /\ p \in Nat /\ p >= z
  BY <1>5, <1>6
<1> HIDE DEF x, y, z, p
<1>9. p + k \in Nat /\ p + k >= z /\ p + k < p + x + y
  BY <1>8
<1> QED  BY <1>7, <1>9 DEF x, y, z, p, b

LEMMA CreateImageKeepsStored ==
    ASSUME IInv, Stored, CreateImage PROVE Stored'
<1>1. /\ pc = "boot" /\ pc' = "add" /\ reserved' = BootSectors
      /\ area' = [o \in 0 .. AreaSize(BootSectors) - 1 |-> Zero]
      /\ UNCHANGED <<root, nextCluster>>
  BY DEF CreateImage
<1>2. root' = <<>>
  BY <1>1 DEF IInv, Place
<1>3. DOMAIN area' = 0 .. AreaSize(reserved')- 1
  BY <1>1
<1>4. RestEmpty'
  BY <1>1 DEF RestEmpty
<1>5. DOMAIN root' = {}
  BY <1>2
<1> QED  BY <1>1, <1>3, <1>4, <1>5 DEF Stored, AreaSize

\* What is stored stays where the image does.
LEMMA StoredStays ==
    ASSUME Stored, UNCHANGED <<image, fileBytes>>,
           \A n \in DOMAIN root : SectorsOf(n)' = SectorsOf(n),
           \/ pc' \notin {"add", "read", "write", "done"}
           \/ pc \in {"add", "read", "write", "done"} /\ pc' \in {"add", "read", "done"}
           \/ pc = "write" /\ pc' = "write"
    PROVE  Stored'
<1>1. (\A n \in DOMAIN root : EntryStored(n) => EntryStored(n)')
  BY DEF EntryStored, image
<1>2. \A n \in DOMAIN root : FileStored(n) => FileStored(n)'
  BY DEF FileStored, image, Content
<1>3. RestEmpty => RestEmpty'
  BY DEF RestEmpty, Position, image
<1>4. Adding' = Adding /\ AreaSize(reserved)' = AreaSize(reserved)
  BY DEF Adding, AreaSize, image
<1> QED  BY <1>1, <1>2, <1>3, <1>4 DEF Stored, image

LEMMA SetRootEntryKeepsStored ==
    ASSUME IInv, Stored, SetRootEntry PROVE Stored'
<1> DEFINE entry   == [path |-> File.path, cluster |-> nextCluster, size |-> File.length,
                       bytes |-> fileBytes']
           last    == Len(root) + 1
           content == [o \in EntryBytes(nextEntry) |-> EntryByte(nextEntry)]
<1>1. /\ UNCHANGED <<inputs, next, cmd, sourceFiles, reserved, nextCluster, fats>>
      /\ pc = "read" /\ pc' = "write"
      /\ EntryFits
      /\ root' = Append(root, entry)
      /\ area' = Written(content)
      /\ nextEntry' = nextEntry + 1
      /\ sector' = 0
  BY DEF SetRootEntry
<1>2. /\ root' \in Seq(Entry) /\ root \in Seq(Entry) /\ nextEntry = Len(root) /\ Len(root) \in Nat
      /\ DOMAIN root = 1 .. Len(root)
  <2>1. IInv'
    BY SetRootEntryIsSafe
  <2> QED  BY <2>1, CountTypes DEF IInv, Types, ImageTypes
<1>3. entry.bytes = fileBytes'
  OBVIOUS
<1> HIDE DEF entry
<1>4. /\ DOMAIN root' = 1 .. last /\ root'[last] = entry
      /\ \A n \in 1 .. Len(root) : root'[n] = root[n]
  BY <1>1, <1>2
<1>5. Adding' = entry
  BY <1>1, <1>2, <1>4 DEF Adding
<1>6. /\ DOMAIN content = EntryBytes(nextEntry) /\ EntryBytes(nextEntry) \subseteq DOMAIN area
      /\ \A o \in EntryBytes(nextEntry) : content[o] = EntryByte(nextEntry)
  BY <1>1 DEF EntryFits
<1> HIDE DEF content
<1>7. /\ DOMAIN area' = DOMAIN area
      /\ \A o : At(area', o) = IF o \in EntryBytes(nextEntry) THEN EntryByte(nextEntry)
                               ELSE At(area, o)
  BY <1>1, <1>6, WrittenArea
<1>8. DOMAIN area' = 0 .. AreaSize(reserved)' - 1
  BY <1>1, <1>7 DEF Stored, AreaSize
<1>9. ASSUME nextEntry' <= RootEntries
      PROVE  (\A n \in DOMAIN root' : EntryStored(n)' /\ FileStored(n)') /\ RestEmpty'
  <2>1. RootEntries \in Int
    <3>1. RootDirSectors * SectorSize \in Nat /\ DirectoryEntrySize \in Nat \ {0}
      BY SizesAreNumbers, TimesNat
    <3> QED  BY <3>1 DEF RootEntries
  <2>2. nextEntry <= RootEntries
    BY <1>1, <1>2, <1>9, <2>1
  <2>3. (\A n \in DOMAIN root : EntryStored(n) /\ FileStored(n)) /\ RestEmpty
    BY <1>1, <2>2 DEF Stored
  <2>4. EntryBytes(nextEntry) \subseteq 0 .. RootDirSectors * SectorSize - 1
    BY <1>1, <1>2, <1>9, EntryInDirectory
  <2>5. RootDirSectors * SectorSize \in Nat
    BY SizesAreNumbers, TimesNat
  <2>6. \A o \in Nat : o >= RootDirSectors * SectorSize => At(area', o) = At(area, o)
    BY <1>7, <2>4, <2>5
  <2>7. ASSUME NEW n \in 1 .. Len(root) PROVE EntryStored(n)' /\ FileStored(n)'
    <3>1. n \in DOMAIN root /\ root'[n] = root[n]
      BY <1>2, <1>4
    <3>2. ASSUME NEW o \in EntryBytes(n - 1)
          PROVE  o \in DOMAIN area' /\ area'[o] = EntryByte(n - 1)
      <4>1. n - 1 \in Nat /\ nextEntry \in Nat /\ n - 1 < nextEntry
        BY <1>2
      <4>2. o \notin EntryBytes(nextEntry)
        BY <4>1, EntriesDisjoint
      <4>3. o \in DOMAIN area /\ area[o] = EntryByte(n - 1)
        BY <2>3, <3>1 DEF EntryStored
      <4> QED  BY <1>7, <4>2, <4>3 DEF At
    <3>3. EntryStored(n)'
      BY <3>2 DEF EntryStored
    <3>4. SectorsOf(n)' = SectorsOf(n)
      BY <1>1, <1>2, <3>1 DEF SectorsOf
    <3>5. ASSUME NEW k \in 0 .. SectorsOf(n) * SectorSize - 1
          PROVE  At(area', ClusterOffset(root'[n].cluster) + k) = Content(root[n], k)
      <4> DEFINE o == ClusterOffset(root[n].cluster) + k
      <4>1. o \in Nat /\ o >= RootDirSectors * SectorSize
        <5>1. SectorsOf(n) \in Nat /\ nextCluster \in Nat
              /\ root[n].cluster + SectorsOf(n) <= nextCluster
          BY <1>1, <3>1, ChainNumbers
        <5> QED  BY <1>1, <3>1, <5>1, FileBytesPlace
      <4>2. At(area, o) = Content(root[n], k)
        BY <2>3, <3>1 DEF FileStored
      <4> HIDE DEF o
      <4>3. At(area', o) = At(area, o)
        BY <2>6, <4>1
      <4> QED  BY <3>1, <4>2, <4>3 DEF o
    <3>6. FileStored(n)'
      BY <3>1, <3>4, <3>5 DEF FileStored, Content
    <3> QED  BY <3>3, <3>6
  <2>8. ASSUME NEW n \in DOMAIN root', n = last PROVE EntryStored(n)' /\ FileStored(n)'
    <3>1. n - 1 = nextEntry /\ n = nextEntry'
      BY <1>1, <1>2, <2>8
    <3>2. \A o \in EntryBytes(n - 1) : o \in DOMAIN area' /\ area'[o] = EntryByte(n - 1)
      BY <1>6, <1>7, <3>1 DEF At
    <3>3. EntryStored(n)'
      BY <3>2 DEF EntryStored
    <3>4. SectorsOf(n)' = 0
      BY <1>1, <3>1 DEF SectorsOf
    <3>5. 0 .. 0 * SectorSize - 1 = {}
      BY SizesAreNumbers
    <3>6. FileStored(n)'
      BY <3>4, <3>5 DEF FileStored
    <3> QED  BY <3>3, <3>6
  <2>9. RestEmpty'
    <3>1. nextCluster \in Nat /\ nextCluster >= 2
      BY DEF IInv, Types, ImageTypes
    <3>2. Position \in Nat /\ Position >= RootDirSectors * SectorSize
      BY <3>1, PositionIsCluster, ClusterBehindDirectory
    <3>3. Position' = Position
      BY <1>1 DEF Position
    <3>4. ASSUME NEW o \in DOMAIN area', o >= Position PROVE area'[o] = Zero
      <4>1. o \in DOMAIN area /\ o \in Nat
        <5>1. DOMAIN area = 0 .. AreaSize(reserved) - 1
          BY <1>1 DEF Stored
        <5> QED  BY <1>7, <5>1
      <4>2. o >= RootDirSectors * SectorSize
        BY <2>5, <3>2, <3>4, <4>1
      <4>3. area[o] = Zero
        BY <2>3, <3>4, <4>1 DEF RestEmpty
      <4> QED  BY <1>7, <2>6, <4>1, <4>2, <4>3 DEF At
    <3> QED  BY <3>3, <3>4 DEF RestEmpty
  <2>10. \A n \in DOMAIN root' : n \in 1 .. Len(root) \/ n = last
    BY <1>2, <1>4
  <2> QED  BY <2>7, <2>8, <2>9, <2>10
<1> QED  BY <1>1, <1>3, <1>5, <1>8, <1>9 DEF Stored

\* How many bytes a sector gets.
LEMMA FillSize ==
    ASSUME IInv, SectorFits
    PROVE  /\ SectorFillSize \in Nat /\ SectorFillSize <= SectorSize
           /\ sector * SectorSize \in Nat /\ fileBytes.length \in Nat
           /\ SectorFillSize <= fileBytes.length - sector * SectorSize
           /\ SectorFillSize \in {SectorSize, fileBytes.length - sector * SectorSize}
<1> DEFINE a == SectorSize
           b == fileBytes.length - sector * SectorSize
<1>1. fileBytes.length \in Nat /\ sector \in Nat /\ SectorSize \in Nat
  BY SizesAreNumbers DEF IInv, Types, ProgramTypes
<1>2. sector * SectorSize \in Nat
  BY <1>1, TimesNat
<1>3. a \in Int /\ b \in Int
  BY <1>1, <1>2
<1>4. SectorFillSize = Min({a, b}) /\ SectorFillSize >= 0
  BY DEF SectorFillSize, SectorFits
<1> HIDE DEF a, b
<1>5. \E x \in {a, b} : \A y \in {a, b} : x <= y
  <2>1. CASE a <= b
    BY <1>3, <2>1
  <2>2. CASE ~(a <= b)
    BY <1>3, <2>2
  <2> QED  BY <2>1, <2>2
<1>6. Min({a, b}) \in {a, b} /\ Min({a, b}) <= a /\ Min({a, b}) <= b
  <2>1. Min({a, b}) = CHOOSE x \in {a, b} : \A y \in {a, b} : x <= y
    BY DEF Min
  <2> QED  BY <1>5, <2>1
<1> QED  BY <1>1, <1>2, <1>3, <1>4, <1>6 DEF a, b

LEMMA WriteSectorKeepsStored ==
    ASSUME IInv, Stored, WriteSector PROVE Stored'
<1> DEFINE e    == nextEntry
           P    == Position
           fill == SectorFillSize
           base == ClusterOffset(Adding.cluster)
           done == sector * SectorSize
           len  == fileBytes.length
<1>1. /\ UNCHANGED <<pc, reserved, nextEntry, root, fileBytes>>
      /\ pc = "write"
      /\ SectorFits
      /\ area' = Written(SectorBytes)
      /\ nextCluster' = nextCluster + 1
      /\ sector' = sector + 1
  BY DEF WriteSector
<1>2. /\ e \in DOMAIN root /\ Adding = root[e] /\ root[e] \in Entry
      /\ nextCluster \in Nat /\ nextCluster >= 2 /\ sector \in Nat
      /\ nextCluster = Adding.cluster + sector
      /\ Adding.cluster \in Nat /\ Adding.cluster >= 2
  <2>1. e \in DOMAIN root /\ nextCluster = Adding.cluster + sector
    BY <1>1 DEF IInv, Place
  <2>2. Chained(e) /\ root[e] \in Entry
    BY <1>1, <2>1, ElementTypes DEF IInv, Chains
  <2> QED
    BY <2>1, <2>2 DEF IInv, Types, ProgramTypes, ImageTypes, Adding, Entry, Chained
<1>3. /\ fill \in Nat /\ fill <= SectorSize /\ done \in Nat /\ len \in Nat
      /\ fill <= len - done
      /\ fill \in {SectorSize, len - done}
  BY <1>1, FillSize
<1>4. /\ P = base + done /\ base \in Nat /\ P \in Nat /\ SectorSize \in Nat \ {0}
      /\ Position' = P + SectorSize
      /\ P >= RootDirSectors * SectorSize /\ RootDirSectors * SectorSize \in Nat
  <2>1. P = ClusterOffset(nextCluster)
    BY <1>2, PositionIsCluster
  <2>2. base \in Nat /\ ClusterOffset(Adding.cluster + sector) = base + done
        /\ P >= RootDirSectors * SectorSize /\ RootDirSectors * SectorSize \in Nat
    BY <1>2, <2>1, ClusterBehindDirectory
  <2>3. Position' = ClusterOffset(nextCluster + 1)
    BY <1>1, <1>2, SizesAreNumbers DEF Position, ClusterOffset
  <2>4. ClusterOffset(nextCluster + 1) = ClusterOffset(nextCluster) + 1 * SectorSize
    BY <1>2, ClusterBehindDirectory
  <2> HIDE DEF base, done, P
  <2> QED  BY <1>2, <1>3, <2>1, <2>2, <2>3, <2>4, SizesAreNumbers
<1>5. Adding.bytes = fileBytes /\ DOMAIN area = 0 .. AreaSize(reserved) - 1
  BY <1>1 DEF Stored
<1>6. /\ DOMAIN SectorBytes = P .. P + fill - 1
      /\ \A o \in P .. P + fill - 1 :
            SectorBytes[o] = FileByte(Adding.path, fileBytes, done + o - P)
  BY DEF SectorBytes
<1>7. \A o \in P .. P + fill - 1 : o \in DOMAIN area
  <2>1. P + fill <= AreaSize(reserved)
    BY <1>1 DEF SectorFits
  <2>2. AreaSize(reserved) \in Int
    <3>1. reserved \in Nat
      BY DEF IInv, Types, ImageTypes
    <3>2. ImageSectors - reserved - 2 * FatSectors \in Int
      BY <3>1, SizesAreNumbers
    <3> QED  BY <3>2, SizesAreNumbers, TimesInt DEF AreaSize
  <2> DEFINE size == AreaSize(reserved)
  <2>3. P + fill <= size /\ size \in Int /\ DOMAIN area = 0 .. size - 1
    BY <1>5, <2>1, <2>2
  <2> HIDE DEF P, fill, size
  <2> QED  BY <1>3, <1>4, <2>3
<1> HIDE DEF P, fill, base, done, len
<1>8. /\ DOMAIN area' = DOMAIN area
      /\ \A o : At(area', o) = IF o \in P .. P + fill - 1
                               THEN FileByte(Adding.path, fileBytes, done + o - P)
                               ELSE At(area, o)
  <2> DEFINE bytes == SectorBytes
  <2>1. area' = Written(bytes) /\ DOMAIN bytes = P .. P + fill - 1
        /\ \A o \in P .. P + fill - 1 : bytes[o] = FileByte(Adding.path, fileBytes, done + o - P)
    BY <1>1, <1>6
  <2> HIDE DEF bytes
  <2>2. /\ DOMAIN area' = DOMAIN area
        /\ \A o : At(area', o) = IF o \in DOMAIN bytes /\ o \in DOMAIN area
                                 THEN bytes[o] ELSE At(area, o)
    BY <2>1, WrittenArea
  <2> QED  BY <1>7, <2>1, <2>2
<1>9. \A o \in Int : o < P => At(area', o) = At(area, o)
  BY <1>4, <1>8
<1>10. DOMAIN area' = 0 .. AreaSize(reserved)' - 1
  BY <1>1, <1>5, <1>8 DEF AreaSize
<1>11. Adding' = Adding
  BY <1>1 DEF Adding
<1>12. ASSUME nextEntry <= RootEntries
       PROVE  (\A n \in DOMAIN root' : EntryStored(n)' /\ FileStored(n)') /\ RestEmpty'
  <2>1. (\A n \in DOMAIN root : EntryStored(n) /\ FileStored(n)) /\ RestEmpty
    BY <1>1, <1>12 DEF Stored
  <2>2. ASSUME NEW n \in DOMAIN root PROVE EntryStored(n)'
    <3>1. EntryBytes(n - 1) \subseteq 0 .. RootDirSectors * SectorSize - 1
      <4>1. n - 1 \in Nat /\ (n - 1) + 1 <= RootEntries
        <5>1. RootEntries \in Int
          <6>1. RootDirSectors * SectorSize \in Nat /\ DirectoryEntrySize \in Nat \ {0}
            BY SizesAreNumbers, TimesNat
          <6> QED  BY <6>1 DEF RootEntries
        <5>2. n \in Nat \ {0} /\ n <= e /\ e \in Nat
          BY CountTypes
        <5> QED  BY <1>12, <5>1, <5>2
      <4> QED  BY <4>1, EntryInDirectory
    <3>2. ASSUME NEW o \in EntryBytes(n - 1)
          PROVE  o \in DOMAIN area' /\ area'[o] = EntryByte(n - 1)
      <4>1. o \in Int /\ o < P
        BY <1>4, <3>1
      <4>2. o \in DOMAIN area /\ area[o] = EntryByte(n - 1)
        BY <2>1 DEF EntryStored
      <4> QED  BY <1>8, <1>9, <4>1, <4>2 DEF At
    <3> QED  BY <3>2 DEF EntryStored
  <2>3. ASSUME NEW n \in DOMAIN root, n # e PROVE FileStored(n)'
    <3>1. SectorsOf(n)' = SectorsOf(n) /\ SectorsOf(n) = NumSectors(root[n].size) /\ root' = root
      BY <1>1, <2>3 DEF SectorsOf
    <3>2. ASSUME NEW k \in 0 .. SectorsOf(n) * SectorSize - 1
          PROVE  At(area', ClusterOffset(root[n].cluster) + k) = Content(root[n], k)
      <4> DEFINE o == ClusterOffset(root[n].cluster) + k
      <4>1. o \in Nat /\ o < ClusterOffset(Adding.cluster)
        <5>1. root[n].cluster + SectorsOf(n) <= Adding.cluster /\ SectorsOf(n) \in Nat
          BY <1>1, <1>2, <2>3, <3>1, ChainNumbers
        <5> QED  BY <1>1, <1>2, <5>1, FileBytesPlace
      <4>2. At(area, o) = Content(root[n], k)
        BY <2>1 DEF FileStored
      <4>3. o < P /\ o \in Int
        <5> HIDE DEF o
        <5> QED  BY <1>3, <1>4, <4>1 DEF base
      <4> HIDE DEF o
      <4>4. At(area', o) = At(area, o)
        BY <1>9, <4>3
      <4> QED  BY <4>2, <4>4 DEF o
    <3> QED  BY <3>1, <3>2 DEF FileStored, Content
  <2>4. ASSUME NEW n \in DOMAIN root, n = e PROVE FileStored(n)'
    <3>1. SectorsOf(n)' = sector + 1 /\ SectorsOf(n) = sector /\ root' = root
      BY <1>1, <2>4 DEF SectorsOf
    <3>2. (sector + 1) * SectorSize = done + SectorSize
      BY <1>2, <1>4, TimesSum DEF done
    <3>3. ASSUME NEW k \in 0 .. done + SectorSize - 1
          PROVE  At(area', base + k) = Content(root[e], k)
      <4>1. k \in Nat /\ base + k \in Int
        BY <1>3, <1>4
      <4>2. CASE k < done
        <5>1. At(area, base + k) = Content(root[e], k)
          <6>1. k \in 0 .. SectorsOf(n) * SectorSize - 1
            BY <1>3, <3>1, <4>1, <4>2 DEF done
          <6> QED  BY <1>2, <2>1, <2>4, <6>1 DEF FileStored, base
        <5>2. base + k < P
          BY <1>3, <1>4, <4>1, <4>2
        <5> QED  BY <1>9, <4>1, <5>1, <5>2
      <4>3. CASE ~(k < done) /\ k < len
        <5>1. base + k \in P .. P + fill - 1 /\ done + (base + k) - P = k
          BY <1>3, <1>4, <4>1, <4>3
        <5>2. At(area', base + k) = FileByte(Adding.path, fileBytes, k)
          BY <1>8, <5>1
        <5>3. Content(root[e], k) = FileByte(Adding.path, fileBytes, k)
          BY <1>2, <1>5, <4>3 DEF Content, len
        <5> QED  BY <5>2, <5>3
      <4>4. CASE ~(k < done) /\ ~(k < len)
        <5>1. base + k \notin P .. P + fill - 1 /\ base + k >= P
          BY <1>3, <1>4, <4>1, <4>4
        <5>2. At(area', base + k) = At(area, base + k)
          BY <1>8, <5>1
        <5>3. At(area, base + k) = Zero
          BY <2>1, <5>1 DEF RestEmpty, At, P
        <5>4. Content(root[e], k) = Zero
          BY <1>2, <1>5, <4>4 DEF Content, len
        <5> QED  BY <5>2, <5>3, <5>4
      <4> QED  BY <4>2, <4>3, <4>4
    <3> DEFINE total == (sector + 1) * SectorSize
    <3>4. total = done + SectorSize
      BY <3>2
    <3> HIDE DEF total
    <3>5. ASSUME NEW k \in 0 .. total - 1
          PROVE  At(area', ClusterOffset(root[n].cluster) + k) = Content(root[n], k)
      <4>1. k \in 0 .. done + SectorSize - 1
        BY <1>3, <1>4, <3>4
      <4>2. At(area', base + k) = Content(root[e], k)
        BY <3>3, <4>1
      <4>3. root[n] = root[e]
        BY <2>4
      <4>4. ClusterOffset(root[n].cluster) = base
        BY <1>2, <4>3 DEF base
      <4> QED  BY <4>2, <4>3, <4>4
    <3> QED  BY <3>1, <3>5 DEF FileStored, Content, total
  <2>5. RestEmpty'
    <3>1. ASSUME NEW o \in DOMAIN area', o >= P + SectorSize PROVE area'[o] = Zero
      <4>1. o \in DOMAIN area /\ o \in Nat
        BY <1>5, <1>8
      <4>2. o \notin P .. P + fill - 1 /\ o >= P
        BY <1>3, <1>4, <3>1, <4>1
      <4>3. area[o] = Zero
        BY <2>1, <4>1, <4>2 DEF RestEmpty, P
      <4> QED  BY <1>8, <4>1, <4>2, <4>3 DEF At
    <3> QED  BY <1>4, <3>1 DEF RestEmpty
  <2> QED  BY <1>1, <2>2, <2>3, <2>4, <2>5
<1> QED  BY <1>1, <1>5, <1>10, <1>11, <1>12 DEF Stored

-----------------------------------------------------------------------------
LEMMA StepKeepsStored ==
    ASSUME IInv, Stored, [Next]_vars PROVE Stored'
<1>1. CASE Builder
  <2>1. CASE TryParse \/ Parsed \/ CollectFile \/ CollectDirectory
    <3>1. pc' \notin {"add", "read", "write", "done"}
      BY <2>1 DEF TryParse, Parsed, CollectFile, CollectDirectory
    <3> QED  BY <3>1 DEF Stored
  <2>2. CASE BootDoesNotFit \/ NoLength \/ NoRootEntry \/ SectorDoesNotFit
    <3>1. pc' = "error"
      BY <2>2 DEF BootDoesNotFit, NoLength, NoRootEntry, SectorDoesNotFit
    <3> QED  BY <3>1 DEF Stored
  <2>3. CASE CreateImage
    BY <2>3, CreateImageKeepsStored
  <2>4. CASE FileLength
    <3>1. UNCHANGED <<image, fileBytes>> /\ pc = "add" /\ pc' = "read"
      BY <2>4 DEF FileLength
    <3>2. \A n \in DOMAIN root : SectorsOf(n)' = SectorsOf(n)
      BY <3>1 DEF SectorsOf, image
    <3> QED  BY <3>1, <3>2, StoredStays
  <2>5. CASE SetRootEntry
    BY <2>5, SetRootEntryKeepsStored
  <2>6. CASE WriteSector
    BY <2>6, WriteSectorKeepsStored
  <2>7. CASE FileAdded
    <3>1. UNCHANGED <<image, fileBytes>> /\ pc = "write" /\ pc' = "add" /\ sector = FileSectors
      BY <2>7 DEF FileAdded
    <3>2. \A n \in DOMAIN root : SectorsOf(n)' = SectorsOf(n)
      BY <3>1 DEF SectorsOf, FileSectors, Adding, image
    <3> QED  BY <3>1, <3>2, StoredStays
  <2>8. CASE WriteImage
    <3>1. UNCHANGED <<image, fileBytes>> /\ pc = "add" /\ pc' \in {"error", "partial", "done"}
      BY <2>8 DEF WriteImage
    <3>2. \A n \in DOMAIN root : SectorsOf(n)' = SectorsOf(n)
      BY <3>1 DEF SectorsOf, image
    <3> QED  BY <3>1, <3>2, StoredStays
  <2> QED
    BY <1>1, <2>1, <2>2, <2>3, <2>4, <2>5, <2>6, <2>7, <2>8 DEF Builder
<1>2. ASSUME UNCHANGED <<pc, image, fileBytes, sector>> PROVE Stored'
  <2>1. \A n \in DOMAIN root : SectorsOf(n)' = SectorsOf(n)
    BY <1>2 DEF SectorsOf, image
  <2> QED  BY <1>2, <2>1, StoredStays
<1>3. ASSUME NEW path \in Paths, NEW length \in Lengths, Rewrite(path, length) PROVE Stored'
  BY <1>2, <1>3 DEF Rewrite
<1>4. ASSUME NEW path \in Paths, Delete(path) PROVE Stored'
  BY <1>2, <1>4 DEF Delete
<1>5. CASE UNCHANGED vars
  BY <1>2, <1>5 DEF vars
<1> QED  BY <1>1, <1>3, <1>4, <1>5, EditOrBuilder

LEMMA LessThanIsWellFounded == IsWellFoundedOn({ss \in Nat \X Nat : ss[1] < ss[2]}, Nat)
BY NatLessThanWellFounded DEF OpToRel

\* Induction over the naturals, as the least element of the counterexamples.
LEMMA LeastNumber ==
    ASSUME NEW T \in SUBSET Nat, T # {}
    PROVE  \E x \in T : \A y \in T : x <= y
<1> DEFINE R == {ss \in Nat \X Nat : ss[1] < ss[2]}
<1>1. PICK x \in T : \A y \in T : <<y, x>> \notin R
  BY LessThanIsWellFounded, WFMin
<1>2. \A y \in T : ~(y < x)
  BY <1>1
<1> QED  BY <1>2

\* Where the boot loader comes to when the entries of a FAT lead from cluster to cluster.
LEMMA FollowChain ==
    ASSUME NEW fat, NEW first \in Nat, NEW n \in Nat \ {0}, first + n <= EndMarkers,
           \A k \in 0 .. n - 1 :
               GetFatEntry(fat, first + k) = IF k = n - 1 THEN FileEnd ELSE first + k + 1
    PROVE  \A k \in 0 .. n : FollowFat(fat, first, n)[k] = IF k < n THEN first + k ELSE FileEnd
<1> DEFINE Body(f, k) == IF k = 0 THEN first
                         ELSE IF f[k - 1] < EndMarkers THEN GetFatEntry(fat, f[k - 1])
                         ELSE f[k - 1]
           Chain == [k \in 0 .. n |-> IF k < n THEN first + k ELSE FileEnd]
           f == FollowFat(fat, first, n)
<1>1. f = CHOOSE g : g = [k \in 0 .. n |-> Body(g, k)]
  BY DEF FollowFat
<1>2. Chain = [k \in 0 .. n |-> Body(Chain, k)]
  <2>1. ASSUME NEW k \in 0 .. n PROVE Chain[k] = Body(Chain, k)
    <3>1. CASE k = 0
      BY <3>1
    <3>2. CASE k # 0
      <4>1. k - 1 \in 0 .. n - 1 /\ k - 1 \in 0 .. n /\ k - 1 < n
        BY <3>2
      <4>2. Chain[k - 1] = first + (k - 1) /\ first + (k - 1) < EndMarkers
        BY <4>1 DEF EndMarkers
      <4>3. Body(Chain, k) = GetFatEntry(fat, first + (k - 1))
        BY <3>2, <4>2
      <4>4. GetFatEntry(fat, first + (k - 1)) = IF k - 1 = n - 1 THEN FileEnd ELSE first + (k - 1) + 1
        BY <4>1
      <4>5. Chain[k] = IF k - 1 = n - 1 THEN FileEnd ELSE first + (k - 1) + 1
        BY <4>1
      <4> QED  BY <4>3, <4>4, <4>5
    <3> QED  BY <3>1, <3>2
  <2> HIDE DEF Body
  <2> QED  BY <2>1
<1>3. f = [k \in 0 .. n |-> Body(f, k)]
  <2> HIDE DEF Body, Chain
  <2> QED  BY <1>1, <1>2
<1>4. \A k \in 0 .. n : f[k] = Body(f, k)
  <2> HIDE DEF Body, f
  <2> QED  BY <1>3
<1>5. \A k \in 0 .. n : Chain[k] = Body(Chain, k)
  <2> HIDE DEF Body
  <2> QED  BY <1>2
<1> HIDE DEF f
<1>6. \A k \in 0 .. n : f[k] = Chain[k]
  <2> DEFINE Wrong == {k \in 0 .. n : f[k] # Chain[k]}
  <2> SUFFICES ASSUME Wrong # {} PROVE FALSE
    OBVIOUS
  <2>1. PICK k \in Wrong : \A j \in Wrong : k <= j
    <3>1. Wrong \in SUBSET Nat
      OBVIOUS
    <3> HIDE DEF Wrong
    <3> QED  BY <3>1, LeastNumber
  <2>2. CASE k = 0
    BY <1>4, <1>5, <2>2
  <2>3. CASE k # 0
    <3>1. k - 1 \in 0 .. n /\ k - 1 \notin Wrong
      BY <2>1, <2>3
    <3>2. f[k - 1] = Chain[k - 1]
      BY <3>1
    <3> HIDE DEF Chain
    <3>3. Body(f, k) = Body(Chain, k)
      BY <3>2
    <3> QED  BY <1>4, <1>5, <3>3
  <2> QED  BY <2>2, <2>3
<1> QED  BY <1>6 DEF f

\* Sectors and bytes: a position's sector, and how many sectors a size takes.
LEMMA SectorOfPosition ==
    ASSUME NEW s \in Nat \ {0}, NEW k \in Nat
    PROVE  /\ k \div s \in Nat /\ k % s \in Nat
           /\ k = (k \div s) * s + (k % s)
<1>1. k \div s \in Nat /\ k % s \in Nat
  OBVIOUS
<1>2. k = s * (k \div s) + (k % s)
  OBVIOUS
<1> QED  BY <1>1, <1>2

LEMMA SectorsHoldSize ==
    ASSUME NEW s \in Nat \ {0}, NEW size \in Nat
    PROVE  /\ (size + s - 1) \div s \in Nat
           /\ size <= ((size + s - 1) \div s) * s
           /\ size > 0 => (size + s - 1) \div s > 0
<1> DEFINE x == size + s - 1
           q == x \div s
           r == x % s
<1>1. x \in Nat
  OBVIOUS
<1> HIDE DEF x
<1>2. q \in Nat /\ r \in Nat /\ r < s /\ x = q * s + r
  <2>1. r < s
    BY <1>1
  <2> QED  BY <1>1, <2>1, SectorOfPosition
<1> HIDE DEF q, r
<1>3. q * s \in Nat /\ (q = 0 => q * s = 0)
  BY <1>2, TimesNat
<1> DEFINE p == q * s
<1>4. x = p + r /\ p \in Nat /\ (q = 0 => p = 0)
  BY <1>2, <1>3
<1> HIDE DEF p
<1>5. size <= p /\ (size > 0 => q > 0)
  BY <1>2, <1>4 DEF x
<1> QED  BY <1>2, <1>5 DEF p, q, x

LEMMA SectorBefore ==
    ASSUME NEW s \in Nat \ {0}, NEW k \in Nat, NEW n \in Nat, k < n * s
    PROVE  k \div s < n
<1> SUFFICES ASSUME ~(k \div s < n) PROVE FALSE
  OBVIOUS
<1> DEFINE q == k \div s
           r == k % s
<1>1. q \in Nat /\ r \in Nat /\ k = q * s + r /\ n <= q
  BY SectorOfPosition
<1> HIDE DEF q, r
<1>2. n * s <= q * s /\ n * s \in Nat /\ q * s \in Nat
  BY <1>1, TimesMonotone, TimesNat
<1> QED  BY <1>1, <1>2

\* A file's chain, as the boot loader follows it in either FAT.
LEMMA FileChain ==
    ASSUME IInv, Bounds, pc = "done", NEW n \in DOMAIN root, Countable(root[n].size),
           NEW fat \in {fat0, fat1}, root[n].size > 0
    PROVE  \A k \in 0 .. Clusters(root[n].size) :
               FollowFat(fat, root[n].cluster, Clusters(root[n].size))[k]
                   = IF k < Clusters(root[n].size) THEN root[n].cluster + k ELSE FileEnd
<1> DEFINE b == root[n].cluster
           N == Clusters(root[n].size)
<1>1. /\ root[n] \in Entry /\ Chained(n)
      /\ SectorsOf(n) = N /\ NumSectors(root[n].size) = N
  <2>1. root[n] \in Entry
    BY ElementTypes DEF IInv, Types, ImageTypes
  <2>2. NumSectors(root[n].size) = N
    <3>1. root[n].size \in Nat
      BY <2>1 DEF Entry
    <3>2. ~(root[n].size + SectorSize - 1 > IntMax)
      BY <3>1, SizesAreNumbers DEF Countable
    <3> QED  BY <3>2 DEF NumSectors, Clusters
  <2> QED  BY <2>1, <2>2 DEF IInv, Chains, SectorsOf
<1>2. b \in Nat /\ b >= 2 /\ N \in Nat \ {0}
  <2>1. root[n].size \in Nat /\ root[n].size > 0
    BY <1>1 DEF Entry
  <2>2. N \in Nat /\ N > 0
    BY <2>1, SizesAreNumbers, SectorsHoldSize DEF Clusters
  <2> QED  BY <1>1, <2>2 DEF Entry, Chained
<1>3. Linked(fat, n) /\ b + N <= nextCluster /\ nextCluster \in Nat
  BY <1>1 DEF Chained, IInv, Types, ImageTypes
<1>4. LastCluster(n) = b + N - 1 /\ ClustersOf(n) = b .. b + N - 1
  BY <1>1 DEF LastCluster, ClustersOf
<1> HIDE DEF b, N
<1>5. b + N <= EndMarkers
  <2>1. nextCluster <= DataSectors + 3
    BY <1>2, <1>3 DEF Bounds
  <2>2. DataSectors + 3 <= ImageSectors
    <3>1. reserved \in Nat
      BY DEF IInv, Types, ImageTypes
    <3> QED  BY <3>1, SizesAreNumbers DEF DataSectors
  <2>3. ImageSectors < EndMarkers /\ DataSectors \in Int /\ EndMarkers \in Nat
    <3>1. reserved \in Nat
      BY DEF IInv, Types, ImageTypes
    <3>2. DataSectors \in Int
      BY <3>1, SizesAreNumbers DEF DataSectors
    <3>3. ImageSectors < EndMarkers
      BY SizesAssumption
    <3> QED  BY <3>2, <3>3 DEF EndMarkers
  <2> QED  BY <1>2, <1>3, <2>1, <2>2, <2>3, SizesAreNumbers
<1>6. \A k \in 0 .. N - 1 : GetFatEntry(fat, b + k) = IF k = N - 1 THEN FileEnd ELSE b + k + 1
  <2> TAKE k \in 0 .. N - 1
  <2>1. b + k \in ClustersOf(n) /\ (b + k = LastCluster(n) <=> k = N - 1)
    BY <1>2, <1>4
  <2> QED  BY <1>3, <2>1 DEF Linked
<1>7. \A k \in 0 .. N : FollowFat(fat, b, N)[k] = IF k < N THEN b + k ELSE FileEnd
  BY <1>2, <1>5, <1>6, FollowChain
<1> QED  BY <1>7 DEF b, N

(***************************************************************************)
(* An image that is written gives every file back through either FAT, up   *)
(* to its size and in order, with zeros where the file became shorter      *)
(* meanwhile (Program.cs, read as the boot loader reads it).               *)
(***************************************************************************)
THEOREM FilesAreReadBack == Spec => []FilesReadBack
<1>1. Init => Stored
  <2>1. Init => pc = "arguments"
    BY Zenon DEF Init
  <2> QED  BY <2>1 DEF Stored
<1>2. IInv /\ Stored /\ [Next]_vars => Stored'
  BY StepKeepsStored
<1>3. IInv /\ Bounds /\ Stored => FilesReadBack
  <2> SUFFICES ASSUME IInv, Bounds, Stored, pc = "done", nextEntry <= RootEntries,
                      NEW n \in DOMAIN root, Countable(root[n].size)
               PROVE  LET e == root[n] IN
                      /\ \A o \in EntryBytes(n - 1) : area[o] = EntryByte(n - 1)
                      /\ \A fat \in {fat0, fat1} :
                              e.size > 0 =>
                                  FollowFat(fat, e.cluster, Clusters(e.size))[Clusters(e.size)]
                                      = FileEnd
                      /\ \A k \in 0 .. e.size - 1 :
                              ByteOf(e, k) = IF k < e.bytes.length
                                             THEN FileByte(e.path, e.bytes, k) ELSE Zero
    BY DEF FilesReadBack
  <2> DEFINE e == root[n]
             N == Clusters(e.size)
  <2>1. EntryStored(n) /\ FileStored(n)
    BY DEF Stored
  <2>2. \A o \in EntryBytes(n - 1) : area[o] = EntryByte(n - 1)
    BY <2>1 DEF EntryStored
  <2>3. e \in Entry /\ e.size \in Nat /\ e.cluster \in Nat /\ e.cluster >= 2 /\ SectorsOf(n) = N
    <3>1. e \in Entry /\ Chained(n)
      BY ElementTypes DEF IInv, Types, ImageTypes, Chains
    <3>2. e.size \in Nat
      BY <3>1 DEF Entry
    <3>3. ~(e.size + SectorSize - 1 > IntMax)
      BY <3>2, SizesAreNumbers DEF Countable
    <3>4. NumSectors(e.size) = N
      BY <3>3 DEF NumSectors, Clusters
    <3> QED  BY <3>1, <3>2, <3>4 DEF SectorsOf, Entry, Chained
  <2>4. /\ N \in Nat /\ e.size <= N * SectorSize /\ N * SectorSize \in Nat
        /\ e.size > 0 => N > 0
    <3>1. N \in Nat /\ e.size <= N * SectorSize /\ (e.size > 0 => N > 0)
      BY <2>3, SizesAreNumbers, SectorsHoldSize DEF Clusters
    <3> QED  BY <3>1, SizesAreNumbers, TimesNat
  <2>5. ASSUME NEW fat \in {fat0, fat1}, e.size > 0
        PROVE  /\ FollowFat(fat, e.cluster, N)[N] = FileEnd
               /\ \A q \in 0 .. N - 1 : FollowFat(fat, e.cluster, N)[q] = e.cluster + q
    <3>1. \A k \in 0 .. N : FollowFat(fat, e.cluster, N)[k]
                                = IF k < N THEN e.cluster + k ELSE FileEnd
      BY <2>5, FileChain
    <3> HIDE DEF N, e
    <3> QED  BY <2>4, <3>1
  <2>6. ASSUME NEW k \in 0 .. e.size - 1
        PROVE  ByteOf(e, k) = IF k < e.bytes.length THEN FileByte(e.path, e.bytes, k) ELSE Zero
    <3> DEFINE q == k \div SectorSize
               r == k % SectorSize
    <3>1. e.size > 0 /\ k \in Nat /\ k < e.size
      BY <2>3
    <3>2. k < N * SectorSize
      BY <2>3, <2>4, <3>1
    <3>3. q \in Nat /\ r \in Nat /\ k = q * SectorSize + r /\ q < N
      BY <2>4, <3>1, <3>2, SizesAreNumbers, SectorOfPosition, SectorBefore
    <3>4. FollowFat(fat0, e.cluster, N)[q] = e.cluster + q
      BY <2>4, <2>5, <3>1, <3>3
    <3>5. ByteOf(e, k) = At(area, ClusterOffset(e.cluster + q) + r)
      BY <3>4 DEF ByteOf, At
    <3>6. ClusterOffset(e.cluster + q) = ClusterOffset(e.cluster) + q * SectorSize
      BY <2>3, <3>3, ClusterBehindDirectory
    <3>7. ClusterOffset(e.cluster + q) + r = ClusterOffset(e.cluster) + k
      <4>1. ClusterOffset(e.cluster) \in Nat /\ q * SectorSize \in Nat
        BY <2>3, <3>3, ClusterBehindDirectory, SizesAreNumbers, TimesNat
      <4> DEFINE c == ClusterOffset(e.cluster)
                 p == q * SectorSize
      <4>2. ClusterOffset(e.cluster + q) = c + p /\ k = p + r /\ c \in Nat /\ p \in Nat /\ r \in Nat
        BY <3>3, <3>6, <4>1
      <4> HIDE DEF c, p, r
      <4>3. (c + p) + r = c + k
        BY <4>2
      <4> QED  BY <4>2, <4>3 DEF c
    <3>8. k \in 0 .. SectorsOf(n) * SectorSize - 1
      <4> DEFINE p == N * SectorSize
      <4>1. p \in Nat /\ k < p /\ k \in Nat
        BY <2>4, <3>1, <3>2
      <4> HIDE DEF p
      <4>2. k \in 0 .. p - 1
        BY <4>1
      <4> QED  BY <2>3, <4>2 DEF p
    <3>9. At(area, ClusterOffset(e.cluster) + k) = Content(e, k)
      BY <2>1, <3>8 DEF FileStored
    <3> QED  BY <3>5, <3>7, <3>9 DEF Content
  <2> QED  BY <2>2, <2>5, <2>6
<1> QED  BY <1>1, <1>2, <1>3, InitIsSafe, StepIsSafe, BoundsAlways, PTL DEF Spec

(***************************************************************************)
(* A file nobody touches is read back from the image as it is, byte by     *)
(* byte, although FileInfo asks for its length and ReadAllBytes for its    *)
(* bytes at different times (AddFileToImage, CollectSourceFiles of         *)
(* Program.cs).                                                            *)
(***************************************************************************)
THEOREM UntouchedFilesAreExact == Spec => []UntouchedIsExact
<1>1. IInv /\ Exact /\ FilesReadBack => UntouchedIsExact
  <2> SUFFICES ASSUME IInv, Exact, FilesReadBack, pc = "done", nextEntry <= RootEntries,
                      NEW n \in DOMAIN root, Untouched(root[n].path), Countable(root[n].size)
               PROVE  LET e == root[n] IN
                      /\ e.size = tree[e.path].length
                      /\ \A k \in 0 .. e.size - 1 : ByteOf(e, k) = FileByte(e.path, tree[e.path], k)
    BY DEF UntouchedIsExact
  <2> DEFINE e == root[n]
  <2>1. e.size = tree[e.path].length /\ e.bytes = [version |-> 0, length |-> e.size]
    BY DEF Exact, BytesRead
  <2>2. tree[e.path].version = 0
    BY DEF Untouched
  <2>3. \A k \in 0 .. e.size - 1 :
            ByteOf(e, k) = IF k < e.bytes.length THEN FileByte(e.path, e.bytes, k) ELSE Zero
    BY DEF FilesReadBack
  <2>4. e.size \in Nat
    BY ElementTypes DEF IInv, Types, ImageTypes, Entry
  <2>5. \A k : FileByte(e.path, e.bytes, k) = FileByte(e.path, tree[e.path], k)
    BY <2>1, <2>2 DEF FileByte
  <2> HIDE DEF e
  <2>6. ASSUME NEW k \in 0 .. e.size - 1 PROVE ByteOf(e, k) = FileByte(e.path, tree[e.path], k)
    <3>1. k < e.bytes.length
      BY <2>1, <2>4
    <3> QED  BY <2>3, <2>5, <3>1
  <2> QED  BY <2>1, <2>6 DEF e
<1>2. Spec => []IInv
  BY InitIsSafe, StepIsSafe, PTL DEF Spec
<1> QED  BY <1>1, <1>2, ExactAlways, FilesAreReadBack, PTL
=============================================================================
