--------------------------- MODULE VgaCursorProofs ---------------------------
(***************************************************************************)
(* The hardware cursor stays where the kernel put it: the operations of    *)
(* vgatext.cpp share one index port and one data port, and those about the *)
(* shape of the cursor must never reach its location.  And the shape they  *)
(* give it is one that can be seen.                                        *)
(***************************************************************************)
EXTENDS VgaCursor, TLAPS

RegisterFile == [misc : Bits, index : CrtcIndex, crtc : [CrtcIndex -> Bits]]

CursorTypeOK ==
    /\ vga \in RegisterFile
    /\ cursor \in Nat
    /\ located \in BOOLEAN

CursorInv == CursorTypeOK /\ LocationFollows

\* v and w have the cursor in the same place.
SameLocation(v, w) ==
    v.crtc[LocationHi] = w.crtc[LocationHi] /\ v.crtc[LocationLo] = w.crtc[LocationLo]

\* A register selected and then written, or read.
OutByte(v, index, byte) == WriteData(Select(v, index), byte)
InByte(v, index)        == ReadData(Select(v, index))

-----------------------------------------------------------------------------
\* The registers the location is in are not those of the shape.
LEMMA IndicesDiffer ==
    /\ MaxScanLine \in CrtcIndex /\ CursorStart \in CrtcIndex /\ CursorEnd \in CrtcIndex
    /\ LocationHi \in CrtcIndex /\ LocationLo \in CrtcIndex
    /\ LocationHi # LocationLo
    /\ CursorStart # LocationHi /\ CursorStart # LocationLo
    /\ CursorEnd # LocationHi /\ CursorEnd # LocationLo
BY DEF CrtcIndex, MaxScanLine, CursorStart, CursorEnd, LocationHi, LocationLo

LEMMA ByteOfIsByte ==
    ASSUME NEW n PROVE ByteOf(n) \in Bits
BY DEF ByteOf, Bits

\* Some bits of a byte with those of another.
LEMMA MergedIsByte ==
    ASSUME NEW kept \in Bits, NEW x, NEW b \in Bits PROVE (x \intersect kept) \union b \in Bits
BY DEF Bits

LEMMA SmallSetsAreBytes ==
    {6, 7} \in Bits /\ {5, 6, 7} \in Bits /\ \A b \in Bits : {1} \union b \in Bits
BY DEF Bits

\* A selection changes no register but the index.
LEMMA SelectOnly ==
    ASSUME NEW v \in RegisterFile, NEW i \in CrtcIndex
    PROVE  /\ Select(v, i) \in RegisterFile
           /\ Select(v, i).misc = v.misc
           /\ Select(v, i).crtc = v.crtc
           /\ 0 \in v.misc => Select(v, i).index = i
BY DEF Select, RegisterFile

LEMMA InByteIs ==
    ASSUME NEW v \in RegisterFile, NEW i \in CrtcIndex
    PROVE  InByte(v, i) \in Bits /\ (0 \in v.misc => InByte(v, i) = v.crtc[i])
<1> DEFINE s == Select(v, i)
<1>1. s \in RegisterFile /\ s.misc = v.misc /\ s.crtc = v.crtc /\ (0 \in v.misc => s.index = i)
  BY SelectOnly
<1> HIDE DEF s
<1>2. ReadData(s) \in Bits /\ (0 \in v.misc => ReadData(s) = v.crtc[i])
  BY <1>1 DEF ReadData, RegisterFile, Bits
<1> QED BY <1>2 DEF InByte, s

\* A write changes the register it is for, if the ports answer, and no other.
LEMMA OutByteChanges ==
    ASSUME NEW v \in RegisterFile, NEW i \in CrtcIndex, NEW b \in Bits
    PROVE  /\ OutByte(v, i, b) \in RegisterFile
           /\ OutByte(v, i, b).misc = v.misc
           /\ 0 \in v.misc => OutByte(v, i, b).crtc[i] = b
           /\ \A j \in CrtcIndex : j # i => OutByte(v, i, b).crtc[j] = v.crtc[j]
<1> DEFINE s == Select(v, i)
<1>1. s \in RegisterFile /\ s.misc = v.misc /\ s.crtc = v.crtc /\ (0 \in v.misc => s.index = i)
  BY SelectOnly
<1> HIDE DEF s
<1>2. /\ WriteData(s, b) \in RegisterFile
      /\ WriteData(s, b).misc = v.misc
      /\ 0 \in v.misc => WriteData(s, b).crtc[i] = b
      /\ \A j \in CrtcIndex : j # i => WriteData(s, b).crtc[j] = v.crtc[j]
  BY <1>1 DEF WriteData, RegisterFile
<1> QED BY <1>2 DEF OutByte, s

\* Neither the shape nor the selection of the ports touches the location.
LEMMA UnderlineKeepsLocation ==
    ASSUME NEW v \in RegisterFile
    PROVE  /\ Underline(v) \in RegisterFile
           /\ Underline(v).misc = v.misc
           /\ SameLocation(Underline(v), v)
<1> DEFINE line   == Select(v, MaxScanLine)
           bottom == InByte(v, MaxScanLine)
           top    == ByteOf((Value(bottom) - 2) % 32)
           first  == (InByte(line, CursorStart) \intersect {6, 7}) \union {1} \union top
           start  == OutByte(line, CursorStart, first)
           last   == (InByte(start, CursorEnd) \intersect {5, 6, 7}) \union bottom
<1>0. line \in RegisterFile /\ line.misc = v.misc /\ line.crtc = v.crtc
  BY SelectOnly, IndicesDiffer
<1>1. bottom \in Bits
  BY InByteIs, IndicesDiffer
<1>2. first \in Bits
  <2>1. top \in Bits
    BY ByteOfIsByte
  <2> HIDE DEF top
  <2>2. {1} \union top \in Bits
    BY <2>1, SmallSetsAreBytes
  <2>3. first = (InByte(line, CursorStart) \intersect {6, 7}) \union ({1} \union top)
    OBVIOUS
  <2> HIDE DEF first
  <2> QED
    BY <2>2, <2>3, SmallSetsAreBytes, MergedIsByte
<1> HIDE DEF first
<1>3. /\ start \in RegisterFile
      /\ start.misc = v.misc
      /\ SameLocation(start, v)
  <2> HIDE DEF line
  <2>1. start \in RegisterFile /\ start.misc = line.misc /\ SameLocation(start, line)
    BY <1>0, <1>2, OutByteChanges, IndicesDiffer DEF SameLocation
  <2> QED BY <1>0, <2>1 DEF SameLocation
<1> HIDE DEF start, bottom
<1>4. last \in Bits
  BY <1>1, SmallSetsAreBytes, MergedIsByte
<1> HIDE DEF last
<1>5. /\ OutByte(start, CursorEnd, last) \in RegisterFile
      /\ OutByte(start, CursorEnd, last).misc = start.misc
      /\ SameLocation(OutByte(start, CursorEnd, last), start)
  BY <1>3, <1>4, OutByteChanges, IndicesDiffer DEF SameLocation
<1>6. Underline(v) = OutByte(start, CursorEnd, last)
  BY DEF Underline, start, last, first, bottom, OutByte, InByte
<1> QED
  BY <1>3, <1>5, <1>6 DEF SameLocation

LEMMA SelectKeepsLocation ==
    ASSUME NEW v \in RegisterFile
    PROVE  /\ SelectColorPorts(v) \in RegisterFile
           /\ v.misc \subseteq SelectColorPorts(v).misc
           /\ SelectColorPorts(v).crtc = v.crtc
<1>1. v.misc \union {0} \in Bits
  BY DEF RegisterFile, Bits
<1> QED
  BY <1>1 DEF SelectColorPorts, RegisterFile

\* Both halves of an index reach the location register, if the ports answer.
LEMMA SyncSetsLocation ==
    ASSUME NEW v \in RegisterFile, NEW idx \in Nat
    PROVE  /\ SyncCursorPos(v, idx) \in RegisterFile
           /\ SyncCursorPos(v, idx).misc = v.misc
           /\ 0 \in v.misc =>
                /\ SyncCursorPos(v, idx).crtc[LocationLo] = ByteOf(idx % 256)
                /\ SyncCursorPos(v, idx).crtc[LocationHi] = ByteOf((idx \div 256) % 256)
<1> DEFINE lo   == ByteOf(idx % 256)
           hi   == ByteOf((idx \div 256) % 256)
           half == OutByte(v, LocationLo, lo)
<1>1. lo \in Bits /\ hi \in Bits
  BY ByteOfIsByte
<1> HIDE DEF lo, hi
<1>2. /\ half \in RegisterFile
      /\ half.misc = v.misc
      /\ 0 \in v.misc => half.crtc[LocationLo] = lo
  BY <1>1, OutByteChanges, IndicesDiffer
<1> HIDE DEF half
<1>3. /\ OutByte(half, LocationHi, hi) \in RegisterFile
      /\ OutByte(half, LocationHi, hi).misc = half.misc
      /\ 0 \in half.misc => OutByte(half, LocationHi, hi).crtc[LocationHi] = hi
      /\ OutByte(half, LocationHi, hi).crtc[LocationLo] = half.crtc[LocationLo]
  <2>1. half \in RegisterFile /\ hi \in Bits
    BY <1>1, <1>2
  <2>2. LocationHi \in CrtcIndex /\ LocationLo \in CrtcIndex /\ LocationLo # LocationHi
    BY IndicesDiffer
  <2> QED
    BY <2>1, <2>2, OutByteChanges
<1> QED
  BY <1>2, <1>3 DEF SyncCursorPos, OutByte, lo, hi, half

-----------------------------------------------------------------------------
LEMMA CursorInitIsSafe == CursorInit => CursorInv
<1> SUFFICES ASSUME CursorInit PROVE CursorInv
  OBVIOUS
<1>1. vga \in RegisterFile
  BY RegistersAssumption DEF CursorInit, RegisterFile
<1>2. cursor = 0 /\ located = FALSE
  BY DEF CursorInit
<1> QED
  BY <1>1, <1>2 DEF CursorInv, CursorTypeOK, LocationFollows

\* Any operation of vgatext.cpp on the registers, the cursor put anywhere.
CursorStep ==
    \/ vtInitialize
    \/ vtEnableCursor
    \/ vtDisableCursor
    \/ \E idx \in Int : PutCursor(idx)

LEMMA CursorStepIsSafe == CursorInv /\ [CursorStep]_cursorVars => CursorInv'
<1> SUFFICES ASSUME CursorInv, [CursorStep]_cursorVars PROVE CursorInv'
  OBVIOUS
<1> USE DEF CursorInv, CursorTypeOK
<1>1. CASE vtInitialize
  <2> DEFINE selected == SelectColorPorts(vga)
  <2>1. /\ selected \in RegisterFile
        /\ vga.misc \subseteq selected.misc
        /\ selected.crtc = vga.crtc
    BY SelectKeepsLocation
  <2> HIDE DEF selected
  <2>2. /\ Underline(selected) \in RegisterFile
        /\ Underline(selected).misc = selected.misc
        /\ SameLocation(Underline(selected), selected)
    BY <2>1, UnderlineKeepsLocation
  <2>3. vga' = Underline(selected) /\ cursor' = cursor /\ located' = located
    BY <1>1 DEF vtInitialize, selected
  <2> QED
    BY <2>1, <2>2, <2>3 DEF LocationFollows, SameLocation
<1>2. ASSUME NEW b \in Bits,
             vga' = OutByte(vga, CursorStart, b), UNCHANGED <<cursor, located>>
      PROVE  CursorInv'
  <2>1. /\ vga' \in RegisterFile
        /\ vga'.misc = vga.misc
        /\ SameLocation(vga', vga)
    BY <1>2, OutByteChanges, IndicesDiffer, SMTT(30) DEF SameLocation
  <2> QED
    BY <1>2, <2>1 DEF LocationFollows, SameLocation
<1>3. CASE vtEnableCursor
  <2>1. InByte(vga, CursorStart) \ {5} \in Bits
    BY InByteIs, IndicesDiffer DEF Bits
  <2>2. vga' = OutByte(vga, CursorStart, InByte(vga, CursorStart) \ {5}) /\ UNCHANGED <<cursor, located>>
    BY <1>3 DEF vtEnableCursor, OutByte, InByte
  <2> QED
    BY <1>2, <2>1, <2>2
<1>4. CASE vtDisableCursor
  <2>1. InByte(vga, CursorStart) \union {5} \in Bits
    BY InByteIs, IndicesDiffer DEF Bits
  <2>2. vga' = OutByte(vga, CursorStart, InByte(vga, CursorStart) \union {5}) /\ UNCHANGED <<cursor, located>>
    BY <1>4 DEF vtDisableCursor, OutByte, InByte
  <2> QED
    BY <1>2, <2>1, <2>2
<1>5. ASSUME NEW idx \in Int, PutCursor(idx) PROVE CursorInv'
  <2>1. cursor' \in Nat
    BY <1>5 DEF PutCursor
  <2>2. vga' = SyncCursorPos(vga, cursor')
    BY <1>5 DEF PutCursor
  <2>3. located' \in BOOLEAN /\ (located' => 0 \in vga.misc)
    <3>1. located' = (0 \in vga.misc)
      BY <1>5 DEF PutCursor
    <3>2. CASE 0 \in vga.misc
      <4>1. located' = TRUE
        BY <3>1, <3>2
      <4> QED
        BY <4>1, <3>2
    <3>3. CASE ~(0 \in vga.misc)
      <4>1. (0 \in vga.misc) = FALSE
        BY <3>3
      <4>2. located' = FALSE
        BY <3>1, <4>1, Zenon
      <4> QED
        BY <4>2
    <3> QED
      BY <3>2, <3>3
  <2>4. /\ vga' \in RegisterFile
        /\ vga'.misc = vga.misc
        /\ 0 \in vga.misc =>
              /\ vga'.crtc[LocationLo] = ByteOf(cursor' % 256)
              /\ vga'.crtc[LocationHi] = ByteOf((cursor' \div 256) % 256)
    <3> DEFINE place == cursor'
    <3>1. vga \in RegisterFile /\ place \in Nat /\ vga' = SyncCursorPos(vga, place)
      BY <2>1, <2>2
    <3> HIDE DEF place
    <3>2. /\ SyncCursorPos(vga, place) \in RegisterFile
          /\ SyncCursorPos(vga, place).misc = vga.misc
          /\ 0 \in vga.misc =>
              /\ SyncCursorPos(vga, place).crtc[LocationLo] = ByteOf(place % 256)
              /\ SyncCursorPos(vga, place).crtc[LocationHi] = ByteOf((place \div 256) % 256)
      BY <3>1, SyncSetsLocation
    <3> QED
      BY <3>1, <3>2 DEF place
  <2> QED
    BY <2>1, <2>3, <2>4 DEF LocationFollows
<1>6. CASE UNCHANGED cursorVars
  BY <1>6 DEF cursorVars, LocationFollows
<1> QED
  BY <1>1, <1>3, <1>4, <1>5, <1>6 DEF CursorStep

-----------------------------------------------------------------------------
\* A byte by its bits; a line is five of them.
LEMMA ValueIs ==
    ASSUME NEW b
    PROVE  /\ Value(b) = (IF 0 \in b THEN 1 ELSE 0) + (IF 1 \in b THEN 2 ELSE 0)
                        + (IF 2 \in b THEN 4 ELSE 0) + (IF 3 \in b THEN 8 ELSE 0)
                        + (IF 4 \in b THEN 16 ELSE 0) + (IF 5 \in b THEN 32 ELSE 0)
                        + (IF 6 \in b THEN 64 ELSE 0) + (IF 7 \in b THEN 128 ELSE 0)
           /\ Lines(b) = (IF 0 \in b THEN 1 ELSE 0) + (IF 1 \in b THEN 2 ELSE 0)
                        + (IF 2 \in b THEN 4 ELSE 0) + (IF 3 \in b THEN 8 ELSE 0)
                        + (IF 4 \in b THEN 16 ELSE 0)
<1>1. /\ Weight[0 + 1] = 1 /\ Weight[1 + 1] = 2 /\ Weight[2 + 1] = 4 /\ Weight[3 + 1] = 8
      /\ Weight[4 + 1] = 16 /\ Weight[5 + 1] = 32 /\ Weight[6 + 1] = 64 /\ Weight[7 + 1] = 128
  BY DEF Weight
<1> QED BY <1>1 DEF Value, Lines

\* The bits of a line.
LEMMA BitsOf ==
    ASSUME NEW n \in 0 .. 31
    PROVE  /\ 0 \in ByteOf(n) <=> n % 2 = 1
           /\ 1 \in ByteOf(n) <=> (n \div 2) % 2 = 1
           /\ 2 \in ByteOf(n) <=> (n \div 4) % 2 = 1
           /\ 3 \in ByteOf(n) <=> (n \div 8) % 2 = 1
           /\ 4 \in ByteOf(n) <=> (n \div 16) % 2 = 1
           /\ 5 \notin ByteOf(n)
<1>1. /\ Weight[0 + 1] = 1 /\ Weight[1 + 1] = 2 /\ Weight[2 + 1] = 4 /\ Weight[3 + 1] = 8
      /\ Weight[4 + 1] = 16 /\ Weight[5 + 1] = 32
  BY DEF Weight
<1>2. /\ 0 \in ByteOf(n) <=> (n \div 1) % 2 = 1
      /\ 1 \in ByteOf(n) <=> (n \div 2) % 2 = 1
      /\ 2 \in ByteOf(n) <=> (n \div 4) % 2 = 1
      /\ 3 \in ByteOf(n) <=> (n \div 8) % 2 = 1
      /\ 4 \in ByteOf(n) <=> (n \div 16) % 2 = 1
      /\ 5 \in ByteOf(n) <=> (n \div 32) % 2 = 1
  <2>1. \A i \in 0 .. 7 : i \in ByteOf(n) <=> (n \div Weight[i + 1]) % 2 = 1
    BY DEF ByteOf
  <2>2. \A i \in 0 .. 7 : \A w : Weight[i + 1] = w => (i \in ByteOf(n) <=> (n \div w) % 2 = 1)
    BY <2>1
  <2> QED BY <1>1, <2>2
<1>3. n \div 1 = n /\ n \div 32 = 0
  OBVIOUS
<1> QED BY <1>2, <1>3

\* Setting bit 1 besides raises a line by two at most.
LEMMA UnderlineStart ==
    ASSUME NEW n \in 0 .. 31, NEW kept
    PROVE  /\ 5 \notin (kept \intersect {6, 7}) \union {1} \union ByteOf(n)
           /\ Lines((kept \intersect {6, 7}) \union {1} \union ByteOf(n)) <= n + 2
<1> DEFINE start == (kept \intersect {6, 7}) \union {1} \union ByteOf(n)
           low   == ByteOf(n)
<1>1. /\ 0 \in start <=> 0 \in low
      /\ 1 \in start
      /\ 2 \in start <=> 2 \in low
      /\ 3 \in start <=> 3 \in low
      /\ 4 \in start <=> 4 \in low
      /\ 5 \in start <=> 5 \in low
  OBVIOUS
<1>2. Lines(start) = (IF 0 \in start THEN 1 ELSE 0) + (IF 1 \in start THEN 2 ELSE 0)
                        + (IF 2 \in start THEN 4 ELSE 0) + (IF 3 \in start THEN 8 ELSE 0)
                        + (IF 4 \in start THEN 16 ELSE 0)
  BY ValueIs
<1> HIDE DEF start, low
<1>3. /\ 0 \in low <=> n % 2 = 1
      /\ 2 \in low <=> (n \div 4) % 2 = 1
      /\ 3 \in low <=> (n \div 8) % 2 = 1
      /\ 4 \in low <=> (n \div 16) % 2 = 1
      /\ 5 \notin low
  BY BitsOf DEF low
<1>4. n + 2 >= (IF n % 2 = 1 THEN 1 ELSE 0) + 2 + (IF (n \div 4) % 2 = 1 THEN 4 ELSE 0)
               + (IF (n \div 8) % 2 = 1 THEN 8 ELSE 0) + (IF (n \div 16) % 2 = 1 THEN 16 ELSE 0)
  OBVIOUS
<1>5. 5 \notin start /\ Lines(start) <= n + 2
  BY <1>1, <1>2, <1>3, <1>4
<1> QED BY <1>5 DEF start, low

\* The bits above the scan line fall out of the remainder.
LEMMA TwoLinesUp ==
    ASSUME NEW b
    PROVE  /\ Lines(b) \in 0 .. 31
           /\ (Value(b) - 2) % 32 \in 0 .. 31
           /\ Lines(b) >= 2 => (Value(b) - 2) % 32 = Lines(b) - 2
<1>1. PICK high \in 0 .. 7 : Value(b) = Lines(b) + 32 * high
  <2> DEFINE h == (IF 5 \in b THEN 1 ELSE 0) + (IF 6 \in b THEN 2 ELSE 0) + (IF 7 \in b THEN 4 ELSE 0)
  <2> QED BY h \in 0 .. 7, ValueIs
<1>2. Lines(b) \in 0 .. 31
  BY ValueIs
<1> QED BY <1>1, <1>2

\* The cursor of the registers w can be seen: Visible, of any registers.
Shows(w) ==
    /\ 5 \notin w.crtc[CursorStart]
    /\ Lines(w.crtc[MaxScanLine]) >= 2 =>
           /\ Lines(w.crtc[CursorStart]) <= Lines(w.crtc[MaxScanLine])
           /\ Lines(w.crtc[CursorStart]) <= Lines(w.crtc[CursorEnd])

LEMMA UnderlineShows ==
    ASSUME NEW v \in RegisterFile, 0 \in v.misc
    PROVE  Shows(Underline(v))
<1> DEFINE line   == Select(v, MaxScanLine)
           bottom == InByte(v, MaxScanLine)
           k      == (Value(bottom) - 2) % 32
           first  == (InByte(line, CursorStart) \intersect {6, 7}) \union {1} \union ByteOf(k)
           start  == OutByte(line, CursorStart, first)
           last   == (InByte(start, CursorEnd) \intersect {5, 6, 7}) \union bottom
           w      == OutByte(start, CursorEnd, last)
<1>0. line \in RegisterFile /\ line.misc = v.misc /\ line.crtc = v.crtc
  BY SelectOnly, IndicesDiffer
<1>1. bottom \in Bits /\ bottom = v.crtc[MaxScanLine]
  BY InByteIs, IndicesDiffer
<1>2. first \in Bits
  <2>1. ByteOf(k) \in Bits
    BY ByteOfIsByte
  <2> HIDE DEF k
  <2> QED BY <2>1 DEF Bits
<1>3. k \in 0 .. 31 /\ (Lines(bottom) >= 2 => k = Lines(bottom) - 2) /\ Lines(bottom) \in 0 .. 31
  BY TwoLinesUp
<1>4. 5 \notin first /\ Lines(first) <= k + 2 /\ Lines(first) \in Nat
  <2>1. 5 \notin first /\ Lines(first) <= k + 2
    BY <1>3, UnderlineStart
  <2>2. Lines(first) \in 0 .. 31
    BY TwoLinesUp
  <2> QED BY <2>1, <2>2
<1>5. Underline(v) = w
  BY DEF Underline, OutByte, InByte
<1> HIDE DEF first, k
<1>6. MaxScanLine # CursorStart /\ MaxScanLine # CursorEnd /\ CursorStart # CursorEnd
  BY DEF MaxScanLine, CursorStart, CursorEnd
<1>7. /\ start \in RegisterFile /\ 0 \in start.misc
      /\ start.crtc[CursorStart] = first
      /\ start.crtc[MaxScanLine] = bottom
  <2>1. /\ start \in RegisterFile /\ start.misc = v.misc
        /\ 0 \in v.misc => start.crtc[CursorStart] = first
        /\ \A j \in CrtcIndex : j # CursorStart => start.crtc[j] = v.crtc[j]
    <3> HIDE DEF line
    <3>1. CursorStart \in CrtcIndex
      BY IndicesDiffer
    <3>2. /\ start \in RegisterFile /\ start.misc = line.misc
          /\ 0 \in line.misc => start.crtc[CursorStart] = first
          /\ \A j \in CrtcIndex : j # CursorStart => start.crtc[j] = line.crtc[j]
      BY <1>0, <1>2, <3>1, OutByteChanges
    <3> QED BY <1>0, <3>2
  <2> HIDE DEF start, bottom
  <2> QED BY <1>1, <1>6, <2>1, IndicesDiffer
<1> HIDE DEF start, bottom
<1>8. last \in Bits
  BY <1>1, SmallSetsAreBytes, MergedIsByte
<1>9. Lines(last) = Lines(bottom)
  <2>1. \A i \in 0 .. 4 : i \in last <=> i \in bottom
    OBVIOUS
  <2>2. last \intersect 0 .. 4 = bottom \intersect 0 .. 4
    BY <2>1
  <2> QED BY <2>2 DEF Lines
<1> HIDE DEF last
<1>10. /\ w.crtc[CursorEnd] = last
       /\ w.crtc[CursorStart] = first
       /\ w.crtc[MaxScanLine] = bottom
  <2>1. CursorEnd \in CrtcIndex /\ CursorStart \in CrtcIndex /\ MaxScanLine \in CrtcIndex
    BY IndicesDiffer
  <2>2. w.crtc[CursorEnd] = last
    BY <1>7, <1>8, <2>1, OutByteChanges
  <2>3. \A j \in CrtcIndex : j # CursorEnd => w.crtc[j] = start.crtc[j]
    BY <1>7, <1>8, <2>1, OutByteChanges
  <2> QED BY <1>6, <1>7, <2>1, <2>2, <2>3
<1> HIDE DEF w
<1>11. Lines(bottom) >= 2 => Lines(first) <= Lines(bottom)
  BY <1>3, <1>4
<1> QED BY <1>4, <1>5, <1>9, <1>10, <1>11 DEF Shows

\* Neither putting the cursor anywhere nor enabling it hides it.
LEMMA ShapeStays ==
    ASSUME CursorInv, 0 \in vga.misc, Shows(vga),
           vtEnableCursor \/ \E idx \in Int : PutCursor(idx)
    PROVE  0 \in vga'.misc /\ Shows(vga')
<1> USE DEF CursorInv, CursorTypeOK
<1>0. MaxScanLine # CursorStart /\ \A i \in {MaxScanLine, CursorStart, CursorEnd} : i # LocationHi /\ i # LocationLo
  BY DEF MaxScanLine, CursorStart, CursorEnd, LocationHi, LocationLo
<1>1. CASE vtEnableCursor
  <2> DEFINE b == InByte(vga, CursorStart) \ {5}
  <2>1. b \in Bits /\ b = vga.crtc[CursorStart]
    <3>1. InByte(vga, CursorStart) = vga.crtc[CursorStart] /\ InByte(vga, CursorStart) \in Bits
      BY InByteIs, IndicesDiffer
    <3>2. 5 \notin vga.crtc[CursorStart]
      BY DEF Shows
    <3> QED BY <3>1, <3>2 DEF Bits
  <2>2. vga' = OutByte(vga, CursorStart, b)
    BY <1>1 DEF vtEnableCursor, OutByte, InByte
  <2> HIDE DEF b
  <2>3. /\ vga'.misc = vga.misc
        /\ vga'.crtc[CursorStart] = b
        /\ \A j \in CrtcIndex : j # CursorStart => vga'.crtc[j] = vga.crtc[j]
    BY <2>1, <2>2, OutByteChanges, IndicesDiffer
  <2>4. \A j \in {MaxScanLine, CursorStart, CursorEnd} : vga'.crtc[j] = vga.crtc[j]
    BY <2>1, <2>3, IndicesDiffer
  <2> QED BY <2>3, <2>4 DEF Shows
<1>2. ASSUME NEW idx \in Int, PutCursor(idx)
      PROVE  0 \in vga'.misc /\ Shows(vga')
  <2> DEFINE lo   == ByteOf(cursor' % 256)
             hi   == ByteOf((cursor' \div 256) % 256)
             half == OutByte(vga, LocationLo, lo)
  <2>1. lo \in Bits /\ hi \in Bits
    BY ByteOfIsByte
  <2>2. vga' = OutByte(half, LocationHi, hi)
    BY <1>2 DEF PutCursor, SyncCursorPos, OutByte
  <2> HIDE DEF lo, hi
  <2>3. /\ half \in RegisterFile /\ half.misc = vga.misc
        /\ \A j \in CrtcIndex : j # LocationLo => half.crtc[j] = vga.crtc[j]
    BY <2>1, OutByteChanges, IndicesDiffer
  <2> HIDE DEF half
  <2>4. /\ vga'.misc = half.misc
        /\ \A j \in CrtcIndex : j # LocationHi => vga'.crtc[j] = half.crtc[j]
    <3> DEFINE done == OutByte(half, LocationHi, hi)
    <3>1. done.misc = half.misc /\ \A j \in CrtcIndex : j # LocationHi => done.crtc[j] = half.crtc[j]
      <4>1. LocationHi \in CrtcIndex
        BY IndicesDiffer
      <4> QED BY <2>1, <2>3, <4>1, OutByteChanges
    <3> HIDE DEF done
    <3> QED BY <2>2, <3>1 DEF done
  <2>5. \A j \in {MaxScanLine, CursorStart, CursorEnd} : vga'.crtc[j] = vga.crtc[j]
    BY <1>0, <2>3, <2>4, IndicesDiffer
  <2> QED BY <2>3, <2>4, <2>5 DEF Shows
<1> QED BY <1>1, <1>2

-----------------------------------------------------------------------------
(***************************************************************************)
(* The hardware's cursor location is the kernel's, once it was sent and    *)
(* the controller listened, through every operation of vgatext.cpp.        *)
(***************************************************************************)
THEOREM LocationAlwaysFollows == CursorSpec => []LocationFollows
<1>1. CursorInv /\ [CursorNext]_cursorVars => CursorInv'
  <2>1. CursorNext => CursorStep
    BY RegistersAssumption DEF CursorNext, CursorStep
  <2> QED
    BY <2>1, CursorStepIsSafe
<1>2. CursorInv => LocationFollows
  BY DEF CursorInv
<1> QED
  BY CursorInitIsSafe, <1>1, <1>2, PTL DEF CursorSpec
=============================================================================
