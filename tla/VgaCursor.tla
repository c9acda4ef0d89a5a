----------------------------- MODULE VgaCursor -----------------------------
(***************************************************************************)
(* The cursor of the VGA text screen as vgatext.cpp drives it.  All        *)
(* registers of the CRT controller share one data port: what is written to *)
(* the index port says which of them it reaches.  A byte is the set of its *)
(* bits, 0 to 7.                                                           *)
(***************************************************************************)
EXTENDS Integers

CONSTANTS
    Registers,      \* what the BIOS leaves in the registers
    ScreenCells     \* cell indices the cursor is put at

Bits == SUBSET (0 .. 7)

MaxScanLine == 9
CursorStart == 10
CursorEnd   == 11
LocationHi  == 14
LocationLo  == 15
CrtcIndex   == {MaxScanLine, CursorStart, CursorEnd, LocationHi, LocationLo}

ASSUME RegistersAssumption ==
    /\ Registers \subseteq [misc : Bits, index : CrtcIndex, crtc : [CrtcIndex -> Bits]]
    /\ ScreenCells \subseteq Int

VARIABLES
    vga,            \* the registers, the index port's among them
    cursor,         \* cursorY * VGA_Width + cursorX, uint16_t
    located         \* whether this was sent to the controller

cursorVars == <<vga, cursor, located>>

\* Weight[i + 1] is what bit i is worth.
Weight == <<1, 2, 4, 8, 16, 32, 64, 128>>

Value(b) ==
    LET Bit(i) == IF i \in b THEN Weight[i + 1] ELSE 0
    IN  Bit(0) + Bit(1) + Bit(2) + Bit(3) + Bit(4) + Bit(5) + Bit(6) + Bit(7)

ByteOf(n) == {i \in 0 .. 7 : (n \div Weight[i + 1]) % 2 = 1}

(***************************************************************************)
(* The index port and the data port at VGAIO_CRTControl*.  The controller  *)
(* answers there only while bit 0 of the miscellaneous output register is  *)
(* set; else writes are lost and reads give ones.                          *)
(***************************************************************************)
Select(v, index) == IF 0 \in v.misc THEN [v EXCEPT !.index = index] ELSE v

WriteData(v, byte) == IF 0 \in v.misc THEN [v EXCEPT !.crtc[v.index] = byte] ELSE v

ReadData(v) == IF 0 \in v.misc THEN v.crtc[v.index] ELSE 0 .. 7

-----------------------------------------------------------------------------
CursorInit ==
    /\ vga \in Registers
    /\ cursor = 0
    /\ located = FALSE

SelectColorPorts(v) == [v EXCEPT !.misc = @ \union {0}]

\* Wrong: starts the underline below its end.
Underline_Below(v) ==
    LET scanLine == Select(v, MaxScanLine)
        bottom   == ReadData(scanLine)
        top      == ByteOf((Value(bottom) + 2) % 32)
        start    == Select(scanLine, CursorStart)
        end      == Select(WriteData(start, (ReadData(start) \intersect {6, 7}) \union {1} \union top), CursorEnd)
    IN  WriteData(end, (ReadData(end) \intersect {5, 6, 7}) \union bottom)

(***************************************************************************)
(* The underline: from two lines above the bottom of a character, with bit *)
(* 1 set in any case, to the bottom.  The whole maximum scan line register *)
(* is OR'ed in, of which only bits 0 to 4 are that line.                   *)
(***************************************************************************)
Underline(v) ==
    LET scanLine == Select(v, MaxScanLine)
        bottom   == ReadData(scanLine)
        top      == ByteOf((Value(bottom) - 2) % 32)
        start    == Select(scanLine, CursorStart)
        end      == Select(WriteData(start, (ReadData(start) \intersect {6, 7}) \union {1} \union top), CursorEnd)
    IN  WriteData(end, (ReadData(end) \intersect {5, 6, 7}) \union bottom)

vtInitialize == vga' = Underline(SelectColorPorts(vga)) /\ UNCHANGED <<cursor, located>>

vtEnableCursor ==
    LET start == Select(vga, CursorStart)
    IN  vga' = WriteData(start, ReadData(start) \ {5}) /\ UNCHANGED <<cursor, located>>

vtDisableCursor ==
    LET start == Select(vga, CursorStart)
    IN  vga' = WriteData(start, ReadData(start) \union {5}) /\ UNCHANGED <<cursor, located>>

\* Wrong: the register of the upper half is not selected.
SyncCursorPos_OneSelect(v, idx) ==
    LET lo == WriteData(Select(v, LocationLo), ByteOf(idx % 256))
    IN  WriteData(lo, ByteOf((idx \div 256) % 256))

SyncCursorPos(v, idx) ==
    LET lo == WriteData(Select(v, LocationLo), ByteOf(idx % 256))
    IN  WriteData(Select(lo, LocationHi), ByteOf((idx \div 256) % 256))

\* vtSetCursorPos, vtClearScreen and every print end with this.
PutCursor(idx) ==
    /\ cursor' = idx % 65536
    /\ vga' = SyncCursorPos(vga, cursor')
    /\ located' = (0 \in vga.misc)

CursorNext ==
    \/ vtInitialize
    \/ vtEnableCursor
    \/ vtDisableCursor
    \/ \E idx \in ScreenCells : PutCursor(idx)

CursorSpec == CursorInit /\ [][CursorNext]_cursorVars

-----------------------------------------------------------------------------
(***************************************************************************)
(* Once the kernel has put the cursor somewhere, the two halves of the     *)
(* location register say where the kernel has it, whatever was done to the *)
(* cursor's shape and visibility in between.                               *)
(***************************************************************************)
LocationFollows ==
    located =>
        /\ 0 \in vga.misc
        /\ vga.crtc[LocationLo] = ByteOf(cursor % 256)
        /\ vga.crtc[LocationHi] = ByteOf((cursor \div 256) % 256)

(***************************************************************************)
(* The cursor can be seen: it is not disabled, begins no later than it     *)
(* ends, and ends within a character, for characters of at least three     *)
(* lines.  The bit set in any case must not push the start behind the end. *)
(***************************************************************************)
Lines(b) == Value(b \intersect 0 .. 4)

Visible ==
    /\ 5 \notin vga.crtc[CursorStart]
    /\ Lines(vga.crtc[MaxScanLine]) >= 2 =>
           /\ Lines(vga.crtc[CursorStart]) <= Lines(vga.crtc[MaxScanLine])
           /\ Lines(vga.crtc[CursorStart]) <= Lines(vga.crtc[CursorEnd])
=============================================================================
