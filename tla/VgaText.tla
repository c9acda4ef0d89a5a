------------------------------ MODULE VgaText ------------------------------
(***************************************************************************)
(* The VGA text screen (KernelBase/src/vgatext.cpp): printing strings with *)
(* control characters, scrolling cell by cell in video memory, the cursor  *)
(* the kernel keeps and the one the hardware shows.  A cell stands for a   *)
(* character with its colour.                                              *)
(***************************************************************************)
EXTENDS Integers, Sequences

CONSTANTS
    VGA_Width,
    VGA_Height,
    TabStop,        \* 4
    Printable,      \* the characters that go to a cell
    VGA_BlankChar,
    Texts,          \* strings the kernel prints
    Places          \* cursor positions a caller sets, pairs <<x, y>>

\* A caller puts the cursor on the screen: the code does not check it, and
\* kmain, the only one, puts it at <<0, 0>>.
ASSUME ScreenAssumption ==
    /\ VGA_Width \in Nat \ {0}
    /\ VGA_Height \in Nat \ {0}
    /\ TabStop \in Nat \ {0}
    /\ Places \subseteq (0 .. VGA_Width - 1) \X (0 .. VGA_Height - 1)
    /\ Texts \subseteq Seq(Printable \union {"TAB", "CR", "LF"})
    /\ VGA_BlankChar \notin Printable

VARIABLES
    screen,         \* the visible cells of video memory
    stray,          \* whether a character was ever written outside of them
    cursorX,
    cursorY,
    hwCursor,       \* the cursor location registers of the CRT controller
    pc,             \* "idle", "print" or "scroll"
    text,           \* what vtPrintColoredString has still to print
    dst             \* the cell ScrollScreenOne writes next

vars == <<screen, stray, cursorX, cursorY, hwCursor, pc, text, dst>>

Cells     == 0 .. VGA_Width * VGA_Height - 1
charCount == VGA_Width * (VGA_Height - 1)

GetSlot(x, y) == y * VGA_Width + x

-----------------------------------------------------------------------------
\* The screen shows what the BIOS left; vtInitialize moves no cursor.
Init ==
    /\ screen \in [Cells -> Printable \union {VGA_BlankChar}]
    /\ stray = FALSE
    /\ cursorX = 0
    /\ cursorY = 0
    /\ hwCursor \in Cells
    /\ pc = "idle"
    /\ text = <<>>
    /\ dst = 0

SyncCursorPos(x, y) == hwCursor' = GetSlot(x, y)

vtSetCursorPos(x, y) ==
    /\ pc = "idle"
    /\ cursorX' = x
    /\ cursorY' = y
    /\ SyncCursorPos(x, y)
    /\ UNCHANGED <<screen, stray, pc, text, dst>>

vtClearScreen ==
    /\ pc = "idle"
    /\ screen' = [i \in Cells |-> VGA_BlankChar]
    /\ cursorX' = 0
    /\ cursorY' = 0
    /\ SyncCursorPos(0, 0)
    /\ UNCHANGED <<stray, pc, text, dst>>

\* vtPrintColoredChar is the same with a string of one character.
vtPrintColoredString(s) ==
    /\ pc = "idle"
    /\ text' = s
    /\ pc' = "print"
    /\ UNCHANGED <<screen, stray, cursorX, cursorY, hwCursor, dst>>

-----------------------------------------------------------------------------
\* Wrong: wraps one column late.
MoveCursor_WrapsLate(x, y) ==
    LET wraps == x > VGA_Width
        line  == IF wraps THEN y + 1 ELSE y
    IN  /\ cursorX' = IF wraps THEN 0 ELSE x
        /\ cursorY' = line
        /\ IF line >= VGA_Height
           THEN pc' = "scroll" /\ dst' = 0
           ELSE UNCHANGED <<pc, dst>>

\* Wrong: tests for the scroll before the wrap.
MoveCursor_ScrollsFirst(x, y) ==
    LET wraps == x >= VGA_Width
    IN  /\ cursorX' = IF wraps THEN 0 ELSE x
        /\ cursorY' = IF wraps THEN y + 1 ELSE y
        /\ IF y >= VGA_Height
           THEN pc' = "scroll" /\ dst' = 0
           ELSE UNCHANGED <<pc, dst>>

(***************************************************************************)
(* One round of the loop: x and y are the cursor after the switch; a full  *)
(* line wraps, and a cursor below the last line starts ScrollScreenOne.    *)
(***************************************************************************)
MoveCursor(x, y) ==
    LET wraps == x >= VGA_Width
        line  == IF wraps THEN y + 1 ELSE y
    IN  /\ cursorX' = IF wraps THEN 0 ELSE x
        /\ cursorY' = line
        /\ IF line >= VGA_Height
           THEN pc' = "scroll" /\ dst' = 0
           ELSE UNCHANGED <<pc, dst>>

NextChar(c) ==
    /\ pc = "print"
    /\ text # <<>>
    /\ Head(text) = c
    /\ text' = Tail(text)
    /\ UNCHANGED hwCursor

\* Wrong: a tab is TabStop columns wide.
PrintTab_FixedWidth ==
    /\ NextChar("TAB")
    /\ MoveCursor(cursorX + TabStop, cursorY)
    /\ UNCHANGED <<screen, stray>>

\* Wrong: goes on to the next round without consuming the tab.
PrintTab_NotConsumed ==
    /\ pc = "print"
    /\ text # <<>>
    /\ Head(text) = "TAB"
    /\ MoveCursor(cursorX + (TabStop - (cursorX % TabStop)), cursorY)
    /\ UNCHANGED <<screen, stray, hwCursor, text>>

PrintTab ==
    /\ NextChar("TAB")
    /\ MoveCursor(cursorX + (TabStop - (cursorX % TabStop)), cursorY)
    /\ UNCHANGED <<screen, stray>>

PrintReturn ==
    /\ NextChar("CR")
    /\ MoveCursor(0, cursorY)
    /\ UNCHANGED <<screen, stray>>

PrintNewline ==
    /\ NextChar("LF")
    /\ MoveCursor(0, cursorY + 1)
    /\ UNCHANGED <<screen, stray>>

PrintChar(c) ==
    LET slot == GetSlot(cursorX, cursorY)
    IN  /\ NextChar(c)
        /\ IF slot \in Cells
           THEN screen' = [screen EXCEPT ![slot] = c] /\ UNCHANGED stray
           ELSE stray' = TRUE /\ UNCHANGED screen
        /\ MoveCursor(cursorX + 1, cursorY)

ScrollCopy ==
    /\ pc = "scroll"
    /\ dst < charCount
    /\ screen' = [screen EXCEPT ![dst] = screen[dst + VGA_Width]]
    /\ dst' = dst + 1
    /\ UNCHANGED <<stray, cursorX, cursorY, hwCursor, pc, text>>

ScrollBlank ==
    /\ pc = "scroll"
    /\ dst \in charCount .. charCount + VGA_Width - 1
    /\ screen' = [screen EXCEPT ![dst] = VGA_BlankChar]
    /\ dst' = dst + 1
    /\ UNCHANGED <<stray, cursorX, cursorY, hwCursor, pc, text>>

ScrollDone ==
    /\ pc = "scroll"
    /\ dst = charCount + VGA_Width
    /\ cursorY' = VGA_Height - 1
    /\ pc' = "print"
    /\ UNCHANGED <<screen, stray, cursorX, hwCursor, text, dst>>

\* Wrong: leaves the hardware cursor behind.
PrintDone_NoSync ==
    /\ pc = "print"
    /\ text = <<>>
    /\ pc' = "idle"
    /\ UNCHANGED <<screen, stray, cursorX, cursorY, hwCursor, text, dst>>

PrintDone ==
    /\ pc = "print"
    /\ text = <<>>
    /\ SyncCursorPos(cursorX, cursorY)
    /\ pc' = "idle"
    /\ UNCHANGED <<screen, stray, cursorX, cursorY, text, dst>>

PrintStep ==
    \/ PrintTab
    \/ PrintReturn
    \/ PrintNewline
    \/ \E c \in Printable : PrintChar(c)
    \/ ScrollCopy
    \/ ScrollBlank
    \/ ScrollDone
    \/ PrintDone

Next ==
    \/ \E p \in Places : vtSetCursorPos(p[1], p[2])
    \/ vtClearScreen
    \/ \E s \in Texts : vtPrintColoredString(s)
    \/ PrintStep

Spec     == Init /\ [][Next]_vars
FairSpec == Spec /\ WF_vars(PrintStep)

-----------------------------------------------------------------------------
TypeOK ==
    /\ screen \in [Cells -> Printable \union {VGA_BlankChar}]
    /\ stray \in BOOLEAN
    /\ cursorX \in 0 .. VGA_Width - 1
    /\ cursorY \in 0 .. VGA_Height
    /\ pc = "scroll" \/ cursorY < VGA_Height
    /\ hwCursor \in Cells
    /\ pc \in {"idle", "print", "scroll"}
    /\ text \in Seq(Printable \union {"TAB", "CR", "LF"})
    /\ dst \in 0 .. VGA_Width * VGA_Height

(***************************************************************************)
(* No character is ever written outside the visible screen, whatever mix   *)
(* of tabs, newlines and full lines the strings have.                      *)
(***************************************************************************)
WritesOnScreen == ~stray

(***************************************************************************)
(* Every call that returns leaves the hardware cursor where the next       *)
(* character will go, on a cell of the screen: SyncCursorPos runs last,    *)
(* after the wrap and the scroll, and once for a whole string.             *)
(***************************************************************************)
CursorFollows ==
    [][pc' = "idle" => hwCursor' = GetSlot(cursorX', cursorY') /\ hwCursor' \in Cells]_vars

(***************************************************************************)
(* Printing a string ends, with any number of scrolls.                     *)
(***************************************************************************)
PrintReturns == (pc = "print") ~> (pc = "idle")

(***************************************************************************)
(* The screen implements the terminal: vtPrintColoredString prints each    *)
(* character as the terminal does, and nothing else moves.  A scroll takes *)
(* effect at once in the terminal, when the character that causes it is    *)
(* printed: the cells ScrollScreenOne has still to write are read from one *)
(* row further down.                                                       *)
(***************************************************************************)
Shown(i) ==
    IF pc # "scroll" \/ i < dst THEN screen[i]
    ELSE IF i < charCount THEN screen[i + VGA_Width] ELSE VGA_BlankChar

Paper == INSTANCE Terminal WITH
    Width    <- VGA_Width,
    Height   <- VGA_Height,
    Blank    <- VGA_BlankChar,
    rows     <- [y \in 0 .. VGA_Height - 1 |->
                    [x \in 0 .. VGA_Width - 1 |-> Shown(GetSlot(x, y))]],
    column   <- cursorX,
    row      <- IF pc = "scroll" THEN VGA_Height - 1 ELSE cursorY,
    printing <- pc # "idle",
    input    <- text

ImplementsTerminal == Paper!TSpec
=============================================================================
