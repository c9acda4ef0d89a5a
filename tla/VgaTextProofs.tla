---------------------------- MODULE VgaTextProofs ----------------------------
(***************************************************************************)
(* Printing and scrolling proved for screens of every size: nothing is     *)
(* written beside the screen, and cell by cell it is the terminal.  And    *)
(* when a cell is a character and its two colours, each to be changed and  *)
(* read for itself, and when it is not.                                    *)
(***************************************************************************)
EXTENDS VgaText, VgaChar, SequenceTheorems, TLAPS

Symbol == Printable \union {"TAB", "CR", "LF"}
Cell   == Printable \union {VGA_BlankChar}
Xs     == 0 .. VGA_Width - 1
Ys     == 0 .. VGA_Height - 1

-----------------------------------------------------------------------------
\* The cells row by row.
LEMMA Sizes ==
    /\ VGA_Width \in Nat /\ VGA_Width > 0
    /\ VGA_Height \in Nat /\ VGA_Height > 0
    /\ VGA_Width * VGA_Height \in Nat
    /\ charCount \in Nat
    /\ charCount + VGA_Width = VGA_Width * VGA_Height
    /\ TabStop \in Nat /\ TabStop > 0
BY ScreenAssumption DEF charCount

LEMMA SlotsAreCells ==
    ASSUME NEW x \in Xs, NEW y \in Ys
    PROVE  /\ GetSlot(x, y) \in Cells
           /\ GetSlot(x, y) < charCount <=> y < VGA_Height - 1
           /\ GetSlot(x, y) + VGA_Width = GetSlot(x, y + 1)
<1> DEFINE W == VGA_Width
           H == VGA_Height
<1>1. W \in Nat /\ W > 0 /\ H \in Nat /\ H > 0 /\ x \in Nat /\ y \in Nat /\ x < W /\ y < H
  BY Sizes DEF Xs, Ys
<1> HIDE DEF W, H
<1>2. y * W + x \in Nat
  BY <1>1
<1>3. (y + 1) * W = y * W + W
  BY <1>1
<1>4. y + 1 <= H => (y + 1) * W <= H * W
  BY <1>1
<1>5. y + 1 <= H - 1 => (y + 1) * W <= (H - 1) * W
  BY <1>1
<1>6. y = H - 1 => y * W = (H - 1) * W
  OBVIOUS
<1>7. (H - 1) * W = W * (H - 1) /\ H * W = W * H
  BY <1>1
<1>8. y * W \in Int /\ (H - 1) * W \in Int /\ H * W \in Int
  BY <1>1
<1>9. y * W + x < W * H /\ (y * W + x < W * (H - 1) <=> y < H - 1)
  BY <1>1, <1>3, <1>4, <1>5, <1>6, <1>7, <1>8
<1>10. y * W + x + W = (y + 1) * W + x
  BY <1>1, <1>3, <1>8
<1> QED  BY <1>1, <1>2, <1>9, <1>10 DEF GetSlot, Cells, charCount, W, H

\* No two of them are the same.
LEMMA SlotsDiffer ==
    ASSUME NEW x \in Xs, NEW y \in Ys, NEW u \in Xs, NEW v \in Ys, GetSlot(x, y) = GetSlot(u, v)
    PROVE  x = u /\ y = v
<1> DEFINE W == VGA_Width
<1>1. W \in Nat /\ x \in Nat /\ y \in Nat /\ u \in Nat /\ v \in Nat /\ x < W /\ u < W
  BY Sizes DEF Xs, Ys
<1>2. y * W + x = v * W + u
  BY DEF GetSlot
<1> HIDE DEF W
<1>3. ASSUME NEW a \in Nat, NEW b \in Nat, a < b PROVE a * W + W <= b * W
  <2>1. (a + 1) * W = a * W + W /\ a + 1 <= b
    BY <1>1, <1>3
  <2>2. (a + 1) * W <= b * W
    BY <1>1, <1>3, <2>1
  <2> QED  BY <2>1, <2>2
<1>4. y * W \in Nat /\ v * W \in Nat
  BY <1>1
<1>5. ~(y < v) /\ ~(v < y)
  BY <1>1, <1>2, <1>3, <1>4
<1>6. y = v
  BY <1>1, <1>5
<1> QED  BY <1>1, <1>2, <1>4, <1>6

\* A tab goes to the next tab stop, and forwards.
LEMMA TabStops ==
    ASSUME NEW x \in Nat
    PROVE  /\ x + (TabStop - (x % TabStop)) = ((x \div TabStop) + 1) * TabStop
           /\ x + (TabStop - (x % TabStop)) \in Nat
           /\ x + (TabStop - (x % TabStop)) > x
<1> DEFINE T == TabStop
           q == x \div T
           r == x % T
<1>1. T \in Nat \ {0}
  BY Sizes
<1>2. q \in Nat /\ r \in Nat /\ r < T /\ x = q * T + r
  BY <1>1
<1> HIDE DEF T, q, r
<1>3. (q + 1) * T = q * T + T /\ q * T \in Nat
  BY <1>1, <1>2
<1>4. x + (T - r) = (q + 1) * T /\ x + (T - r) \in Nat /\ x + (T - r) > x
  BY <1>1, <1>2, <1>3
<1> QED  BY <1>4 DEF T, q, r

-----------------------------------------------------------------------------
ScreenInv == TypeOK /\ WritesOnScreen

\* The end of a round leaves the cursor on a row, or one below and scrolls.
LEMMA MoveCursorOK ==
    ASSUME TypeOK, pc = "print", NEW x \in Nat, NEW y \in 0 .. VGA_Height,
           x >= VGA_Width => y < VGA_Height, MoveCursor(x, y)
    PROVE  /\ cursorX' \in 0 .. VGA_Width - 1
           /\ cursorY' \in 0 .. VGA_Height
           /\ pc' = "scroll" \/ cursorY' < VGA_Height
           /\ pc' \in {"print", "scroll"}
           /\ dst' \in 0 .. VGA_Width * VGA_Height
           /\ pc' = "scroll" => dst' = 0 /\ cursorY' = VGA_Height
<1>1. VGA_Width \in Nat /\ VGA_Width > 0 /\ VGA_Height \in Nat /\ VGA_Height > 0
  BY Sizes
<1>2. 0 \in 0 .. VGA_Width * VGA_Height
  BY Sizes
<1>3. dst \in 0 .. VGA_Width * VGA_Height
  BY DEF TypeOK
<1> DEFINE line == IF x >= VGA_Width THEN y + 1 ELSE y
<1>4. /\ cursorX' = IF x >= VGA_Width THEN 0 ELSE x
      /\ cursorY' = line
      /\ IF line >= VGA_Height THEN pc' = "scroll" /\ dst' = 0 ELSE pc' = pc /\ dst' = dst
  BY DEF MoveCursor
<1>5. line \in 0 .. VGA_Height
  BY <1>1
<1> HIDE DEF line
<1>6. CASE line >= VGA_Height
  BY <1>1, <1>2, <1>4, <1>5, <1>6
<1>7. CASE ~(line >= VGA_Height)
  BY <1>1, <1>3, <1>4, <1>5, <1>7
<1> QED  BY <1>6, <1>7

\* What a round consumes is a symbol, and symbols remain.
LEMMA NextCharOK ==
    ASSUME TypeOK, NEW c, NextChar(c)
    PROVE  text' \in Seq(Symbol) /\ hwCursor' \in Cells /\ pc = "print" /\ cursorY < VGA_Height
BY HeadTailProperties DEF TypeOK, NextChar, Symbol

LEMMA CursorOnScreen ==
    ASSUME TypeOK, pc # "scroll"
    PROVE  cursorX \in Xs /\ cursorY \in Ys /\ GetSlot(cursorX, cursorY) \in Cells
<1>1. cursorX \in Xs /\ cursorY \in Ys
  BY Sizes DEF TypeOK, Xs, Ys
<1> QED  BY <1>1, SlotsAreCells

LEMMA ScreenInit == Init => ScreenInv
<1> SUFFICES ASSUME Init PROVE ScreenInv
  OBVIOUS
<1>1. 0 \in 0 .. VGA_Width - 1 /\ 0 \in 0 .. VGA_Height /\ 0 < VGA_Height
  BY Sizes
<1>2. 0 \in 0 .. VGA_Width * VGA_Height
  BY Sizes
<1>3. <<>> \in Seq(Printable \union {"TAB", "CR", "LF"})
  OBVIOUS
<1> QED  BY <1>1, <1>2, <1>3 DEF Init, ScreenInv, TypeOK, WritesOnScreen

\* The operations that begin and end outside of the loop.
LEMMA CallsKeepScreenInv ==
    ASSUME ScreenInv,
           \/ \E p \in Places : vtSetCursorPos(p[1], p[2])
           \/ vtClearScreen
           \/ \E s \in Texts : vtPrintColoredString(s)
           \/ PrintDone
           \/ UNCHANGED vars
    PROVE  ScreenInv'
<1> USE DEF ScreenInv, TypeOK, WritesOnScreen
<1>1. CASE \E p \in Places : vtSetCursorPos(p[1], p[2])
  <2>1. PICK p \in Places : vtSetCursorPos(p[1], p[2])
    BY <1>1
  <2>2. p[1] \in Xs /\ p[2] \in Ys
    BY ScreenAssumption DEF Xs, Ys
  <2>3. GetSlot(p[1], p[2]) \in Cells
    BY <2>2, SlotsAreCells
  <2> QED  BY <2>1, <2>2, <2>3, Sizes DEF vtSetCursorPos, SyncCursorPos, Xs, Ys
<1>2. CASE vtClearScreen
  <2>1. 0 \in Xs /\ 0 \in Ys
    BY Sizes DEF Xs, Ys
  <2>2. GetSlot(0, 0) \in Cells
    BY <2>1, SlotsAreCells
  <2> QED  BY <1>2, <2>1, <2>2, Sizes DEF vtClearScreen, SyncCursorPos, Xs, Ys
<1>3. CASE \E s \in Texts : vtPrintColoredString(s)
  BY <1>3, ScreenAssumption DEF vtPrintColoredString
<1>4. CASE PrintDone
  BY <1>4, CursorOnScreen DEF PrintDone, SyncCursorPos
<1>5. CASE UNCHANGED vars
  BY <1>5 DEF vars
<1> QED  BY <1>1, <1>2, <1>3, <1>4, <1>5

\* The rounds of the loop.
LEMMA RoundsKeepScreenInv ==
    ASSUME ScreenInv, PrintTab \/ PrintReturn \/ PrintNewline \/ \E c \in Printable : PrintChar(c)
    PROVE  ScreenInv'
<1>1. /\ TypeOK /\ ~stray
      /\ cursorX \in 0 .. VGA_Width - 1
      /\ cursorY \in 0 .. VGA_Height
  BY DEF ScreenInv, TypeOK, WritesOnScreen
<1>2. VGA_Width \in Nat /\ VGA_Width > 0 /\ VGA_Height \in Nat /\ VGA_Height > 0
  BY Sizes
<1>3. screen \in [Cells -> Cell] /\ stray \in BOOLEAN
  BY <1>1 DEF TypeOK, Cell
<1>4. ASSUME NEW c, NextChar(c), NEW x \in Nat, NEW y \in 0 .. VGA_Height, x >= VGA_Width => y < VGA_Height,
             MoveCursor(x, y), screen' \in [Cells -> Cell], stray' = stray
      PROVE  ScreenInv'
  <2>1. pc = "print" /\ text' \in Seq(Symbol) /\ hwCursor' \in Cells
    BY <1>1, <1>4, NextCharOK
  <2>2. /\ cursorX' \in 0 .. VGA_Width - 1
        /\ cursorY' \in 0 .. VGA_Height
        /\ pc' = "scroll" \/ cursorY' < VGA_Height
        /\ pc' \in {"print", "scroll"}
        /\ dst' \in 0 .. VGA_Width * VGA_Height
    BY <1>1, <1>4, <2>1, MoveCursorOK
  <2>3. screen' \in [Cells -> Cell] /\ stray' \in BOOLEAN /\ ~stray'
    BY <1>1, <1>3, <1>4
  <2> QED  BY <2>1, <2>2, <2>3 DEF ScreenInv, TypeOK, WritesOnScreen, Cell, Symbol
<1>5. CASE PrintTab
  <2>1. NextChar("TAB") /\ screen' = screen /\ stray' = stray
    BY <1>5 DEF PrintTab
  <2>2. cursorY < VGA_Height
    BY <1>1, <2>1, NextCharOK
  <2>3. cursorX + (TabStop - (cursorX % TabStop)) \in Nat
    BY <1>1, TabStops
  <2>4. MoveCursor(cursorX + (TabStop - (cursorX % TabStop)), cursorY)
    BY <1>5 DEF PrintTab
  <2> DEFINE x == cursorX + (TabStop - (cursorX % TabStop))
  <2> HIDE DEF x
  <2>5. x \in Nat /\ MoveCursor(x, cursorY) /\ (x >= VGA_Width => cursorY < VGA_Height)
    BY <2>2, <2>3, <2>4 DEF x
  <2> QED  BY <1>1, <1>3, <1>4, <2>1, <2>5
<1>6. CASE PrintReturn
  <2>1. NextChar("CR") /\ screen' = screen /\ stray' = stray /\ MoveCursor(0, cursorY)
    BY <1>6 DEF PrintReturn
  <2>2. 0 >= VGA_Width => cursorY < VGA_Height
    BY <1>2
  <2> QED  BY <1>1, <1>3, <1>4, <2>1, <2>2
<1>7. CASE PrintNewline
  <2>1. NextChar("LF") /\ screen' = screen /\ stray' = stray /\ MoveCursor(0, cursorY + 1)
    BY <1>7 DEF PrintNewline
  <2>2. cursorY < VGA_Height
    BY <1>1, <2>1, NextCharOK
  <2>3. cursorY + 1 \in 0 .. VGA_Height /\ (0 >= VGA_Width => cursorY + 1 < VGA_Height)
    BY <1>1, <1>2, <2>2
  <2> QED  BY <1>1, <1>3, <1>4, <2>1, <2>3
<1>8. CASE \E c \in Printable : PrintChar(c)
  <2>1. PICK c \in Printable : PrintChar(c)
    BY <1>8
  <2>2. NextChar(c) /\ MoveCursor(cursorX + 1, cursorY)
    BY <2>1 DEF PrintChar
  <2>3. pc = "print" /\ cursorY < VGA_Height
    BY <1>1, <2>2, NextCharOK
  <2>4. GetSlot(cursorX, cursorY) \in Cells
    BY <1>1, <2>3, CursorOnScreen
  <2>5. screen' = [screen EXCEPT ![GetSlot(cursorX, cursorY)] = c] /\ stray' = stray
    BY <2>1, <2>4 DEF PrintChar
  <2>6. screen' \in [Cells -> Cell]
    BY <1>3, <2>5 DEF Cell
  <2>7. cursorX + 1 \in Nat /\ (cursorX + 1 >= VGA_Width => cursorY < VGA_Height)
    BY <1>1, <2>3
  <2> QED  BY <1>1, <1>4, <2>2, <2>5, <2>6, <2>7
<1> QED  BY <1>5, <1>6, <1>7, <1>8

\* The steps of a scroll.
LEMMA ScrollKeepsScreenInv ==
    ASSUME ScreenInv, ScrollCopy \/ ScrollBlank \/ ScrollDone
    PROVE  ScreenInv'
<1>1. /\ VGA_Width \in Nat /\ VGA_Width > 0
      /\ VGA_Height \in Nat /\ VGA_Height > 0
      /\ VGA_Width * VGA_Height \in Nat
      /\ charCount \in Nat
      /\ charCount + VGA_Width = VGA_Width * VGA_Height
  BY Sizes
<1>2. /\ screen \in [Cells -> Cell]
      /\ dst \in 0 .. VGA_Width * VGA_Height
  BY DEF ScreenInv, TypeOK, Cell
<1> DEFINE N == VGA_Width * VGA_Height
<1>3. Cells = 0 .. N - 1
  BY DEF Cells
<1>4. N \in Nat /\ charCount + VGA_Width = N /\ dst \in 0 .. N
  BY <1>1, <1>2
<1> HIDE DEF N
<1>5. CASE ScrollCopy
  <2>1. dst < charCount /\ screen' = [screen EXCEPT ![dst] = screen[dst + VGA_Width]] /\ dst' = dst + 1
    BY <1>5 DEF ScrollCopy
  <2>2. dst + VGA_Width \in Cells /\ dst' \in 0 .. N
    BY <1>1, <1>3, <1>4, <2>1
  <2>3. screen' \in [Cells -> Cell]
    BY <1>2, <2>1, <2>2
  <2> QED  BY <1>5, <2>2, <2>3 DEF ScrollCopy, ScreenInv, TypeOK, WritesOnScreen, Cell, N
<1>6. CASE ScrollBlank
  <2>1. dst \in charCount .. charCount + VGA_Width - 1 /\ screen' = [screen EXCEPT ![dst] = VGA_BlankChar] /\ dst' = dst + 1
    BY <1>6 DEF ScrollBlank
  <2>2. dst' \in 0 .. N
    BY <1>1, <1>4, <2>1
  <2>3. screen' \in [Cells -> Cell]
    BY <1>2, <2>1 DEF Cell
  <2> QED  BY <1>6, <2>2, <2>3 DEF ScrollBlank, ScreenInv, TypeOK, WritesOnScreen, Cell, N
<1>7. CASE ScrollDone
  <2>1. VGA_Height - 1 \in 0 .. VGA_Height /\ VGA_Height - 1 < VGA_Height
    BY <1>1
  <2> QED  BY <1>7, <2>1 DEF ScrollDone, ScreenInv, TypeOK, WritesOnScreen
<1> QED  BY <1>5, <1>6, <1>7

LEMMA ScreenNext == ScreenInv /\ [Next]_vars => ScreenInv'
<1> SUFFICES ASSUME ScreenInv, [Next]_vars PROVE ScreenInv'
  OBVIOUS
<1> QED  BY CallsKeepScreenInv, RoundsKeepScreenInv, ScrollKeepsScreenInv DEF Next, PrintStep

(***************************************************************************)
(* Printing keeps the cursor on the screen, or one row below it while the  *)
(* screen scrolls, and writes no cell beside the screen: for every size of *)
(* screen, every tab stop and every string.                                *)
(***************************************************************************)
THEOREM ScreenTypeOK == Spec => []TypeOK
<1>1. ScreenInv => TypeOK
  BY DEF ScreenInv
<1> QED  BY ScreenInit, ScreenNext, <1>1, PTL DEF Spec

THEOREM PrintsOnScreen == Spec => []WritesOnScreen
<1>1. ScreenInv => WritesOnScreen
  BY DEF ScreenInv
<1> QED  BY ScreenInit, ScreenNext, <1>1, PTL DEF Spec

\* A round never ends a call.
LEMMA RoundsGoOn ==
    ASSUME TypeOK, PrintTab \/ PrintReturn \/ PrintNewline \/ \E c \in Printable : PrintChar(c)
    PROVE  pc' # "idle"
<1>1. \E x, y : MoveCursor(x, y)
  BY DEF PrintTab, PrintReturn, PrintNewline, PrintChar
<1>2. pc = "print"
  BY DEF PrintTab, PrintReturn, PrintNewline, PrintChar, NextChar
<1>3. pc' = "scroll" \/ pc' = pc
  BY <1>1 DEF MoveCursor
<1> QED  BY <1>2, <1>3

(***************************************************************************)
(* Whatever a call prints, the hardware cursor is where the kernel has the *)
(* cursor when it returns, and on the screen.                              *)
(***************************************************************************)
THEOREM HardwareCursorFollows == Spec => CursorFollows
<1>1. ASSUME TypeOK, Next, pc' = "idle"
      PROVE  hwCursor' = GetSlot(cursorX', cursorY') /\ hwCursor' \in Cells
  <2>1. CASE \E p \in Places : vtSetCursorPos(p[1], p[2])
    <3>1. PICK p \in Places : vtSetCursorPos(p[1], p[2])
      BY <2>1
    <3>2. p[1] \in Xs /\ p[2] \in Ys
      BY ScreenAssumption DEF Xs, Ys
    <3> QED  BY <3>1, <3>2, SlotsAreCells DEF vtSetCursorPos, SyncCursorPos
  <2>2. CASE vtClearScreen
    <3>1. 0 \in Xs /\ 0 \in Ys
      BY Sizes DEF Xs, Ys
    <3> QED  BY <2>2, <3>1, SlotsAreCells DEF vtClearScreen, SyncCursorPos
  <2>3. CASE PrintDone
    <3>1. GetSlot(cursorX, cursorY) \in Cells
      BY <1>1, <2>3, CursorOnScreen DEF PrintDone
    <3> QED  BY <2>3, <3>1 DEF PrintDone, SyncCursorPos
  <2>4. CASE \E s \in Texts : vtPrintColoredString(s)
    BY <1>1, <2>4 DEF vtPrintColoredString
  <2>5. CASE PrintTab \/ PrintReturn \/ PrintNewline \/ \E c \in Printable : PrintChar(c)
    BY <1>1, <2>5, RoundsGoOn
  <2>6. CASE ScrollCopy \/ ScrollBlank \/ ScrollDone
    BY <1>1, <2>6 DEF ScrollCopy, ScrollBlank, ScrollDone
  <2> QED  BY <1>1, <2>1, <2>2, <2>3, <2>4, <2>5, <2>6 DEF Next, PrintStep
<1>2. TypeOK /\ [Next]_vars =>
         [pc' = "idle" => hwCursor' = GetSlot(cursorX', cursorY') /\ hwCursor' \in Cells]_vars
  BY <1>1
<1> QED  BY <1>2, ScreenTypeOK, PTL DEF Spec, CursorFollows

-----------------------------------------------------------------------------
\* What the cells of `cells' show, row by row, and what is left after a line feed.
Rows(cells)    == [y \in 0 .. VGA_Height - 1 |-> [x \in 0 .. VGA_Width - 1 |-> cells[GetSlot(x, y)]]]
Advanced(page) == [y \in 0 .. VGA_Height - 1 |->
                      IF y = VGA_Height - 1 THEN Paper!BlankRow ELSE page[y + 1]]

Page  == [y \in 0 .. VGA_Height - 1 |-> [x \in 0 .. VGA_Width - 1 |-> Shown(GetSlot(x, y))]]
Line  == IF pc = "scroll" THEN VGA_Height - 1 ELSE cursorY
Busy  == pc # "idle"

LEMMA PageAtRest ==
    /\ pc # "scroll" => Page = Rows(screen)
    /\ pc' # "scroll" => Page' = Rows(screen')
BY DEF Page, Rows, Shown

\* A scroll that begins shows every row moved up.
LEMMA PageAdvances ==
    ASSUME pc' = "scroll", dst' = 0
    PROVE  Page' = Advanced(Rows(screen'))
<1>1. \A i \in Cells : Shown(i)' = IF i < charCount THEN screen'[i + VGA_Width] ELSE VGA_BlankChar
  BY DEF Shown, Cells
<1>2. ASSUME NEW y \in 0 .. VGA_Height - 1
      PROVE  [x \in 0 .. VGA_Width - 1 |-> Shown(GetSlot(x, y))'] = Advanced(Rows(screen'))[y]
  <2>1. ASSUME NEW x \in 0 .. VGA_Width - 1
        PROVE  Shown(GetSlot(x, y))' = IF y = VGA_Height - 1 THEN VGA_BlankChar ELSE screen'[GetSlot(x, y + 1)]
    <3>1. /\ GetSlot(x, y) \in Cells
          /\ GetSlot(x, y) < charCount <=> y < VGA_Height - 1
          /\ GetSlot(x, y) + VGA_Width = GetSlot(x, y + 1)
      BY SlotsAreCells DEF Xs, Ys
    <3>2. y < VGA_Height - 1 <=> y # VGA_Height - 1
      BY Sizes
    <3>3. Shown(GetSlot(x, y))' =
             IF GetSlot(x, y) < charCount THEN screen'[GetSlot(x, y) + VGA_Width] ELSE VGA_BlankChar
      BY <1>1, <3>1
    <3> QED  BY <3>1, <3>2, <3>3
  <2>2. y # VGA_Height - 1 => y + 1 \in 0 .. VGA_Height - 1
    BY Sizes
  <2>3. Advanced(Rows(screen'))[y] =
           [x \in 0 .. VGA_Width - 1 |->
               IF y = VGA_Height - 1 THEN VGA_BlankChar ELSE screen'[GetSlot(x, y + 1)]]
    <3>1. CASE y = VGA_Height - 1
      BY <3>1 DEF Advanced, Paper!BlankRow
    <3>2. CASE y # VGA_Height - 1
      BY <2>2, <3>2 DEF Advanced, Rows
    <3> QED  BY <3>1, <3>2
  <2> QED  BY <2>1, <2>3
<1>3. Page' = [y \in 0 .. VGA_Height - 1 |-> [x \in 0 .. VGA_Width - 1 |-> Shown(GetSlot(x, y))']]
  BY DEF Page
<1> QED  BY <1>2, <1>3 DEF Advanced

\* The steps of a scroll change nothing that is shown.
LEMMA ScrollShowsTheSame ==
    ASSUME TypeOK, ScrollCopy \/ ScrollBlank \/ ScrollDone
    PROVE  Page' = Page
<1>1. /\ VGA_Width \in Nat /\ VGA_Width > 0
      /\ charCount \in Nat
      /\ charCount + VGA_Width = VGA_Width * VGA_Height
      /\ VGA_Width * VGA_Height \in Nat
  BY Sizes
<1>2. screen \in [Cells -> Cell] /\ dst \in 0 .. VGA_Width * VGA_Height
  BY DEF TypeOK, Cell
<1>3. pc = "scroll"
  BY DEF ScrollCopy, ScrollBlank, ScrollDone
<1> DEFINE N == VGA_Width * VGA_Height
<1>4. Cells = 0 .. N - 1 /\ N \in Nat /\ charCount + VGA_Width = N /\ dst \in 0 .. N
  BY <1>1, <1>2 DEF Cells
<1> HIDE DEF N
<1>5. ASSUME NEW i \in Cells PROVE Shown(i)' = Shown(i)
  <2>1. CASE ScrollCopy
    <3>1. /\ dst < charCount /\ dst' = dst + 1 /\ pc' = "scroll"
          /\ screen' = [screen EXCEPT ![dst] = screen[dst + VGA_Width]]
      BY <1>3, <2>1 DEF ScrollCopy
    <3>2. dst \in Cells /\ (i < charCount => i + VGA_Width \in Cells)
      BY <1>1, <1>4, <3>1
    <3>3. CASE i = dst
      BY <1>1, <1>2, <1>3, <1>4, <3>1, <3>2, <3>3 DEF Shown
    <3>4. CASE i < dst
      BY <1>1, <1>2, <1>3, <1>4, <3>1, <3>2, <3>4 DEF Shown
    <3>5. CASE i > dst
      <4>1. i + VGA_Width # dst /\ ~(i < dst) /\ ~(i < dst + 1)
        BY <1>1, <1>4, <3>5
      <4> QED  BY <1>1, <1>2, <1>3, <3>1, <3>2, <4>1 DEF Shown
    <3> QED  BY <1>4, <3>3, <3>4, <3>5
  <2>2. CASE ScrollBlank
    <3>1. /\ dst >= charCount /\ dst < N /\ dst' = dst + 1 /\ pc' = "scroll"
          /\ screen' = [screen EXCEPT ![dst] = VGA_BlankChar]
      BY <1>1, <1>3, <1>4, <2>2 DEF ScrollBlank
    <3>2. dst \in Cells
      BY <1>4, <3>1
    <3>3. CASE i = dst
      BY <1>1, <1>2, <1>3, <1>4, <3>1, <3>2, <3>3 DEF Shown
    <3>4. CASE i < dst
      BY <1>1, <1>2, <1>3, <1>4, <3>1, <3>2, <3>4 DEF Shown
    <3>5. CASE i > dst
      <4>1. ~(i < charCount) /\ ~(i < dst) /\ ~(i < dst + 1)
        BY <1>1, <1>4, <3>1, <3>5
      <4> QED  BY <1>2, <1>3, <3>1, <4>1 DEF Shown
    <3> QED  BY <1>4, <3>3, <3>4, <3>5
  <2>3. CASE ScrollDone
    <3>1. dst = N /\ pc' = "print" /\ screen' = screen
      BY <1>4, <2>3 DEF ScrollDone
    <3> QED  BY <1>3, <1>4, <3>1 DEF Shown
  <2> QED  BY <2>1, <2>2, <2>3
<1>6. \A x \in 0 .. VGA_Width - 1, y \in 0 .. VGA_Height - 1 : GetSlot(x, y) \in Cells
  BY SlotsAreCells DEF Xs, Ys
<1>7. \A x \in 0 .. VGA_Width - 1, y \in 0 .. VGA_Height - 1 : Shown(GetSlot(x, y))' = Shown(GetSlot(x, y))
  BY <1>5, <1>6
<1>8. Page' = [y \in 0 .. VGA_Height - 1 |-> [x \in 0 .. VGA_Width - 1 |-> Shown(GetSlot(x, y))']]
  BY DEF Page
<1> QED  BY <1>7, <1>8 DEF Page

\* The character goes to the cell the cursor is on, and to no other.
LEMMA TypedPage ==
    ASSUME TypeOK, pc # "scroll", NEW c, screen' = [screen EXCEPT ![GetSlot(cursorX, cursorY)] = c]
    PROVE  Rows(screen') = [Rows(screen) EXCEPT ![cursorY][cursorX] = c]
<1>1. cursorX \in Xs /\ cursorY \in Ys /\ GetSlot(cursorX, cursorY) \in Cells
  BY CursorOnScreen
<1>2. screen \in [Cells -> Cell]
  BY DEF TypeOK, Cell
<1>3. ASSUME NEW x \in Xs, NEW y \in Ys
      PROVE  screen'[GetSlot(x, y)] = IF x = cursorX /\ y = cursorY THEN c ELSE screen[GetSlot(x, y)]
  <2>1. GetSlot(x, y) \in Cells
    BY SlotsAreCells
  <2>2. GetSlot(x, y) = GetSlot(cursorX, cursorY) <=> x = cursorX /\ y = cursorY
    BY <1>1, SlotsDiffer
  <2> QED  BY <1>2, <2>1, <2>2
<1> DEFINE was == Rows(screen)
<1>4. was = [y \in Ys |-> [x \in Xs |-> screen[GetSlot(x, y)]]]
  BY DEF Rows, Xs, Ys
<1>5. Rows(screen') = [y \in Ys |-> [x \in Xs |-> screen'[GetSlot(x, y)]]]
  BY DEF Rows, Xs, Ys
<1>6. [was EXCEPT ![cursorY][cursorX] = c] =
         [y \in Ys |-> [x \in Xs |-> IF x = cursorX /\ y = cursorY THEN c ELSE screen[GetSlot(x, y)]]]
  <2> HIDE DEF was
  <2> QED  BY <1>1, <1>4
<1> QED  BY <1>3, <1>5, <1>6

\* A round moves the cursor as the terminal does, and scrolls when it does.
LEMMA MovesAsTerminal ==
    ASSUME TypeOK, pc = "print", NEW x \in Nat, MoveCursor(x, cursorY)
    PROVE  /\ x < VGA_Width => cursorX' = x /\ Page' = Rows(screen') /\ Line' = Line
           /\ x >= VGA_Width =>
                 /\ cursorX' = 0
                 /\ Line' = IF Line = VGA_Height - 1 THEN Line ELSE Line + 1
                 /\ Page' = IF Line = VGA_Height - 1 THEN Advanced(Rows(screen')) ELSE Rows(screen')
<1>1. VGA_Width \in Nat /\ VGA_Width > 0 /\ VGA_Height \in Nat /\ VGA_Height > 0
  BY Sizes
<1>2. cursorY \in 0 .. VGA_Height /\ cursorY < VGA_Height /\ Line = cursorY
  BY DEF TypeOK, Line
<1>3. CASE x < VGA_Width
  <2>1. cursorX' = x /\ cursorY' = cursorY /\ pc' = "print"
    BY <1>1, <1>2, <1>3 DEF MoveCursor
  <2> QED  BY <1>1, <1>2, <1>3, <2>1, PageAtRest DEF Line
<1>4. CASE x >= VGA_Width
  <2>1. cursorX' = 0 /\ cursorY' = cursorY + 1
    BY <1>4 DEF MoveCursor
  <2>2. CASE cursorY = VGA_Height - 1
    <3>1. pc' = "scroll" /\ dst' = 0
      BY <1>1, <1>2, <1>4, <2>2 DEF MoveCursor
    <3> QED  BY <1>1, <1>2, <1>4, <2>1, <2>2, <3>1, PageAdvances DEF Line
  <2>3. CASE cursorY # VGA_Height - 1
    <3>1. pc' = "print"
      BY <1>1, <1>2, <1>4, <2>3 DEF MoveCursor
    <3> QED  BY <1>1, <1>2, <1>4, <2>1, <2>3, <3>1, PageAtRest DEF Line
  <2> QED  BY <2>2, <2>3
<1> QED  BY <1>1, <1>3, <1>4

LEMMA MoveToIs ==
    ASSUME NEW x, NEW page
    PROVE  Paper!MoveTo(x, page) <=>
             IF x < VGA_Width
             THEN cursorX' = x /\ Page' = page /\ Line' = Line
             ELSE Paper!LineFeed(page)
BY DEF Paper!MoveTo, Page, Line

LEMMA LineFeedIs ==
    ASSUME NEW page
    PROVE  Paper!LineFeed(page) <=>
             /\ cursorX' = 0
             /\ Line' = IF Line = VGA_Height - 1 THEN Line ELSE Line + 1
             /\ Page' = IF Line = VGA_Height - 1 THEN Advanced(page) ELSE page
BY DEF Paper!LineFeed, Page, Line, Advanced

LEMMA MovesTo ==
    ASSUME TypeOK, pc = "print", NEW x \in Nat, MoveCursor(x, cursorY)
    PROVE  Paper!MoveTo(x, Rows(screen'))
<1>1. VGA_Width \in Nat
  BY Sizes
<1> QED  BY <1>1, MovesAsTerminal, MoveToIs, LineFeedIs

\* A newline is a round that ends on the next row.
LEMMA MovesDown ==
    ASSUME TypeOK, pc = "print", MoveCursor(0, cursorY + 1)
    PROVE  Paper!LineFeed(Rows(screen'))
<1>1. VGA_Width \in Nat /\ VGA_Width > 0 /\ VGA_Height \in Nat /\ VGA_Height > 0
  BY Sizes
<1>2. cursorY \in 0 .. VGA_Height /\ cursorY < VGA_Height /\ Line = cursorY
  BY DEF TypeOK, Line
<1>3. cursorX' = 0 /\ cursorY' = cursorY + 1
  BY <1>1 DEF MoveCursor
<1>4. CASE cursorY = VGA_Height - 1
  <2>1. pc' = "scroll" /\ dst' = 0
    BY <1>1, <1>2, <1>4 DEF MoveCursor
  <2> QED  BY <1>1, <1>2, <1>3, <1>4, <2>1, PageAdvances, LineFeedIs DEF Line
<1>5. CASE cursorY # VGA_Height - 1
  <2>1. pc' = "print"
    BY <1>1, <1>2, <1>5 DEF MoveCursor
  <2> QED  BY <1>1, <1>2, <1>3, <1>5, <2>1, PageAtRest, LineFeedIs DEF Line
<1> QED  BY <1>4, <1>5

LEMMA Consumes ==
    ASSUME NEW c, NextChar(c), \E x, y : MoveCursor(x, y)
    PROVE  Paper!Consume(c)
<1>1. pc' = "print" \/ pc' = "scroll"
  BY DEF NextChar, MoveCursor
<1> QED  BY <1>1 DEF NextChar, Paper!Consume

-----------------------------------------------------------------------------
LEMMA StartsAsTerminal == Init => Paper!TInit
<1> SUFFICES ASSUME Init PROVE Paper!TInit
  OBVIOUS
<1>1. pc = "idle" /\ screen \in [Cells -> Cell]
  BY DEF Init, Cell
<1>2. \A x \in 0 .. VGA_Width - 1, y \in 0 .. VGA_Height - 1 : screen[GetSlot(x, y)] \in Cell
  BY <1>1, SlotsAreCells DEF Xs, Ys
<1>3. Page = Rows(screen)
  BY <1>1, PageAtRest
<1>4. Rows(screen) \in [0 .. VGA_Height - 1 -> [0 .. VGA_Width - 1 -> Printable \union {VGA_BlankChar}]]
  BY <1>2 DEF Rows, Cell
<1> QED  BY <1>1, <1>3, <1>4 DEF Paper!TInit, Init, Page

\* Each call, as the terminal sees it.
LEMMA CallsAsTerminal ==
    ASSUME TypeOK
    PROVE  /\ \A p \in Places : vtSetCursorPos(p[1], p[2]) => Paper!Place
           /\ vtClearScreen => Paper!Clear
           /\ \A s \in Texts : vtPrintColoredString(s) => Paper!Begin(s)
           /\ PrintDone => Paper!Finish
<1>1. ASSUME NEW p \in Places, vtSetCursorPos(p[1], p[2]) PROVE Paper!Place
  <2>1. p[1] \in 0 .. VGA_Width - 1 /\ p[2] \in 0 .. VGA_Height - 1
    BY ScreenAssumption
  <2>2. pc = "idle" /\ pc' = pc /\ screen' = screen /\ cursorX' = p[1] /\ cursorY' = p[2] /\ text' = text
    BY <1>1 DEF vtSetCursorPos
  <2>3. Page' = Page
    BY <2>2, PageAtRest
  <2> QED  BY <2>1, <2>2, <2>3 DEF Paper!Place, Page
<1>2. ASSUME vtClearScreen PROVE Paper!Clear
  <2>1. pc = "idle" /\ pc' = pc /\ cursorX' = 0 /\ cursorY' = 0 /\ text' = text
    BY <1>2 DEF vtClearScreen
  <2>2. screen' = [i \in Cells |-> VGA_BlankChar]
    BY <1>2 DEF vtClearScreen
  <2>3. \A x \in 0 .. VGA_Width - 1, y \in 0 .. VGA_Height - 1 : screen'[GetSlot(x, y)] = VGA_BlankChar
    BY <2>2, SlotsAreCells DEF Xs, Ys
  <2>4. Rows(screen') = Paper!BlankRows
    BY <2>3 DEF Rows, Paper!BlankRows, Paper!BlankRow
  <2>5. Page' = Paper!BlankRows
    BY <2>1, <2>4, PageAtRest
  <2> QED  BY <2>1, <2>5 DEF Paper!Clear, Page
<1>3. ASSUME NEW s \in Texts, vtPrintColoredString(s) PROVE Paper!Begin(s)
  <2>1. /\ pc = "idle" /\ pc' = "print" /\ text' = s
        /\ screen' = screen /\ cursorX' = cursorX /\ cursorY' = cursorY
    BY <1>3 DEF vtPrintColoredString
  <2>2. Page' = Page
    BY <2>1, PageAtRest
  <2> QED  BY <2>1, <2>2 DEF Paper!Begin, Page
<1>4. ASSUME PrintDone PROVE Paper!Finish
  <2>1. /\ pc = "print" /\ pc' = "idle" /\ text = <<>> /\ text' = text
        /\ screen' = screen /\ cursorX' = cursorX /\ cursorY' = cursorY
    BY <1>4 DEF PrintDone
  <2>2. Page' = Page
    BY <2>1, PageAtRest
  <2> QED  BY <2>1, <2>2 DEF Paper!Finish, Page
<1> QED  BY <1>1, <1>2, <1>3, <1>4

\* Each round of the loop, as the terminal sees it.
LEMMA RoundsAsTerminal ==
    ASSUME TypeOK
    PROVE  /\ PrintTab => Paper!Tab
           /\ PrintReturn => Paper!CarriageReturn
           /\ PrintNewline => Paper!Newline
           /\ \A c \in Printable : PrintChar(c) => Paper!TypeChar(c)
<1>1. /\ pc # "scroll" => Page = Rows(screen)
      /\ cursorX \in Nat
  BY PageAtRest DEF TypeOK
<1>2. ASSUME PrintTab PROVE Paper!Tab
  <2> DEFINE x == cursorX + (TabStop - (cursorX % TabStop))
  <2>1. NextChar("TAB") /\ MoveCursor(x, cursorY) /\ pc = "print" /\ screen' = screen
    BY <1>2 DEF PrintTab, NextChar
  <2>2. x = ((cursorX \div TabStop) + 1) * TabStop /\ x \in Nat
    BY <1>1, TabStops
  <2> HIDE DEF x
  <2>3. Paper!MoveTo(x, Page)
    BY <1>1, <2>1, <2>2, MovesTo
  <2>4. Paper!Consume("TAB")
    BY <2>1, Consumes
  <2> QED  BY <2>2, <2>3, <2>4 DEF Paper!Tab, Page
<1>3. ASSUME PrintReturn PROVE Paper!CarriageReturn
  <2>1. NextChar("CR") /\ MoveCursor(0, cursorY) /\ pc = "print" /\ screen' = screen
    BY <1>3 DEF PrintReturn, NextChar
  <2>2. Paper!MoveTo(0, Page)
    BY <1>1, <2>1, MovesTo
  <2>3. Paper!Consume("CR")
    BY <2>1, Consumes
  <2> QED  BY <2>2, <2>3 DEF Paper!CarriageReturn, Page
<1>4. ASSUME PrintNewline PROVE Paper!Newline
  <2>1. NextChar("LF") /\ MoveCursor(0, cursorY + 1) /\ pc = "print" /\ screen' = screen
    BY <1>4 DEF PrintNewline, NextChar
  <2>2. Paper!LineFeed(Page)
    BY <1>1, <2>1, MovesDown
  <2>3. Paper!Consume("LF")
    BY <2>1, Consumes
  <2> QED  BY <2>2, <2>3 DEF Paper!Newline, Page
<1>5. ASSUME NEW c \in Printable, PrintChar(c) PROVE Paper!TypeChar(c)
  <2>1. NextChar(c) /\ MoveCursor(cursorX + 1, cursorY) /\ pc = "print"
    BY <1>5 DEF PrintChar, NextChar
  <2>2. screen' = [screen EXCEPT ![GetSlot(cursorX, cursorY)] = c]
    BY <1>5, <2>1, CursorOnScreen DEF PrintChar
  <2>3. Rows(screen') = [Page EXCEPT ![Line][cursorX] = c]
    BY <1>1, <2>1, <2>2, TypedPage DEF Line
  <2> DEFINE x == cursorX + 1
  <2>6. x \in Nat /\ MoveCursor(x, cursorY)
    BY <1>1, <2>1
  <2> HIDE DEF x
  <2>7. Paper!MoveTo(x, Rows(screen'))
    BY <2>1, <2>6, MovesTo
  <2>4. Paper!MoveTo(cursorX + 1, [Page EXCEPT ![Line][cursorX] = c])
    BY <2>3, <2>7 DEF x
  <2>5. Paper!Consume(c)
    BY <2>1, Consumes
  <2> QED  BY <2>4, <2>5 DEF Paper!TypeChar, Page, Line
<1> QED  BY <1>2, <1>3, <1>4, <1>5

\* A scroll has been seen already.
LEMMA ScrollUnseen ==
    ASSUME TypeOK, ScrollCopy \/ ScrollBlank \/ ScrollDone
    PROVE  UNCHANGED Paper!tvars
<1>1. Page' = Page
  BY ScrollShowsTheSame
<1>2. Line' = Line /\ cursorX' = cursorX /\ (pc' # "idle") = (pc # "idle") /\ text' = text
  BY DEF ScrollCopy, ScrollBlank, ScrollDone, Line
<1> QED  BY <1>1, <1>2 DEF Paper!tvars, Page, Line

(***************************************************************************)
(* The screen is the terminal: a window over an endless sheet, whatever is *)
(* printed and however often it scrolls, for screens of every size; cells  *)
(* are read a row further down while ScrollScreenOne is at work.           *)
(***************************************************************************)
THEOREM ScreenImplementsTerminal == Spec => ImplementsTerminal
<1>1. ASSUME TypeOK, [Next]_vars PROVE [Paper!TNext]_Paper!tvars
  <2>1. CASE UNCHANGED vars
    <3>1. pc' = pc /\ screen' = screen /\ dst' = dst
      BY <2>1 DEF vars
    <3>2. Page' = Page
      BY <3>1 DEF Page, Shown
    <3> QED  BY <2>1, <3>2 DEF vars, Paper!tvars, Page
  <2>2. CASE ScrollCopy \/ ScrollBlank \/ ScrollDone
    BY <1>1, <2>2, ScrollUnseen
  <2>3. CASE PrintTab \/ PrintReturn \/ PrintNewline \/ \E c \in Printable : PrintChar(c)
    BY <1>1, <2>3, RoundsAsTerminal DEF Paper!TNext
  <2>4. CASE PrintDone \/ vtClearScreen \/ (\E p \in Places : vtSetCursorPos(p[1], p[2]))
    BY <1>1, <2>4, CallsAsTerminal DEF Paper!TNext
  <2>5. CASE \E s \in Texts : vtPrintColoredString(s)
    BY <1>1, <2>5, CallsAsTerminal DEF Paper!TNext
  <2> QED  BY <1>1, <2>1, <2>2, <2>3, <2>4, <2>5 DEF Next, PrintStep
<1> QED  BY <1>1, StartsAsTerminal, ScreenTypeOK, PTL DEF Spec, ImplementsTerminal, Paper!TSpec

-----------------------------------------------------------------------------
LEMMA ShiftsBack ==
    ASSUME NEW bits \in SUBSET Int, NEW n \in Int
    PROVE  Shift(Shift(bits, n), -n) = bits
<1>1. \A b \in bits : (b + n) + (-n) = b
  OBVIOUS
<1> QED  BY <1>1 DEF Shift

\* Where the bits of colours are found in a word.
LEMMA ShiftedColors ==
    ASSUME NEW c \in Colors
    PROVE  /\ Shift(c, 4) \subseteq 4 .. 7
           /\ Shift(c, 8) \subseteq 8 .. 11
           /\ Shift(c, 12) \subseteq 12 .. 15
           /\ c \in SUBSET Int
BY DEF Shift, Colors

LEMMA ColorByteShifted ==
    ASSUME NEW fore \in Colors, NEW back \in Colors
    PROVE  Shift(ColorByte(fore, back), 8) = Shift(fore, 8) \union Shift(back, 12)
<1>1. \A b \in back : (b + 4) + 8 = b + 12
  BY DEF Colors
<1> QED  BY <1>1 DEF Shift, ColorByte

\* A word whose bits are known part by part.
LEMMA PartsOf ==
    ASSUME NEW low \in Char, NEW fore \in Colors, NEW back \in Colors,
           NEW word, word = low \union Shift(fore, 8) \union Shift(back, 12)
    PROVE  /\ word \in Word
           /\ GetChar(word) = low
           /\ GetForeground(word) = fore
           /\ GetBackground(word) = back
<1>1. /\ low \subseteq 0 .. 7
      /\ Shift(fore, 8) \subseteq 8 .. 11
      /\ Shift(back, 12) \subseteq 12 .. 15
  BY ShiftedColors DEF Char
<1>2. /\ Shift(Shift(fore, 8), -8) = fore
      /\ Shift(Shift(back, 12), -12) = back
  BY ShiftedColors, ShiftsBack
<1> DEFINE f == Shift(fore, 8)
           b == Shift(back, 12)
<1> HIDE DEF f, b
<1>3. /\ \A x \in low : x \in 0 .. 7
      /\ \A x \in f : x \in 8 .. 11
      /\ \A x \in b : x \in 12 .. 15
      /\ \A x : x \in word <=> x \in low \/ x \in f \/ x \in b
  BY <1>1 DEF f, b
<1>4. word \in Word
  <2>1. \A x \in word : x \in 0 .. 15
    BY <1>3
  <2> QED  BY <2>1 DEF Word
<1>5. word \intersect 0 .. 7 = low
  <2>1. \A x : x \in word /\ x \in 0 .. 7 <=> x \in low
    BY <1>3
  <2> QED  BY <2>1
<1>6. word \intersect 8 .. 11 = f
  <2>1. \A x : x \in word /\ x \in 8 .. 11 <=> x \in f
    BY <1>3
  <2> QED  BY <2>1
<1>7. word \intersect 12 .. 15 = b
  <2>1. \A x : x \in word /\ x \in 12 .. 15 <=> x \in b
    BY <1>3
  <2> QED  BY <2>1
<1> QED
  BY <1>2, <1>4, <1>5, <1>6, <1>7 DEF GetChar, GetForeground, GetBackground, f, b

\* Every word is such a one.
LEMMA PartsExist ==
    ASSUME NEW word \in Word
    PROVE  /\ GetChar(word) \in Char
           /\ GetForeground(word) \in Colors
           /\ GetBackground(word) \in Colors
           /\ Shift(GetForeground(word), 8) = word \intersect 8 .. 11
           /\ Shift(GetBackground(word), 12) = word \intersect 12 .. 15
<1>1. word \subseteq 0 .. 15
  BY DEF Word
<1>2. GetChar(word) \in Char
  BY DEF GetChar, Char
<1>3. GetForeground(word) \in Colors
  BY DEF GetForeground, Colors, Shift
<1>4. GetBackground(word) \in Colors
  BY DEF GetBackground, Colors, Shift
<1>5. \A b \in word : (b + (-8)) + 8 = b /\ (b + (-12)) + 12 = b
  BY <1>1
<1> QED
  BY <1>2, <1>3, <1>4, <1>5 DEF GetForeground, GetBackground, Shift

(***************************************************************************)
(* What vtPrintColoredString puts in a cell is the character and the       *)
(* colours it was given, and is read as such, for every ASCII character    *)
(* (VgaChar::Set).                                                         *)
(***************************************************************************)
THEOREM CellIsCharAndColors ==
    ASSUME NEW ch \in Char, 7 \notin ch, NEW fore \in Colors, NEW back \in Colors
    PROVE  LET word == Set(ch, ColorByte(fore, back))
           IN  /\ word \in Word
               /\ GetChar(word) = ch
               /\ GetForeground(word) = fore
               /\ GetBackground(word) = back
<1> DEFINE word == Set(ch, ColorByte(fore, back))
<1>1. word = ch \union Shift(fore, 8) \union Shift(back, 12)
  BY ColorByteShifted DEF Set, SignExtended
<1> HIDE DEF word
<1> QED  BY <1>1, PartsOf DEF word

(***************************************************************************)
(* A char of 0x80 or more is negative: its sign fills the byte of the      *)
(* colours, whatever they should be (VgaChar::Set).                        *)
(***************************************************************************)
THEOREM HighCharLosesColors ==
    ASSUME NEW ch \in Char, 7 \in ch, NEW fore \in Colors, NEW back \in Colors
    PROVE  Set(ch, ColorByte(fore, back)) = ch \union 8 .. 15
<1>1. Shift(fore, 8) \union Shift(back, 12) \subseteq 8 .. 15
  BY ShiftedColors
<1> QED
  BY <1>1, ColorByteShifted DEF Set, SignExtended

(***************************************************************************)
(* Each of the three setters changes its own part of a cell and leaves the *)
(* other two (SetChar, SetForeground, SetBackground); SetChar does for     *)
(* ASCII characters.                                                       *)
(***************************************************************************)
THEOREM SettersKeepTheRest ==
    ASSUME NEW word \in Word, NEW ch \in Char, 7 \notin ch, NEW color \in Colors
    PROVE  /\ LET w == SetChar(word, ch)
              IN  /\ GetChar(w) = ch
                  /\ GetForeground(w) = GetForeground(word)
                  /\ GetBackground(w) = GetBackground(word)
           /\ LET w == SetForeground(word, color)
              IN  /\ GetChar(w) = GetChar(word)
                  /\ GetForeground(w) = color
                  /\ GetBackground(w) = GetBackground(word)
           /\ LET w == SetBackground(word, color)
              IN  /\ GetChar(w) = GetChar(word)
                  /\ GetForeground(w) = GetForeground(word)
                  /\ GetBackground(w) = color
<1> DEFINE low  == GetChar(word)
           fore == GetForeground(word)
           back == GetBackground(word)
<1>1. low \in Char /\ fore \in Colors /\ back \in Colors
  BY PartsExist
<1>2. /\ low = word \intersect 0 .. 7
      /\ Shift(fore, 8) = word \intersect 8 .. 11
      /\ Shift(back, 12) = word \intersect 12 .. 15
      /\ word \subseteq 0 .. 15
  BY PartsExist DEF GetChar, Word
<1> HIDE DEF low, fore, back
<1>3. SetChar(word, ch) = ch \union Shift(fore, 8) \union Shift(back, 12)
  <2>1. word \intersect 8 .. 15 = (word \intersect 8 .. 11) \union (word \intersect 12 .. 15)
    BY <1>2
  <2> QED  BY <1>2, <2>1 DEF SetChar, SignExtended
<1>4. SetForeground(word, color) = low \union Shift(color, 8) \union Shift(back, 12)
  <2>1. word \ 8 .. 11 = (word \intersect 0 .. 7) \union (word \intersect 12 .. 15)
    <3>1. \A x \in 0 .. 15 : x \notin 8 .. 11 <=> x \in 0 .. 7 \/ x \in 12 .. 15
      OBVIOUS
    <3> QED  BY <1>2, <3>1, Zenon
  <2> QED  BY <1>2, <2>1 DEF SetForeground
<1>5. SetBackground(word, color) = low \union Shift(fore, 8) \union Shift(color, 12)
  <2>1. word \ 12 .. 15 = (word \intersect 0 .. 7) \union (word \intersect 8 .. 11)
    <3>1. \A x \in 0 .. 15 : x \notin 12 .. 15 <=> x \in 0 .. 7 \/ x \in 8 .. 11
      OBVIOUS
    <3> QED  BY <1>2, <3>1, Zenon
  <2> QED  BY <1>2, <2>1 DEF SetBackground
<1> QED
  BY <1>1, <1>3, <1>4, <1>5, PartsOf DEF low, fore, back

(***************************************************************************)
(* SetColor forgets to shift: the cell is black on black, and its          *)
(* character has the bits of the colours in it.                            *)
(***************************************************************************)
THEOREM SetColorColorsTheChar ==
    ASSUME NEW word \in Word, NEW fore \in Colors, NEW back \in Colors
    PROVE  LET w == SetColor(word, fore, back)
           IN  /\ GetForeground(w) = Black /\ GetBackground(w) = Black
               /\ GetChar(w) = GetChar(word) \union ColorByte(fore, back)
<1> DEFINE w == SetColor(word, fore, back)
           low == GetChar(word) \union ColorByte(fore, back)
<1>1. fore \subseteq 0 .. 3 /\ Shift(back, 4) \subseteq 4 .. 7
  BY ShiftedColors DEF Colors
<1>2. low \in Char
  <2>1. \A x \in fore : x \in 0 .. 7
    BY <1>1
  <2>2. \A x \in Shift(back, 4) : x \in 0 .. 7
    BY <1>1
  <2>3. \A x \in GetChar(word) : x \in 0 .. 7
    BY DEF GetChar
  <2> QED  BY <2>1, <2>2, <2>3, Zenon DEF ColorByte, Char
<1>3. w = low
  BY DEF SetColor, GetChar
<1>4. Shift({}, 8) = {} /\ Shift({}, 12) = {}
  BY DEF Shift
<1>5. Black \in Colors /\ w = low \union Shift(Black, 8) \union Shift(Black, 12)
  BY <1>3, <1>4 DEF Black, Colors
<1> HIDE DEF w, low
<1>6. GetChar(w) = low /\ GetForeground(w) = Black /\ GetBackground(w) = Black
  BY <1>2, <1>5, PartsOf
<1> QED  BY <1>6 DEF w, low
=============================================================================
