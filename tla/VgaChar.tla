------------------------------ MODULE VgaChar ------------------------------
(***************************************************************************)
(* A cell of the VGA text screen (struct VgaChar of                        *)
(* KernelBase/src/vgatext.cpp, the colours of vgatext.h): sixteen bits, a  *)
(* character in the lower byte, its colours in the upper one.  A number    *)
(* is here the set of its bits, so the code's | is a union.                *)
(***************************************************************************)
EXTENDS Integers

Word   == SUBSET (0 .. 15)
Char   == SUBSET (0 .. 7)
Colors == SUBSET (0 .. 3)       \* VgaTextColor

Blue   == {0}
Green  == {1}
Red    == {2}
Bright == {3}
Grey   == Blue \union Green \union Red      \* VTC_LightGrey
Black  == {}

Shift(bits, n) == {b + n : b \in bits}

\* VGA_CHAR_COLOR; the rest of an int it may fill is cut off again by Set.
ColorByte(fore, back) == fore \union Shift(back, 4)

\* A char is signed: as an int, the bits above it are those of its sign.
SignExtended(ch) == IF 7 \in ch THEN ch \union 8 .. 15 ELSE ch

Set(ch, color)      == SignExtended(ch) \union Shift(color, 8)
SetChar(word, ch)   == SignExtended(ch) \union (word \intersect 8 .. 15)
GetChar(word)       == word \intersect 0 .. 7

SetForeground(word, color) == (word \ 8 .. 11) \union Shift(color, 8)
GetForeground(word)        == Shift(word \intersect 8 .. 11, -8)

SetBackground(word, color) == (word \ 12 .. 15) \union Shift(color, 12)
GetBackground(word)        == Shift(word \intersect 12 .. 15, -12)

\* The colours are not shifted into their byte.
SetColor(word, fore, back) == (word \intersect 0 .. 7) \union ColorByte(fore, back)

Space     == {5}
BlankCell == Set(Space, ColorByte(Grey, Black))     \* VGA_BlankChar
=============================================================================
