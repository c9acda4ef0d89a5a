------------------------------ MODULE Terminal ------------------------------
(***************************************************************************)
(* What a text screen promises: a window of Height rows over an endless    *)
(* sheet of paper.  A character goes to the cursor; a line that would fall *)
(* below the window moves every row up by one and leaves the last blank.   *)
(* A text is printed to its end, character by character.                   *)
(***************************************************************************)
EXTENDS Integers, Sequences

CONSTANTS Width, Height, TabStop, Printable, Blank, Texts

VARIABLES
    rows,           \* the window, a sequence of cells per row
    column, row,    \* the cursor
    printing,       \* whether a text is being printed
    input           \* what of it is still to come

tvars == <<rows, column, row, printing, input>>

BlankRow  == [x \in 0 .. Width - 1 |-> Blank]
BlankRows == [y \in 0 .. Height - 1 |-> BlankRow]

TInit ==
    /\ rows \in [0 .. Height - 1 -> [0 .. Width - 1 -> Printable \union {Blank}]]
    /\ column = 0
    /\ row = 0
    /\ ~printing
    /\ input = <<>>

\* The cursor at column 0 of the next line, where the page `page' is what is shown.
LineFeed(page) ==
    /\ column' = 0
    /\ row' = IF row = Height - 1 THEN row ELSE row + 1
    /\ rows' = IF row = Height - 1
               THEN [y \in 0 .. Height - 1 |->
                        IF y = Height - 1 THEN BlankRow ELSE page[y + 1]]
               ELSE page

\* The cursor at column x, or on the next line when x is off the row.
MoveTo(x, page) ==
    IF x < Width THEN column' = x /\ rows' = page /\ UNCHANGED row ELSE LineFeed(page)

Consume(c) ==
    /\ printing
    /\ input # <<>>
    /\ Head(input) = c
    /\ input' = Tail(input)
    /\ UNCHANGED printing

TypeChar(c) == Consume(c) /\ MoveTo(column + 1, [rows EXCEPT ![row][column] = c])

Tab == Consume("TAB") /\ MoveTo(((column \div TabStop) + 1) * TabStop, rows)

CarriageReturn == Consume("CR") /\ MoveTo(0, rows)

Newline == Consume("LF") /\ LineFeed(rows)

Begin(s) ==
    /\ ~printing
    /\ printing' = TRUE
    /\ input' = s
    /\ UNCHANGED <<rows, column, row>>

Finish ==
    /\ printing
    /\ input = <<>>
    /\ printing' = FALSE
    /\ UNCHANGED <<rows, column, row, input>>

Clear ==
    /\ ~printing
    /\ rows' = BlankRows
    /\ column' = 0
    /\ row' = 0
    /\ UNCHANGED <<printing, input>>

Place ==
    /\ ~printing
    /\ column' \in 0 .. Width - 1
    /\ row' \in 0 .. Height - 1
    /\ UNCHANGED <<rows, printing, input>>

TNext ==
    \/ \E s \in Texts : Begin(s)
    \/ \E c \in Printable : TypeChar(c)
    \/ Tab
    \/ CarriageReturn
    \/ Newline
    \/ Finish
    \/ Clear
    \/ Place

TSpec == TInit /\ [][TNext]_tvars
=============================================================================
