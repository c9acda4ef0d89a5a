----------------------------- MODULE MCVgaText -----------------------------
(***************************************************************************)
(* A screen of three rows of three cells with any content, tab stops of    *)
(* two; every string of up to two characters, from every cursor position.  *)
(***************************************************************************)
EXTENDS VgaText

MCPrintable == {"a"}
Symbols     == MCPrintable \union {"TAB", "CR", "LF"}
MCTexts     == UNION {[1 .. n -> Symbols] : n \in 0 .. 2}
MCPlaces    == (0 .. VGA_Width - 1) \X (0 .. VGA_Height - 1)
=============================================================================
