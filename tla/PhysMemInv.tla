----------------------------- MODULE PhysMemInv -----------------------------
(***************************************************************************)
(* The inductive invariant of the allocator.  Its heart is the loop        *)
(* invariant of FindUnused, which holds of every request whose search      *)
(* begins at a word.                                                       *)
(***************************************************************************)
EXTENDS PhysMemProps

\* Where the search in progress began.
SearchStart == IF pc = "searchHint" THEN hintAddress ELSE 0

EndPage == EndWord * WordBits

\* Every run of the request in lo .. hi - 1 has a page in use, or is passed over.
NoRun(lo, hi) ==
    \A p \in lo .. hi - pageCount :
        \/ \E q \in p .. p + pageCount - 1 : q \in usedPages
        \/ lo = 0 /\ PassedOver(p)

-----------------------------------------------------------------------------
(***************************************************************************)
(* Before the bit of CurrentPage is tested:                                *)
(*  - wordAddress is the address of the word, and the search has not run   *)
(*    past its end;                                                        *)
(*  - the run being measured is free from its first page to the current    *)
(*    one, is as long as the pages already counted off, and cannot be      *)
(*    extended downwards; its base is its first page, unless that is       *)
(*    page 0;                                                              *)
(*  - the run found, if any, is free, or one page beyond the run from      *)
(*    page 0;                                                              *)
(*  - if none is found, none ends before the current page.                 *)
(***************************************************************************)
WordInv ==
    /\ pageCount > 0
    /\ wordAddress = bitmap * WordBits
    /\ bitmapEnd = IF pc = "searchHint" THEN EndWord ELSE hintAddress \div WordBits
    /\ bitmap <= bitmapEnd
    /\ bit # 0 => bitmap < bitmapEnd
    /\ SearchStart <= CurrentPage

Counted  == pageCount - remainingPages
RunStart == CurrentPage - Counted

RunInv ==
    /\ Counted >= 0
    /\ RunStart >= SearchStart
    /\ \A q \in RunStart .. CurrentPage - 1 : q \notin usedPages
    /\ RunStart = SearchStart \/ RunStart - 1 \in usedPages
    /\ baseAddress = IF Counted = 0 THEN 0
                     ELSE IF RunStart > 0 THEN RunStart
                     ELSE IF Counted = 1 THEN 0 ELSE 1

FoundRun ==
    \/ /\ foundAddress + pageCount <= EndPage
       /\ \A q \in foundAddress .. foundAddress + pageCount - 1 : q \notin usedPages
    \/ foundAddress = 1 /\ OneTooFar(pageCount, usedPages)

NotFoundInv ==
    /\ Counted < pageCount \/ (pageCount = 1 /\ RunStart = 0)
    /\ NoRun(SearchStart, CurrentPage)

ScanInv ==
    Searching =>
        /\ WordInv
        /\ RunInv
        /\ foundAddress # 0 => SearchStart <= foundAddress /\ FoundRun
        /\ foundAddress = 0 => NotFoundInv
        /\ pc = "searchStart" => hintAddress # 0 /\ NoRun(hintAddress, EndPage)

\* The verdict of the two searches, when it is acted on.
ResultInv ==
    /\ pc = "mark" =>
        /\ pageCount > 0
        /\ foundAddress > 0
        /\ FoundRun
        /\ foundAddress < hintAddress => NoRun(hintAddress, EndPage)
    /\ pc = "outOfMemory" =>
        /\ pageCount > 0
        /\ foundAddress = 0
        /\ NoRun(hintAddress, EndPage)
        /\ NoRun(0, hintAddress)

\* A hint begins a word.
HintInv ==
    /\ hintAddress = (hintAddress \div WordBits) * WordBits
    /\ hintAddress <= EndPage

SearchInv == HintInv /\ ScanInv /\ ResultInv

-----------------------------------------------------------------------------
MapInv ==
    /\ g_pageBitmap # 0 =>
        /\ mmap \in Maps
        /\ g_totalMemory = TotalMemory(mmap)
        /\ g_pageBitmap = BitmapAddr(mmap)
    /\ g_pageBitmap = 0 =>
        /\ pc \in {"boot", "idle"}
        /\ live = {}
    /\ pc = "boot" => g_pageBitmap = 0 /\ hintAddress = 0
    /\ g_totalMemory < PtrLimit

LiveInv ==
    /\ \A b \in live : b.base > 0 /\ b.count > 0 /\ b.base + b.count <= EndPage
    /\ \A b, c \in live : b # c => Pages(b) \intersect Pages(c) = {}

\* What the careful client asked for.
CareInv == Searching \/ pc = "mark" => ~OneTooFar(pageCount, usedPages)

IInv ==
    /\ TypeOK
    /\ SearchInv
    /\ MapInv
    /\ LiveInv
    /\ CareInv
    /\ BitmapExact
=============================================================================
