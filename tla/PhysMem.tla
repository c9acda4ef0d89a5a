------------------------------ MODULE PhysMem ------------------------------
(***************************************************************************)
(* The physical page allocator (KernelBase/src/physmem.cpp), one step per  *)
(* iteration of its search loop.                                           *)
(*                                                                         *)
(* From here on an address is a page number: page p starts at byte         *)
(* p * PageSize, and a hint is the address of a page.  Bit b of bitmap     *)
(* word w belongs to page w * WordBits + b; `usedPages' is the set of      *)
(* pages whose bit is set.  The kernel is one thread with every IRQ        *)
(* masked, so a call runs alone from its first step to its last.           *)
(***************************************************************************)
EXTENDS PhysMemMap

CONSTANTS
    Maps,           \* memory maps the boot loader may hand to the kernel
    Counts,         \* page counts a caller asks for
    Hints,          \* hints a caller passes; 0 is nullptr
    LowMemory,      \* what memory at address 0 may hold, read as a bitmap
    CounterLimit    \* g_allocatedMemory counts modulo this many pages

ASSUME CallAssumption ==
    /\ \A m \in Maps : IsFiniteSet(m) /\ m \subseteq MemMapEntry
    /\ Counts \subseteq Nat
    /\ Hints \subseteq Nat
    /\ LowMemory \subseteq SUBSET Nat
    /\ CounterLimit \in Nat \ {0}

VARIABLES
    mmap,               \* the map pmInitialize got
    g_totalMemory,      \* bytes
    g_allocatedMemory,  \* pages
    g_pageBitmap,       \* byte address of the bitmap; 0 is nullptr
    usedPages,          \* pages whose bit is set in the bitmap
    pc,                 \* where the call in progress stands
    pageCount,          \* its arguments
    hintAddress,
    bitmap,             \* the locals of FindUnused: index of the current word,
    bitmapEnd,          \*   index of the word that ends the search,
    bit,                \*   the bit tested next,
    wordAddress,        \*   page of bit 0, as the code computes it,
    baseAddress,        \*   first page of the run being measured; 0 is none,
    foundAddress,       \*   first page of the run found; 0 is none. It is the
                        \*   value pmAllocatePages returns,
    remainingPages,     \*   pages the run still lacks
    live                \* the blocks callers hold, [base, count]

globals == <<mmap, g_totalMemory, g_pageBitmap>>
call    == <<pageCount, hintAddress>>
scan    == <<bitmap, bitmapEnd, bit, wordAddress, baseAddress, foundAddress,
             remainingPages>>
vars    == <<globals, g_allocatedMemory, usedPages, pc, call, scan, live>>

Block    == [base : Nat, count : Nat]
Pages(b) == b.base .. (b.base + b.count - 1)

\* Index of the first word that a search up to g_totalMemory leaves out.
EndWord == g_totalMemory \div BitmapWordSize

Searching == pc \in {"searchHint", "searchStart"}

-----------------------------------------------------------------------------
Init ==
    /\ mmap = {}
    /\ g_totalMemory = 0
    /\ g_allocatedMemory = 0
    /\ g_pageBitmap = 0
    /\ usedPages = {}
    /\ pc = "boot"
    /\ pageCount = 0
    /\ hintAddress = 0
    /\ bitmap = 0
    /\ bitmapEnd = 0
    /\ bit = 0
    /\ wordAddress = 0
    /\ baseAddress = 0
    /\ foundAddress = 0
    /\ remainingPages = 0
    /\ live = {}

(***************************************************************************)
(* pmInitialize returns true with the bitmap built, or false with          *)
(* g_pageBitmap still null: what a search then takes for bitmap words is   *)
(* whatever memory holds at address 0.                                     *)
(***************************************************************************)
pmInitialize(m) ==
    /\ pc = "boot"
    /\ mmap' = m
    /\ g_totalMemory' = TotalMemory(m)
    /\ g_pageBitmap' = BitmapAddr(m)
    /\ IF BitmapAddr(m) > 0
       THEN usedPages' = InitialUsed(m)
       ELSE usedPages' \in LowMemory
    /\ pc' = "idle"
    /\ UNCHANGED <<g_allocatedMemory, call, scan, live>>

\* FindUnused(start, end, numPages) up to its loop; endWord is end / BitmapWordSize.
FindUnused(start, endWord, numPages) ==
    /\ bitmap' = start \div WordBits
    /\ bitmapEnd' = endWord
    /\ bit' = 0
    /\ wordAddress' = start
    /\ baseAddress' = 0
    /\ foundAddress' = 0
    /\ remainingPages' = numPages

\* Wrong: searches from the bottom even when there is a hint.
pmAllocatePages_FromBottom(count, hint) ==
    /\ pc = "idle"
    /\ count # 0
    /\ pageCount' = count
    /\ hintAddress' = IF hint * PageSize > g_totalMemory THEN 0 ELSE hint
    /\ FindUnused(0, EndWord, count)
    /\ pc' = "searchHint"
    /\ UNCHANGED <<globals, g_allocatedMemory, usedPages, live>>

pmAllocatePages(count, hint) ==
    LET start == IF hint * PageSize > g_totalMemory THEN 0 ELSE hint
    IN  /\ pc = "idle"
        /\ count # 0
        /\ pageCount' = count
        /\ hintAddress' = start
        /\ FindUnused(start, EndWord, count)
        /\ pc' = "searchHint"
        /\ UNCHANGED <<globals, g_allocatedMemory, usedPages, live>>

\* A request for no pages returns nullptr at once.
pmAllocateNothing ==
    /\ pc = "idle"
    /\ foundAddress' = 0
    /\ UNCHANGED <<globals, g_allocatedMemory, usedPages, pc, call, live, bitmap,
                   bitmapEnd, bit, wordAddress, baseAddress, remainingPages>>

\* The pages that hold cb bytes, in uint32_t arithmetic (as wide as a pointer).
PagesForBytes(cb) == (PageAlignUp(cb) % PtrLimit) \div PageSize

\* The caller also gets *pageCount = PagesForBytes(cb), whatever is returned.
pmAllocateBytes(cb, hint) ==
    LET numPages == PagesForBytes(cb)
    IN  IF numPages = 0 THEN pmAllocateNothing ELSE pmAllocatePages(numPages, hint)

-----------------------------------------------------------------------------
(***************************************************************************)
(* The loops of FindUnused.  The while condition is tested before bit 0 of *)
(* a word only: once inside a word, all its bits are visited.              *)
(***************************************************************************)
CurrentPage  == bitmap * WordBits + bit
\* Wrong: one used page makes the word full.
WordIsFull_AnyBit == \E b \in 0 .. WordBits - 1 : bitmap * WordBits + b \in usedPages

WordIsFull   == \A b \in 0 .. WordBits - 1 : bitmap * WordBits + b \in usedPages
LoopContinues == bitmap < bitmapEnd /\ foundAddress = 0

\* Wrong: stays at the word.
NextWord_Stays == bit' = 0 /\ UNCHANGED <<bitmap, wordAddress>>

NextWord ==
    /\ bitmap' = bitmap + 1
    /\ wordAddress' = wordAddress + WordBits
    /\ bit' = 0

\* Wrong: one bit too many in a word.
NextBit_OneMore ==
    IF bit = WordBits
    THEN NextWord
    ELSE bit' = bit + 1 /\ UNCHANGED <<bitmap, wordAddress>>

NextBit ==
    IF bit = WordBits - 1
    THEN NextWord
    ELSE bit' = bit + 1 /\ UNCHANGED <<bitmap, wordAddress>>

SkipFullWord ==
    /\ Searching
    /\ bit = 0
    /\ LoopContinues
    /\ WordIsFull
    /\ remainingPages' = pageCount
    /\ baseAddress' = 0
    /\ NextWord
    /\ UNCHANGED <<globals, g_allocatedMemory, usedPages, pc, call, live,
                   bitmapEnd, foundAddress>>

VisitBit ==
    /\ Searching
    /\ bit = 0 => LoopContinues /\ ~WordIsFull

FreePage ==
    /\ VisitBit
    /\ CurrentPage \notin usedPages
    /\ baseAddress' = IF baseAddress = 0 THEN wordAddress + bit ELSE baseAddress
    /\ remainingPages' = remainingPages - 1
    /\ foundAddress' = IF remainingPages' = 0 THEN baseAddress' ELSE foundAddress
    /\ NextBit
    /\ UNCHANGED <<globals, g_allocatedMemory, usedPages, pc, call, live, bitmapEnd>>

\* Wrong: measures on from the base of the run that ended.
TakenPage_KeepsBase ==
    /\ VisitBit
    /\ CurrentPage \in usedPages
    /\ remainingPages' = pageCount
    /\ NextBit
    /\ UNCHANGED <<globals, g_allocatedMemory, usedPages, pc, call, live,
                   bitmapEnd, baseAddress, foundAddress>>

TakenPage ==
    /\ VisitBit
    /\ CurrentPage \in usedPages
    /\ baseAddress' = 0
    /\ remainingPages' = pageCount
    /\ NextBit
    /\ UNCHANGED <<globals, g_allocatedMemory, usedPages, pc, call, live,
                   bitmapEnd, foundAddress>>

SearchOver == Searching /\ bit = 0 /\ ~LoopContinues

\* Back in pmAllocatePages: search [0, hint) after [hint, end) if there is a hint.
SearchFromStart ==
    /\ SearchOver
    /\ foundAddress = 0
    /\ pc = "searchHint"
    /\ hintAddress # 0
    /\ FindUnused(0, hintAddress \div WordBits, pageCount)
    /\ pc' = "searchStart"
    /\ UNCHANGED <<globals, g_allocatedMemory, usedPages, call, live>>

SearchResult ==
    /\ SearchOver
    /\ foundAddress = 0 => (pc = "searchStart" \/ hintAddress = 0)
    /\ pc' = IF foundAddress # 0 THEN "mark" ELSE "outOfMemory"
    /\ UNCHANGED <<globals, g_allocatedMemory, usedPages, call, scan, live>>

\* The block the search found, and the effect of marking and returning it.
Found == [base |-> foundAddress, count |-> pageCount]

\* Wrong: marks the first page only.
MarkFound_FirstPage ==
    /\ pc = "mark"
    /\ usedPages' = usedPages \union {foundAddress}
    /\ g_allocatedMemory' = (g_allocatedMemory + pageCount) % CounterLimit
    /\ live' = live \union {Found}
    /\ pc' = "idle"
    /\ UNCHANGED <<globals, call, scan>>

MarkFound ==
    /\ pc = "mark"
    /\ usedPages' = usedPages \union Pages(Found)
    /\ g_allocatedMemory' = (g_allocatedMemory + pageCount) % CounterLimit
    /\ live' = live \union {Found}
    /\ pc' = "idle"
    /\ UNCHANGED <<globals, call, scan>>

\* Wrong: counts the pages that were not found.
ReturnNull_Counts ==
    /\ pc = "outOfMemory"
    /\ g_allocatedMemory' = (g_allocatedMemory + pageCount) % CounterLimit
    /\ pc' = "idle"
    /\ UNCHANGED <<globals, usedPages, call, scan, live>>

ReturnNull ==
    /\ pc = "outOfMemory"
    /\ pc' = "idle"
    /\ UNCHANGED <<globals, g_allocatedMemory, usedPages, call, scan, live>>

-----------------------------------------------------------------------------
\* Wrong: the last page of the block stays marked.
pmFree_KeepsLast(block) ==
    /\ pc = "idle"
    /\ usedPages' = usedPages \ (block.base .. (block.base + block.count - 2))
    /\ g_allocatedMemory' = (g_allocatedMemory - block.count) % CounterLimit
    /\ live' = live \ {block}
    /\ UNCHANGED <<globals, pc, call, scan>>

(***************************************************************************)
(* pmFree clears the bits of the pages below g_totalMemory and takes the   *)
(* whole count off g_allocatedMemory, modulo 2^64.                         *)
(***************************************************************************)
pmFree(block) ==
    /\ pc = "idle"
    /\ usedPages' = usedPages \ {p \in Pages(block) : p * PageSize < g_totalMemory}
    /\ g_allocatedMemory' = (g_allocatedMemory - block.count) % CounterLimit
    /\ live' = live \ {block}
    /\ UNCHANGED <<globals, pc, call, scan>>

(***************************************************************************)
(* The steps of a call, and the calls of a client that checks the result   *)
(* of pmInitialize and frees what it holds, once.                          *)
(***************************************************************************)
CallStep ==
    \/ SkipFullWord
    \/ FreePage
    \/ TakenPage
    \/ SearchFromStart
    \/ SearchResult
    \/ MarkFound
    \/ ReturnNull

Boot == \E m \in Maps : pmInitialize(m)

\* The calls that search for nothing.
Release ==
    \/ 0 \in Counts /\ pmAllocateNothing
    \/ \E block \in live : pmFree(block)

Client ==
    /\ g_pageBitmap # 0
    /\ \/ \E count \in Counts \ {0}, hint \in Hints : pmAllocatePages(count, hint)
       \/ Release

Next == Boot \/ Client \/ CallStep

Spec     == Init /\ [][Next]_vars
FairSpec == Spec /\ WF_vars(CallStep)

\* Booting alone, for what only the memory map decides.
BootSpec == Init /\ [][Boot]_vars
=============================================================================
