---------------------------- MODULE PhysMemProps ----------------------------
(***************************************************************************)
(* What the page allocator must do: what the bitmap says once the memory   *)
(* map has been read, what allocations and frees keep true, and the        *)
(* abstract allocator it implements.                                       *)
(***************************************************************************)
EXTENDS PhysMem

-----------------------------------------------------------------------------
\* The pages a search may hand out at all: those of the words before EndWord.
Searchable == 0 .. (EndWord * WordBits - 1)
FreePages  == Searchable \ usedPages
LivePages  == UNION {Pages(b) : b \in live}

\* n contiguous pages from p on that are free and lie within lo .. hi - 1.
FreeRun(p, n, lo, hi) ==
    /\ p >= lo
    /\ p + n <= hi
    /\ p .. (p + n - 1) \intersect usedPages = {}

(***************************************************************************)
(* Page 0 free, and what a base of 0 for `none' makes of it: the run that  *)
(* begins at page 0 is measured from page 1, a page late.  A single page   *)
(* is then never taken from it, and where it has exactly the pages asked   *)
(* for, the block handed out ends one page beyond it.                      *)
(***************************************************************************)
PassedOver(p) == pageCount = 1 /\ 0 .. p \intersect usedPages = {}

OneTooFar(n, used) ==
    n > 1 /\ 0 .. n - 1 \subseteq Searchable \ used /\ n \notin Searchable \ used

TypeOK ==
    /\ g_totalMemory \in Nat
    /\ g_allocatedMemory \in Nat
    /\ g_pageBitmap \in Nat
    /\ usedPages \subseteq Nat
    /\ pc \in {"boot", "idle", "searchHint", "searchStart", "mark", "outOfMemory"}
    /\ pageCount \in Nat
    /\ hintAddress \in Nat
    /\ bitmap \in Nat
    /\ bitmapEnd \in Nat
    /\ bit \in 0 .. WordBits - 1
    /\ wordAddress \in Nat
    /\ baseAddress \in Nat
    /\ foundAddress \in Nat
    /\ remainingPages \in Int
    /\ live \subseteq Block

\* Byte addresses first .. last - 1 are memory of a usable region of the map.
UsableBytes(first, last) ==
    \E e \in UsableIn(mmap) : e.base <= first /\ last <= Top(e)

(***************************************************************************)
(* The maps whose usable memory a pointer reaches.  ConstructBitmap cuts   *)
(* both ends of a region to a pointer: one that ends above the range loses *)
(* its end's upper bits, and one that lies within the last page is rounded *)
(* up to the end of the range, which is address 0.                         *)
(***************************************************************************)
Addressable(m) ==
    \A e \in UsableIn(m) :
        /\ Top(e) <= PtrLimit
        /\ e.base <= PtrLimit - PageSize \/ Top(e) = PtrLimit

(***************************************************************************)
(* A page the bitmap shows free is usable memory from its first byte to    *)
(* its last: "assume all memory is used unless there's a region            *)
(* specifically calling it out as usable" (ConstructBitmap).  Regions that *)
(* start or end inside a page must lose the partial page.                  *)
(***************************************************************************)
OnlyUsableFree ==
    g_pageBitmap # 0 =>
        \A p \in BitmapBits(g_totalMemory) \ usedPages :
            UsableBytes(p * PageSize, (p + 1) * PageSize)

(***************************************************************************)
(* "mark the usable regions as free" (ConstructBitmap): between calls a    *)
(* page is free, or a caller holds it, if it lies in a usable region that  *)
(* ends below the top of the pointer range and the bitmap does not touch   *)
(* it.                                                                     *)
(***************************************************************************)
UsableAllFree ==
    g_pageBitmap # 0 /\ pc = "idle" =>
        \A e \in UsableIn(mmap) : Top(e) < PtrLimit =>
            \A p \in 0 .. (PtrLimit \div PageSize) :
                /\ e.base <= p * PageSize
                /\ (p + 1) * PageSize <= Top(e)
                /\ \/ (p + 1) * PageSize <= g_pageBitmap
                   \/ p * PageSize >= g_pageBitmap + BitmapSize(g_totalMemory)
                => p \notin usedPages \ LivePages

(***************************************************************************)
(* The bitmap lies in usable memory, every page it touches is marked, it   *)
(* has a bit for every page below g_totalMemory, and it ends below the     *)
(* last page of the address space: there the loop that marks it would wrap *)
(* around and never end ("if we overflowed, fill up to the top").          *)
(***************************************************************************)
BitmapProtected ==
    LET size == BitmapSize(g_totalMemory)
    IN  g_pageBitmap # 0 =>
            /\ UsableBytes(g_pageBitmap, g_pageBitmap + size)
            /\ PagesIn(g_pageBitmap, g_pageBitmap + size) \subseteq usedPages
            /\ PagesIn(0, g_totalMemory) \subseteq BitmapBits(g_totalMemory)
            /\ g_pageBitmap + size <= PtrLimit - PageSize

(***************************************************************************)
(* "keep the bitmap at the highest memory address possible": as long as no *)
(* usable region spans half the pointer range, no page-aligned place above *)
(* the chosen one, past the start of a usable region, has room for it; and *)
(* pmInitialize fails only when there is none at all.                      *)
(***************************************************************************)
BitmapHighest ==
    LET size == BitmapSize(g_totalMemory)
        Room(a) == \E e \in UsableIn(mmap) : e.base < a /\ a + size <= UsableTop(e)
    IN  /\ pc = "idle"
        /\ \A e \in UsableIn(mmap) : 2 * e.length < PtrLimit
        => g_pageBitmap = Max({0} \union
                {a \in {p * PageSize : p \in 0 .. (PtrLimit \div PageSize)} : Room(a)})

-----------------------------------------------------------------------------
(***************************************************************************)
(* No page is given to two callers: the blocks held are disjoint, and the  *)
(* block a search is about to return shares no page with any of them.      *)
(* About FindUnused and the marking loop of pmAllocatePages together.      *)
(***************************************************************************)
NoDoubleAllocation ==
    /\ \A b, c \in live : b # c => Pages(b) \intersect Pages(c) = {}
    /\ pc = "mark" => Pages(Found) \intersect LivePages = {}

(***************************************************************************)
(* The bitmap is exact between calls: a page is marked if and only if the  *)
(* memory map or the bitmap itself takes it, or a caller holds it.  So no  *)
(* reserved page and no page of the bitmap is ever handed out, and a freed *)
(* page never leaks.                                                       *)
(***************************************************************************)
BitmapExact ==
    g_pageBitmap # 0 =>
        /\ usedPages = InitialUsed(mmap) \union LivePages
        /\ InitialUsed(mmap) \intersect LivePages = {}

(***************************************************************************)
(* g_allocatedMemory is the number of pages callers hold (physmem.h,       *)
(* pmAllocatedMemory), through any sequence of allocations and frees.      *)
(***************************************************************************)
AllocatedExact == g_allocatedMemory = Cardinality(LivePages)

(***************************************************************************)
(* pmAllocatePages returns null only when no run of pageCount free pages   *)
(* lies within the words from the hint to the last whole one, and none     *)
(* within the words below the hint - but for a single page in the run that *)
(* begins at page 0, which a search from there passes over.                *)
(***************************************************************************)
RefusalJustified ==
    pc = "outOfMemory" =>
        \A p \in FreePages :
            /\ FreeRun(p, pageCount, hintAddress, EndWord * WordBits) =>
                   hintAddress = 0 /\ PassedOver(p)
            /\ FreeRun(p, pageCount, 0, hintAddress) => PassedOver(p)

(***************************************************************************)
(* A block below the hint is returned only when no run fits above it:      *)
(* "[hint, end)" is searched first, "[start, hint)" only if needed.        *)
(***************************************************************************)
HintFirst ==
    pc = "mark" /\ foundAddress < hintAddress =>
        \A p \in FreePages : ~FreeRun(p, pageCount, hintAddress, EndWord * WordBits)

(***************************************************************************)
(* "null if no memory was requested or there is not enough contiguous      *)
(* memory" (physmem.h, pmAllocatePages), read as it stands: of every whole *)
(* page below g_totalMemory, those of a partial last word too.             *)
(***************************************************************************)
NullMeansNoRun ==
    pc = "outOfMemory" =>
        \A p \in 0 .. (g_totalMemory \div PageSize) :
            ~FreeRun(p, pageCount, 0, g_totalMemory \div PageSize)

(***************************************************************************)
(* Every call of pmAllocatePages returns: the two search loops end.        *)
(***************************************************************************)
CallReturns == (pc = "searchHint") ~> (pc = "idle")

-----------------------------------------------------------------------------
(***************************************************************************)
(* The bitmap search implements the abstract allocator: a request is open  *)
(* from the call to the return, and a page is free in the abstract sense   *)
(* when its bit is clear and a search can reach it.  Without a bitmap none *)
(* is: its client then makes no call.                                      *)
(***************************************************************************)
Phase ==
    CASE pc = "boot" -> "off"
      [] pc = "idle" -> "ready"
      [] OTHER       -> "busy"

Abstract == INSTANCE PageAllocator WITH
    FreeSets <- {{}} \union
                {(0 .. (TotalMemory(m) \div BitmapWordSize) * WordBits - 1)
                    \ InitialUsed(m) : m \in Maps},
    Requests <- [count : Counts \ {0}, hint : Hints \union {0}],
    phase    <- Phase,
    free     <- IF g_pageBitmap = 0 THEN {} ELSE FreePages,
    blocks   <- live,
    request  <- [count |-> pageCount, hint |-> hintAddress]

\* Every behaviour of the allocator is one the abstract allocator allows.
ImplementsPageAllocator == Abstract!ASpec
=============================================================================
