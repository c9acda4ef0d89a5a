--------------------------- MODULE PhysMemProofs ---------------------------
(***************************************************************************)
(* Proofs about the page allocator, for any machine widths, memory maps,   *)
(* requests and hints: its types for any client, and what it keeps for a   *)
(* client that asks for nothing the search gets wrong (PhysMemContract).   *)
(***************************************************************************)
EXTENDS PhysMemContract, PhysMemMapProofs

(***************************************************************************)
(* Every variable keeps its type: in particular the bit index stays inside *)
(* a word and no page number becomes negative.                             *)
(***************************************************************************)
LEMMA TypeStep == TypeOK /\ [Next]_vars => TypeOK'
<1> SUFFICES ASSUME TypeOK, [Next]_vars PROVE TypeOK'
  OBVIOUS
<1>1. CASE Boot
  BY <1>1, InitializeType DEF Boot
<1>2. CASE Client
  <2>1. \A block \in live : block \in Block
    BY DEF TypeOK
  <2>2. \A count \in Counts, hint \in Hints : count \in Nat /\ hint \in Nat
    BY CallAssumption
  <2> QED BY <1>2, <2>1, <2>2, AllocateType, AllocateNothingType, FreeType DEF Client, Release
<1>3. CASE CallStep
  BY <1>3, CallStepType
<1>4. CASE UNCHANGED vars
  BY <1>4 DEF vars, globals, call, scan, TypeOK
<1> QED BY <1>1, <1>2, <1>3, <1>4 DEF Next

(***************************************************************************)
(* Type correctness of the allocator.                                      *)
(***************************************************************************)
THEOREM TypeCorrect == Spec => []TypeOK
  BY TypeInit, TypeStep, PTL DEF Spec

-----------------------------------------------------------------------------
LEMMA CarefulIsNext == [CarefulNext]_vars => [Next]_vars
  BY DEF CarefulNext, CarefulClient, Next, Client

LEMMA CarefulTypes ==
  ASSUME TypeOK, [CarefulNext]_vars
  PROVE  TypeOK'
  BY CarefulIsNext, TypeStep

(***************************************************************************)
(* The rest of the invariant, left alone by the steps of a search.         *)
(***************************************************************************)
QuietInv == MapInv /\ LiveInv /\ BitmapExact

LEMMA QuietStep ==
  ASSUME QuietInv, pc \notin {"boot", "idle"}, pc' # "boot",
         UNCHANGED <<globals, usedPages, live>>
  PROVE  QuietInv'
  BY DEF QuietInv, MapInv, LiveInv, BitmapExact, LivePages, EndPage, EndWord, globals

LEMMA AllocateStep ==
  ASSUME IInv, g_pageBitmap # 0, NEW count \in Counts \ {0}, NEW hint \in Hints,
         Served(count, hint), pmAllocatePages(count, hint)
  PROVE  IInv'
<1>1. count \in Nat \ {0} /\ hint \in Nat
  BY CallAssumption
<1>2. TypeOK'
  BY CarefulTypes DEF IInv, CarefulNext, CarefulClient
<1>3. SearchInv'
  BY <1>1, AllocateSearches DEF IInv, Served
<1>4. /\ pc = "idle" /\ pc' = "searchHint" /\ pageCount' = count
      /\ UNCHANGED <<globals, usedPages, live>>
  BY DEF pmAllocatePages
<1>5. CareInv'
  BY <1>4 DEF Served, CareInv, OneTooFar, Searchable, EndWord, globals
<1>6. MapInv' /\ LiveInv' /\ BitmapExact'
  BY <1>4 DEF IInv, MapInv, LiveInv, BitmapExact, LivePages, EndPage, EndWord, globals
<1> QED BY <1>2, <1>3, <1>5, <1>6 DEF IInv

LEMMA ScanStep ==
  ASSUME IInv, SkipFullWord \/ FreePage \/ TakenPage \/ SearchFromStart \/ SearchResult
  PROVE  IInv'
<1>1. TypeOK'
  BY CarefulTypes DEF IInv, CarefulNext, CallStep
<1>2. SearchInv'
  BY SearchStep DEF IInv
<1>3. /\ Searching /\ pc' \notin {"boot", "idle"}
      /\ UNCHANGED <<globals, usedPages, live, pageCount>>
  BY DEF SkipFullWord, FreePage, TakenPage, SearchFromStart, SearchResult, VisitBit, SearchOver,
     Searching, call
<1>4. QuietInv'
  BY <1>3, QuietStep DEF IInv, QuietInv, Searching
<1>5. CareInv'
  BY <1>3 DEF IInv, CareInv, OneTooFar, Searchable, EndWord, globals
<1> QED BY <1>1, <1>2, <1>4, <1>5 DEF IInv, QuietInv

(***************************************************************************)
(* Marking the block: it was free, so it is disjoint from what the bitmap  *)
(* shows taken, and the bitmap stays exact.                                *)
(***************************************************************************)
LEMMA MarkStep ==
  ASSUME IInv, MarkFound
  PROVE  IInv'
<1>1. TypeOK /\ MapInv /\ HintInv /\ LiveInv /\ BitmapExact /\ ResultInv /\ CareInv
  BY DEF IInv, SearchInv
<1>2. TypeOK'
  BY <1>1, CarefulTypes DEF CarefulNext, CallStep
<1>3. /\ pc = "mark" /\ pc' = "idle"
      /\ usedPages' = usedPages \union Pages(Found)
      /\ live' = live \union {Found}
      /\ UNCHANGED <<globals, call, scan>>
  BY DEF MarkFound
<1>4. EndPage' = EndPage /\ EndPage \in Nat
  BY <1>1, <1>3, EndPageFacts DEF EndPage, EndWord, globals
<1>5. /\ Found.base > 0 /\ Found.count > 0
      /\ Found.base + Found.count <= EndPage
      /\ Pages(Found) \intersect usedPages = {}
  BY <1>1, <1>3 DEF ResultInv, FoundRun, CareInv, Found, Pages
<1>6. g_pageBitmap # 0
  BY <1>1, <1>3 DEF MapInv
<1>7. usedPages = InitialUsed(mmap) \union LivePages
      /\ InitialUsed(mmap) \intersect LivePages = {}
  BY <1>1, <1>6 DEF BitmapExact
<1>8. LivePages' = LivePages \union Pages(Found)
  BY <1>3 DEF LivePages
<1>9. BitmapExact'
  BY <1>3, <1>5, <1>7, <1>8 DEF BitmapExact, globals
<1>10. LiveInv'
  <2>1. \A b \in live : Pages(b) \intersect Pages(Found) = {}
    BY <1>5, <1>7 DEF LivePages
  <2>2. \A b \in live' : b.base > 0 /\ b.count > 0 /\ b.base + b.count <= EndPage
    BY <1>1, <1>3, <1>5 DEF LiveInv
  <2>3. ASSUME NEW b \in live', NEW c \in live', b # c
        PROVE  Pages(b) \intersect Pages(c) = {}
    BY <2>1, <2>3, <1>1, <1>3 DEF LiveInv
  <2> QED BY <2>2, <2>3, <1>4 DEF LiveInv
<1>11. MapInv' /\ HintInv'
  BY <1>1, <1>3, <1>4, <1>6 DEF MapInv, HintInv, globals, call
<1>12. ScanInv' /\ ResultInv' /\ CareInv'
  BY <1>3 DEF ScanInv, ResultInv, CareInv, Searching
<1> QED BY <1>2, <1>9, <1>10, <1>11, <1>12 DEF IInv, SearchInv

LEMMA ReturnStep ==
  ASSUME IInv, \/ ReturnNull
               \/ g_pageBitmap # 0 /\ 0 \in Counts /\ pmAllocateNothing
               \/ UNCHANGED vars
  PROVE  IInv'
<1>1. TypeOK'
  BY CarefulTypes DEF CarefulNext, CallStep, CarefulClient, Release, IInv
<1>2. CASE UNCHANGED vars
  BY <1>1, <1>2 DEF vars, globals, call, scan, IInv, MapInv, HintInv, LiveInv, BitmapExact,
     SearchInv, ScanInv, ResultInv, LivePages, EndPage, EndWord, Searching, WordInv, RunInv,
     Counted, RunStart, FoundRun, NotFoundInv, NoRun, PassedOver, OneTooFar, Searchable, CareInv,
     SearchStart, CurrentPage
<1>3. CASE ReturnNull \/ (g_pageBitmap # 0 /\ pmAllocateNothing)
  <2>1. /\ UNCHANGED <<globals, usedPages, live, hintAddress>>
        /\ pc' = "idle" /\ pc # "boot"
    BY <1>3 DEF ReturnNull, pmAllocateNothing, call
  <2>2. MapInv' /\ HintInv' /\ LiveInv' /\ BitmapExact'
    BY <2>1 DEF IInv, SearchInv, MapInv, HintInv, LiveInv, BitmapExact, LivePages, globals,
       EndPage, EndWord
  <2>3. ScanInv' /\ ResultInv' /\ CareInv'
    BY <2>1 DEF ScanInv, ResultInv, CareInv, Searching
  <2> QED BY <1>1, <2>2, <2>3 DEF IInv, SearchInv
<1> QED BY <1>2, <1>3

LEMMA FreedPages ==
  ASSUME IInv, NEW block \in live, pmFree(block)
  PROVE  LivePages' = LivePages \ Pages(block) /\ Pages(block) \subseteq LivePages
<1>1. LiveInv /\ live' = live \ {block}
  BY DEF IInv, pmFree
<1>2. \A b \in live' : Pages(b) \intersect Pages(block) = {}
  BY <1>1 DEF LiveInv
<1> QED BY <1>1, <1>2 DEF LivePages

(***************************************************************************)
(* Freeing a block clears exactly its pages: all of them lie below         *)
(* g_totalMemory, and no other holder or reserved region has any of them.  *)
(***************************************************************************)
LEMMA FreeStep ==
  ASSUME IInv, NEW block \in live, pmFree(block)
  PROVE  IInv'
<1>1. TypeOK /\ MapInv /\ HintInv /\ LiveInv /\ BitmapExact
  BY DEF IInv, SearchInv
<1>2. g_pageBitmap # 0
  BY <1>1 DEF MapInv
<1>3. TypeOK'
  BY <1>1, <1>2, CarefulTypes DEF CarefulNext, CarefulClient, Release
<1>4. /\ pc = "idle" /\ pc' = "idle"
      /\ live' = live \ {block}
      /\ UNCHANGED <<globals, call, scan>>
  BY DEF pmFree
<1>5. EndPage' = EndPage /\ EndPage \in Nat
  BY <1>1, <1>4, EndPageFacts DEF EndPage, EndWord, globals
<1>6. \A p \in Pages(block) : p > 0 /\ p * PageSize < g_totalMemory
  <2> TAKE p \in Pages(block)
  <2>1. block \in Block /\ block.base > 0 /\ block.base + block.count <= EndPage
    BY <1>1 DEF TypeOK, LiveInv
  <2>2. p \in Nat /\ p > 0 /\ p < EndPage
    BY <2>1, <1>5 DEF Pages, Block
  <2> QED BY <2>2, <1>1, EndPageFacts
<1>7. usedPages' = usedPages \ Pages(block)
  BY <1>6 DEF pmFree
<1>8. LivePages' = LivePages \ Pages(block)
  BY FreedPages
<1>9. usedPages = InitialUsed(mmap) \union LivePages
      /\ InitialUsed(mmap) \intersect LivePages = {}
      /\ Pages(block) \subseteq LivePages
  BY <1>1, <1>2 DEF BitmapExact, LivePages
<1>10. BitmapExact'
  BY <1>4, <1>7, <1>8, <1>9 DEF BitmapExact, globals
<1>11. LiveInv'
  BY <1>1, <1>4, <1>5 DEF LiveInv
<1>12. MapInv'
  BY <1>1, <1>2, <1>4 DEF MapInv, globals
<1>13. HintInv'
  BY <1>1, <1>4, <1>5 DEF HintInv, call
<1>14. ScanInv' /\ ResultInv' /\ CareInv'
  BY <1>4 DEF ScanInv, ResultInv, CareInv, Searching
<1> QED BY <1>3, <1>10, <1>11, <1>12, <1>13, <1>14 DEF IInv, SearchInv

LEMMA BootStep ==
  ASSUME IInv, NEW m \in Maps, pmInitialize(m)
  PROVE  IInv'
<1>1. TypeOK /\ MapInv /\ HintInv
  BY DEF IInv, SearchInv
<1>2. TypeOK'
  BY <1>1, CarefulTypes DEF CarefulNext, Boot
<1>3. /\ pc = "boot" /\ pc' = "idle" /\ live = {} /\ live' = {}
      /\ mmap' = m /\ g_totalMemory' = TotalMemory(m)
      /\ g_pageBitmap' = BitmapAddr(m)
      /\ BitmapAddr(m) > 0 => usedPages' = InitialUsed(m)
      /\ hintAddress' = hintAddress
  BY <1>1 DEF pmInitialize, MapInv, call
<1>4. MapInv'
  BY <1>3, BitmapAddrType, TotalMemoryType DEF MapInv
<1>5. LiveInv'
  BY <1>3 DEF LiveInv
<1>6. BitmapExact'
  BY <1>3, BitmapAddrType DEF BitmapExact, LivePages
<1>7. HintInv'
  <2>1. hintAddress' = 0
    BY <1>1, <1>3 DEF MapInv
  <2>2. EndWord' \in Nat
    BY <1>3, TotalMemoryType, Widths, Division DEF EndWord
  <2>3. EndPage' \in Nat
    BY <2>2, Widths, Multiples DEF EndPage
  <2>4. 0 = (0 \div WordBits) * WordBits
    BY Widths
  <2> QED BY <2>1, <2>3, <2>4 DEF HintInv
<1>8. ScanInv' /\ ResultInv' /\ CareInv'
  BY <1>3 DEF ScanInv, ResultInv, CareInv, Searching
<1> QED BY <1>2, <1>4, <1>5, <1>6, <1>7, <1>8 DEF IInv, SearchInv

LEMMA InitIInv == Init => IInv
<1> SUFFICES ASSUME Init PROVE IInv
  OBVIOUS
<1>1. TypeOK
  BY TypeInit
<1>2. EndPage \in Nat
  BY <1>1, EndPageFacts
<1>3. 0 = (0 \div WordBits) * WordBits
  BY Widths
<1>4. MapInv /\ SearchInv /\ LiveInv /\ CareInv /\ BitmapExact
  BY <1>2, <1>3, Widths
  DEF Init, MapInv, HintInv, LiveInv, BitmapExact, SearchInv, ScanInv, ResultInv, CareInv,
      Searching
<1> QED BY <1>1, <1>4 DEF IInv

LEMMA NextIInv == IInv /\ [CarefulNext]_vars => IInv'
<1> SUFFICES ASSUME IInv, [CarefulNext]_vars PROVE IInv'
  OBVIOUS
<1>1. CASE Boot
  BY <1>1, BootStep DEF Boot
<1>2. CASE CarefulClient
  <2>1. ASSUME NEW count \in Counts \ {0}, NEW hint \in Hints,
               Served(count, hint), pmAllocatePages(count, hint)
        PROVE  IInv'
    BY <1>2, <2>1, AllocateStep DEF CarefulClient
  <2>2. CASE 0 \in Counts /\ pmAllocateNothing
    BY <1>2, <2>2, ReturnStep DEF CarefulClient
  <2>3. ASSUME NEW block \in live, pmFree(block) PROVE IInv'
    BY <2>3, FreeStep
  <2> QED BY <1>2, <2>1, <2>2, <2>3 DEF CarefulClient, Release
<1>3. CASE CallStep
  BY <1>3, ScanStep, MarkStep, ReturnStep DEF CallStep
<1>4. CASE UNCHANGED vars
  BY <1>4, ReturnStep
<1> QED BY <1>1, <1>2, <1>3, <1>4 DEF CarefulNext

(***************************************************************************)
(* The invariant holds in every reachable state, and so does everything it *)
(* implies.                                                                *)
(***************************************************************************)
THEOREM Invariant == CarefulSpec => []IInv
  BY InitIInv, NextIInv, PTL DEF CarefulSpec

LEMMA IInvSafe == IInv => NoDoubleAllocation /\ BitmapExact
<1> SUFFICES ASSUME IInv PROVE NoDoubleAllocation
  BY DEF IInv
<1>1. \A b, c \in live : b # c => Pages(b) \intersect Pages(c) = {}
  BY DEF IInv, LiveInv
<1>2. pc = "mark" => Pages(Found) \intersect usedPages = {} /\ g_pageBitmap # 0
  BY DEF IInv, SearchInv, ResultInv, FoundRun, CareInv, MapInv, Found, Pages
<1>3. g_pageBitmap # 0 => LivePages \subseteq usedPages
  BY DEF IInv, BitmapExact
<1> QED BY <1>1, <1>2, <1>3 DEF NoDoubleAllocation

(***************************************************************************)
(* No page is ever given to two callers.                                   *)
(***************************************************************************)
THEOREM NeverAllocatedTwice == CarefulSpec => []NoDoubleAllocation
  BY Invariant, IInvSafe, PTL

(***************************************************************************)
(* Between calls and during them, the bitmap marks what the memory map, the *)
(* bitmap or a caller takes, and nothing else.                             *)
(***************************************************************************)
THEOREM BitmapAlwaysExact == CarefulSpec => []BitmapExact
  BY Invariant, IInvSafe, PTL

LEMMA IInvComplete == IInv => RefusalJustified /\ HintFirst
  BY SearchIsComplete DEF IInv

(***************************************************************************)
(* pmAllocatePages returns null only when no sufficient run lies on either *)
(* side of the hint, but for a single page in the run from page 0 on.      *)
(***************************************************************************)
THEOREM NullIsJustified == CarefulSpec => []RefusalJustified
  BY Invariant, IInvComplete, PTL

(***************************************************************************)
(* A block below the hint means that no run fits above it.                 *)
(***************************************************************************)
THEOREM HintIsTriedFirst == CarefulSpec => []HintFirst
  BY Invariant, IInvComplete, PTL

-----------------------------------------------------------------------------
(***************************************************************************)
(* The count of allocated pages.  The pages held are finitely many, below  *)
(* EndPage, so their number never reaches the width of the counter.        *)
(***************************************************************************)
LEMMA LiveBelowEnd ==
  ASSUME TypeOK, MapInv, LiveInv
  PROVE  /\ LivePages \subseteq 0 .. EndPage - 1
         /\ IsFiniteSet(LivePages)
         /\ Cardinality(LivePages) \in Nat
         /\ Cardinality(LivePages) < CounterLimit
<1>1. EndPage \in Nat
  BY EndPageFacts
<1>2. LivePages \subseteq 0 .. EndPage - 1
  <2>1. \A b \in live : Pages(b) \subseteq 0 .. EndPage - 1
    BY <1>1 DEF LiveInv, TypeOK, Block, Pages
  <2> QED BY <2>1 DEF LivePages
<1>3. IsFiniteSet(0 .. EndPage - 1) /\ Cardinality(0 .. EndPage - 1) = EndPage
  <2>1. 0 \in Int /\ EndPage - 1 \in Int
    BY <1>1
  <2>2. Cardinality(0 .. EndPage - 1) = IF 0 > EndPage - 1 THEN 0 ELSE EndPage - 1 - 0 + 1
    BY <2>1, FS_Interval
  <2>3. IsFiniteSet(0 .. EndPage - 1)
    BY <2>1, FS_Interval
  <2> QED BY <2>2, <2>3, <1>1
<1>4. IsFiniteSet(LivePages) /\ Cardinality(LivePages) <= EndPage
  BY <1>2, <1>3, FS_Subset
<1>5. Cardinality(LivePages) \in Nat
  BY <1>4, FS_CardinalityType
<1>6. EndPage <= PtrLimit \div PageSize
  <2>1. EndWord \in Nat /\ EndWord * BitmapWordSize <= g_totalMemory
    BY Widths, Division DEF TypeOK, EndWord
  <2>2. EndPage * PageSize = EndWord * BitmapWordSize
    BY <2>1, Widths DEF EndPage
  <2>3. EndPage * PageSize <= PtrLimit
    BY <1>1, <2>1, <2>2, Widths, Multiples DEF MapInv, TypeOK
  <2> QED BY <1>1, <2>3, Widths, Multiples
<1>7. PtrLimit \div PageSize \in Nat /\ CounterLimit \in Nat
  BY Widths, Division, CallAssumption
<1> QED BY <1>1, <1>2, <1>4, <1>5, <1>6, <1>7, CounterIsWide

LiveBound ==
  /\ IsFiniteSet(LivePages)
  /\ Cardinality(LivePages) \in Nat
  /\ Cardinality(LivePages) < CounterLimit

LEMMA LiveIsBounded == IInv => LiveBound
  BY LiveBelowEnd DEF IInv, LiveBound

LEMMA CountStep ==
  IInv /\ LiveBound /\ LiveBound' /\ AllocatedExact /\ [CarefulNext]_vars => AllocatedExact'
<1> SUFFICES ASSUME IInv, LiveBound, LiveBound', AllocatedExact, [CarefulNext]_vars
             PROVE  AllocatedExact'
  OBVIOUS
<1> DEFINE held == Cardinality(LivePages)
<1>1. TypeOK /\ LiveInv /\ held \in Nat /\ IsFiniteSet(LivePages)
      /\ g_allocatedMemory = held /\ held < CounterLimit
  BY DEF IInv, AllocatedExact, LiveBound
<1>2. CounterLimit \in Nat \ {0}
  BY CallAssumption
<1>3. CASE MarkFound
  <2>1. LivePages' = LivePages \union Pages(Found)
    BY <1>3 DEF MarkFound, LivePages
  <2>2. LivePages \intersect Pages(Found) = {}
    BY <1>3, IInvSafe DEF NoDoubleAllocation, MarkFound
  <2>3. IsFiniteSet(Pages(Found)) /\ Cardinality(Pages(Found)) = pageCount
    <3>1. foundAddress \in Int /\ foundAddress + pageCount - 1 \in Int
          /\ pageCount \in Nat /\ pageCount > 0
      BY <1>1, <1>3 DEF TypeOK, IInv, SearchInv, ResultInv, MarkFound
    <3>2. Pages(Found) = foundAddress .. foundAddress + pageCount - 1
      BY DEF Pages, Found
    <3>3. IsFiniteSet(Pages(Found))
      BY <3>1, <3>2, FS_Interval
    <3>4. Cardinality(Pages(Found)) = IF foundAddress > foundAddress + pageCount - 1 THEN 0
                ELSE foundAddress + pageCount - 1 - foundAddress + 1
      BY <3>1, <3>2, FS_Interval
    <3> QED BY <3>1, <3>3, <3>4
  <2>4. Cardinality(LivePages') = held + pageCount
    <3>1. Cardinality(LivePages \union Pages(Found)) =
             held + pageCount - Cardinality(LivePages \intersect Pages(Found))
      BY <1>1, <2>3, FS_Union
    <3>2. pageCount \in Nat
      BY <1>1 DEF TypeOK
    <3> QED BY <3>1, <3>2, <2>1, <2>2, <1>1, FS_EmptySet
  <2>5. g_allocatedMemory' = (held + pageCount) % CounterLimit
    BY <1>1, <1>3 DEF MarkFound
  <2>6. held + pageCount \in Nat /\ held + pageCount < CounterLimit
    BY <2>4 DEF LiveBound
  <2> QED BY <2>4, <2>5, <2>6, <1>2, Remainder DEF AllocatedExact
<1>4. ASSUME NEW block \in live, pmFree(block) PROVE AllocatedExact'
  <2>1. LivePages' = LivePages \ Pages(block) /\ Pages(block) \subseteq LivePages
    BY <1>4, FreedPages
  <2>2. block.base \in Nat /\ block.count \in Nat /\ block.count > 0
    BY <1>1 DEF TypeOK, Block, LiveInv
  <2>3. Cardinality(Pages(block)) = block.count
    <3> DEFINE a == block.base
               z == block.base + block.count - 1
    <3>1. a \in Int /\ z \in Int
      BY <2>2
    <3>2. Pages(block) = a .. z
      BY DEF Pages
    <3> HIDE DEF a, z
    <3>3. Cardinality(a .. z) = IF a > z THEN 0 ELSE z - a + 1
      BY <3>1, FS_Interval
    <3>4. ~(a > z) /\ z - a + 1 = block.count
      BY <2>2 DEF a, z
    <3> QED BY <3>2, <3>3, <3>4
  <2>4. Cardinality(LivePages') = held - block.count
    <3>1. Cardinality(LivePages \ Pages(block)) =
            held - Cardinality(LivePages \intersect Pages(block))
      BY <1>1, FS_Difference
    <3>2. LivePages \intersect Pages(block) = Pages(block)
      BY <2>1
    <3> QED BY <3>1, <3>2, <2>1, <2>3
  <2>5. g_allocatedMemory' = (held - block.count) % CounterLimit
    BY <1>1, <1>4 DEF pmFree
  <2>6. held - block.count \in Nat /\ held - block.count < CounterLimit
    BY <2>4 DEF LiveBound
  <2> QED BY <2>4, <2>5, <2>6, <1>2, Remainder DEF AllocatedExact
<1>5. ASSUME UNCHANGED <<g_allocatedMemory, live>> PROVE AllocatedExact'
  BY <1>5 DEF AllocatedExact, LivePages
<1>6. CASE Boot
  BY <1>5, <1>6 DEF Boot, pmInitialize
<1>7. CASE CarefulClient
  <2>1. ASSUME NEW count \in Counts, NEW hint \in Hints, pmAllocatePages(count, hint)
        PROVE  AllocatedExact'
    BY <1>5, <2>1 DEF pmAllocatePages
  <2>2. CASE pmAllocateNothing
    BY <1>5, <2>2 DEF pmAllocateNothing
  <2> QED BY <1>4, <1>7, <2>1, <2>2 DEF CarefulClient, Release
<1>8. CASE CallStep
  BY <1>3, <1>5, <1>8 DEF CallStep, SkipFullWord, FreePage, TakenPage, SearchFromStart,
     SearchResult, ReturnNull
<1>9. CASE UNCHANGED vars
  BY <1>5, <1>9 DEF vars
<1> QED BY <1>6, <1>7, <1>8, <1>9 DEF CarefulNext

LEMMA CountInit == Init => AllocatedExact
  BY FS_EmptySet DEF Init, AllocatedExact, LivePages

(***************************************************************************)
(* g_allocatedMemory is the number of pages callers hold.                  *)
(***************************************************************************)
THEOREM AllocatedAlwaysExact == CarefulSpec => []AllocatedExact
  BY Invariant, LiveIsBounded, CountInit, CountStep, PTL DEF CarefulSpec
-----------------------------------------------------------------------------
(***************************************************************************)
(* What the bitmap says of the memory map, through every sequence of calls *)
(* within the contract: between the steps of a search too.                 *)
(***************************************************************************)
LEMMA MapOfBitmap ==
  ASSUME IInv, g_pageBitmap # 0
  PROVE  /\ mmap \in Maps
         /\ g_pageBitmap = BitmapAddr(mmap)
         /\ g_totalMemory = TotalMemory(mmap)
         /\ usedPages = InitialUsed(mmap) \union LivePages
  BY DEF IInv, MapInv, BitmapExact

(***************************************************************************)
(* The bitmap lies in usable memory, ends below the last page, has a bit   *)
(* for every page, and every page it touches stays marked.                 *)
(***************************************************************************)
THEOREM BitmapStaysProtected == CarefulSpec => []BitmapProtected
<1>1. IInv => BitmapProtected
  <2> DEFINE size == BitmapSize(g_totalMemory)
  <2> SUFFICES ASSUME IInv, g_pageBitmap # 0
               PROVE  /\ UsableBytes(g_pageBitmap, g_pageBitmap + size)
                      /\ PagesIn(g_pageBitmap, g_pageBitmap + size) \subseteq usedPages
                      /\ PagesIn(0, g_totalMemory) \subseteq BitmapBits(g_totalMemory)
                      /\ g_pageBitmap + size <= PtrLimit - PageSize
    BY DEF BitmapProtected
  <2>1. size \in Nat /\ g_pageBitmap \in Nat
    BY MapOfBitmap, SizeType, BitmapAddrType
  <2>2. UsableBytes(g_pageBitmap, g_pageBitmap + size)
    <3>1. PICK e \in UsableIn(mmap) : e.base < g_pageBitmap /\ g_pageBitmap + size <= UsableTop(e)
      BY MapOfBitmap, BitmapPlace
    <3>2. e.base \in Nat /\ UsableTop(e) \in Nat /\ Top(e) \in Nat /\ UsableTop(e) <= Top(e)
      BY MapOfBitmap, UsableRegion
    <3> HIDE DEF size
    <3>3. e.base <= g_pageBitmap /\ g_pageBitmap + size <= Top(e)
      BY <2>1, <3>1, <3>2
    <3> QED BY <3>3 DEF UsableBytes
  <2>3. PagesIn(g_pageBitmap, g_pageBitmap + size) \subseteq usedPages
    BY MapOfBitmap, BitmapIsMarked
  <2>4. PagesIn(0, g_totalMemory) \subseteq BitmapBits(g_totalMemory)
    BY MapOfBitmap, BitmapCoversMemory, TotalMemoryType
  <2>5. g_pageBitmap + size <= PtrLimit - PageSize
    BY MapOfBitmap, BitmapEnds
  <2> QED BY <2>2, <2>3, <2>4, <2>5
<1> QED BY <1>1, Invariant, PTL

(***************************************************************************)
(* A page that is free, or that a caller holds, is usable memory from its  *)
(* first byte to its last, for the maps whose usable memory a pointer      *)
(* reaches.                                                                *)
(***************************************************************************)
THEOREM OnlyUsableIsFree ==
  ASSUME \A m \in Maps : Addressable(m)
  PROVE  CarefulSpec => [](OnlyUsableFree /\
                           \A p \in LivePages : UsableBytes(p * PageSize, (p + 1) * PageSize))
<1>1. ASSUME IInv, g_pageBitmap # 0, NEW p \in BitmapBits(g_totalMemory) \ InitialUsed(mmap)
      PROVE  UsableBytes(p * PageSize, (p + 1) * PageSize)
  <2>1. mmap \in Maps /\ Addressable(mmap) /\ p \in BitmapBits(TotalMemory(mmap)) \ InitialUsed(mmap)
    BY <1>1, MapOfBitmap
  <2>2. \E e \in UsableIn(mmap) : e.base <= p * PageSize /\ (p + 1) * PageSize <= Top(e)
    BY <2>1, FreeIsUsable
  <2> QED BY <2>2 DEF UsableBytes
<1>2. IInv => OnlyUsableFree
  <2> SUFFICES ASSUME IInv, g_pageBitmap # 0, NEW p \in BitmapBits(g_totalMemory) \ usedPages
               PROVE  UsableBytes(p * PageSize, (p + 1) * PageSize)
    BY DEF OnlyUsableFree
  <2> QED BY <1>1, MapOfBitmap
<1>3. IInv => \A p \in LivePages : UsableBytes(p * PageSize, (p + 1) * PageSize)
  <2> SUFFICES ASSUME IInv, NEW p \in LivePages
               PROVE  UsableBytes(p * PageSize, (p + 1) * PageSize)
    OBVIOUS
  <2>1. g_pageBitmap # 0 /\ p \notin InitialUsed(mmap)
    BY DEF IInv, MapInv, BitmapExact, LivePages
  <2>2. p \in BitmapBits(g_totalMemory)
    <3>1. TypeOK /\ p \in 0 .. EndPage - 1 /\ EndPage \in Nat
      BY LiveBelowEnd, EndPageFacts DEF IInv
    <3>2. EndPage <= NumBitmapWords(g_totalMemory) * WordBits
      <4>1. /\ EndWord \in Nat /\ EndWord * BitmapWordSize <= g_totalMemory
            /\ NumBitmapWords(g_totalMemory) \in Nat
            /\ g_totalMemory <= NumBitmapWords(g_totalMemory) * BitmapWordSize
        BY <3>1, Widths, Division, RoundedUp DEF TypeOK, EndWord, NumBitmapWords
      <4>2. EndWord * BitmapWordSize <= NumBitmapWords(g_totalMemory) * BitmapWordSize
        BY <3>1, <4>1, Widths, Multiples DEF TypeOK
      <4>3. EndWord <= NumBitmapWords(g_totalMemory)
        BY <4>1, <4>2, Widths, Ordered
      <4> QED BY <4>1, <4>3, Widths, Multiples DEF EndPage
    <3>3. NumBitmapWords(g_totalMemory) * WordBits \in Nat
      <4>1. NumBitmapWords(g_totalMemory) \in Nat
        BY <3>1, Widths, RoundedUp DEF TypeOK, NumBitmapWords
      <4> QED BY <4>1, Widths, Multiples
    <3> QED BY <3>1, <3>2, <3>3 DEF BitmapBits
  <2> QED BY <1>1, <2>1, <2>2
<1> QED BY <1>2, <1>3, Invariant, PTL

(***************************************************************************)
(* Between calls no usable page is lost: each is free or in a caller's     *)
(* block, but for the bitmap's own.                                        *)
(***************************************************************************)
THEOREM NoUsablePageLost == CarefulSpec => []UsableAllFree
<1>1. IInv => UsableAllFree
  <2> SUFFICES ASSUME IInv, g_pageBitmap # 0,
                      NEW e \in UsableIn(mmap), Top(e) < PtrLimit, NEW p \in Nat,
                      e.base <= p * PageSize, (p + 1) * PageSize <= Top(e),
                      \/ (p + 1) * PageSize <= g_pageBitmap
                      \/ p * PageSize >= g_pageBitmap + BitmapSize(g_totalMemory)
               PROVE  p \notin usedPages \ LivePages
    BY DEF UsableAllFree
  <2>1. p \notin InitialUsed(mmap)
    BY MapOfBitmap, UsableIsFree
  <2> QED BY <2>1, MapOfBitmap
<1> QED BY <1>1, Invariant, PTL

-----------------------------------------------------------------------------
\* Rounding up to whole pages.
LEMMA RoundingUp ==
  ASSUME NEW cb \in Nat, NEW d \in Nat \ {0}
  PROVE  /\ CeilDiv(cb, d) \in Nat
         /\ cb <= CeilDiv(cb, d) * d
         /\ CeilDiv(cb, d) * d < cb + d
<1> DEFINE a == cb + d - 1
<1>1. a \in Nat
  OBVIOUS
<1> HIDE DEF a
<1>2. a \div d \in Nat /\ (a \div d) * d <= a /\ a < (a \div d) * d + d
  BY <1>1, Division
<1>3. (a \div d) * d \in Nat
  BY <1>2
<1> QED BY <1>2, <1>3 DEF CeilDiv, a

(***************************************************************************)
(* The pages of pmAllocateBytes hold the bytes that were asked for, and    *)
(* one page fewer would not, unless the size rounded up is the width of a  *)
(* pointer: the caller then gets null and a page count of zero, just as    *)
(* for no bytes at all, and there is no third case.                        *)
(***************************************************************************)
THEOREM BytesAreHeld ==
  ASSUME NEW cb \in Nat, cb < PtrLimit
  PROVE  /\ cb + PageSize <= PtrLimit =>
                /\ cb <= PagesForBytes(cb) * PageSize
                /\ PagesForBytes(cb) * PageSize < cb + PageSize
         /\ PagesForBytes(cb) = 0 <=> cb = 0 \/ cb + PageSize > PtrLimit
<1> DEFINE d == PageSize
           q == CeilDiv(cb, d)
<1>1. d \in Nat \ {0} /\ PtrLimit \in Nat \ {0}
  BY Widths
<1>2. PICK k \in Nat : PtrLimit = k * d
  <2> DEFINE b == d * BitsPerByte
  <2>1. b \in Nat \ {0} /\ d * b \in Nat \ {0} /\ PtrLimit % (d * d * BitsPerByte) = 0
    BY <1>1, WidthAssumption
  <2>2. d * d * BitsPerByte = d * b
    BY <1>1, WidthAssumption
  <2> HIDE DEF b
  <2> DEFINE w == d * b
  <2>3. w \in Nat \ {0} /\ PtrLimit % w = 0
    BY <2>1, <2>2
  <2> HIDE DEF w
  <2>4. PtrLimit = (PtrLimit \div w) * w /\ PtrLimit \div w \in Nat
    BY <1>1, <2>3, Division
  <2>5. PICK m \in Nat : PtrLimit = m * w
    BY <2>4
  <2>6. m * (d * b) = (m * b) * d /\ m * b \in Nat
    BY <1>1, <2>1
  <2> QED BY <2>5, <2>6 DEF w
<1>3. q \in Nat /\ cb <= q * d /\ q * d < cb + d /\ q * d \in Nat
  BY <1>1, RoundingUp
<1>4. PagesForBytes(cb) = ((q * d) % PtrLimit) \div d
  BY DEF PagesForBytes, PageAlignUp
<1> HIDE DEF d, q
<1>5. CASE cb + d <= PtrLimit
  <2>1. (q * d) % PtrLimit = q * d
    BY <1>1, <1>3, <1>5, Remainder
  <2>2. (q * d) \div d = q
    BY <1>1, <1>3
  <2>3. PagesForBytes(cb) = q
    BY <1>4, <2>1, <2>2
  <2>4. q = 0 <=> cb = 0
    <3>1. q = 0 => q * d = 0
      BY <1>1
    <3>2. q # 0 => q * d >= d
      <4> SUFFICES ASSUME q # 0 PROVE q * d >= d
        OBVIOUS
      <4>1. 1 * d <= q * d
        BY <1>1, <1>3, Multiples
      <4> QED BY <1>1, <4>1
    <3> QED BY <1>1, <1>3, <3>1, <3>2
  <2> QED BY <1>1, <1>3, <1>5, <2>3, <2>4 DEF d
<1>6. CASE ~(cb + d <= PtrLimit)
  <2>1. q = k
    <3>1. q <= k
      <4> SUFFICES ASSUME k < q PROVE FALSE
        BY <1>3
      <4>1. k * d + d <= q * d
        BY <1>1, <1>3, Multiples
      <4> QED BY <1>1, <1>2, <1>3, <4>1
    <3>2. k <= q
      <4> SUFFICES ASSUME q < k PROVE FALSE
        BY <1>3
      <4>1. q * d + d <= k * d
        BY <1>1, <1>3, Multiples
      <4> QED BY <1>1, <1>2, <1>3, <1>6, <4>1
    <3> QED BY <1>3, <3>1, <3>2
  <2>2. PtrLimit % PtrLimit = 0 /\ 0 \div d = 0
    BY <1>1
  <2>3. PagesForBytes(cb) = 0
    BY <1>2, <1>4, <2>1, <2>2
  <2> QED BY <1>1, <1>6, <2>3 DEF d
<1> QED BY <1>5, <1>6

-----------------------------------------------------------------------------
(***************************************************************************)
(* The bitmap search implements the abstract allocator (its safety part):  *)
(* each step of a call is a request, a stutter, or the answer.             *)
(***************************************************************************)
LEMMA AbstractInit == Init => Abstract!AInit
  BY DEF Init, Abstract!AInit, Phase

\* The variables of the abstract allocator, as the refinement maps them.
Unmapped == UNCHANGED <<Phase, g_pageBitmap, FreePages, live, pageCount, hintAddress>>

LEMMA StutterStep == Unmapped => UNCHANGED Abstract!avars
  BY DEF Unmapped, Abstract!avars

LEMMA SearchIsStutter ==
  ASSUME SkipFullWord \/ FreePage \/ TakenPage \/ SearchFromStart \/ SearchResult
  PROVE  UNCHANGED Abstract!avars
<1>1. UNCHANGED <<g_totalMemory, g_pageBitmap, usedPages, live, pageCount, hintAddress>>
  BY DEF SkipFullWord, FreePage, TakenPage, SearchFromStart, SearchResult, call, globals
<1>2. pc \in {"searchHint", "searchStart"}
      /\ pc' \in {"searchHint", "searchStart", "mark", "outOfMemory"}
  BY DEF SkipFullWord, FreePage, TakenPage, SearchFromStart, SearchResult, VisitBit,
     SearchOver, Searching
<1>3. Phase' = Phase
  BY <1>2 DEF Phase
<1>4. FreePages' = FreePages
  BY <1>1 DEF FreePages, Searchable, EndWord
<1> QED BY <1>1, <1>3, <1>4, StutterStep DEF Unmapped

LEMMA BootIsStart ==
  ASSUME IInv, NEW m \in Maps, pmInitialize(m)
  PROVE  Abstract!Start
<1>1. /\ g_pageBitmap = 0 /\ pc = "boot" /\ pc' = "idle"
      /\ g_pageBitmap' = BitmapAddr(m) /\ g_totalMemory' = TotalMemory(m)
      /\ BitmapAddr(m) > 0 => usedPages' = InitialUsed(m)
      /\ UNCHANGED <<live, pageCount, hintAddress>>
  BY DEF pmInitialize, IInv, MapInv, call
<1>2. Phase = "off" /\ Phase' = "ready"
  BY <1>1 DEF Phase
<1>3. BitmapAddr(m) > 0 =>
        FreePages' = (0 .. (TotalMemory(m) \div BitmapWordSize) * WordBits - 1)
                        \ InitialUsed(m)
  BY <1>1 DEF FreePages, Searchable, EndWord
<1>4. BitmapAddr(m) = 0 \/ BitmapAddr(m) > 0
  BY BitmapAddrType
<1> QED BY <1>1, <1>2, <1>3, <1>4 DEF Abstract!Start

LEMMA AllocateIsRequest ==
  ASSUME IInv, NEW count \in Counts \ {0}, NEW hint \in Hints, pmAllocatePages(count, hint)
  PROVE  \E r \in [count : Counts \ {0}, hint : Hints \union {0}] : Abstract!Request(r)
<1>1. /\ pc = "idle" /\ pc' = "searchHint"
      /\ UNCHANGED <<g_totalMemory, g_pageBitmap, usedPages, live>>
      /\ pageCount' = count /\ hintAddress' \in Hints \union {0}
  BY DEF pmAllocatePages, globals
<1>2. Phase = "ready" /\ Phase' = "busy"
  BY <1>1 DEF Phase
<1>3. FreePages' = FreePages
  BY <1>1 DEF FreePages, Searchable, EndWord
<1> DEFINE r == [count |-> pageCount', hint |-> hintAddress']
<1>4. r \in [count : Counts \ {0}, hint : Hints \union {0}]
  BY <1>1
<1>5. Abstract!Request(r)
  BY <1>1, <1>2, <1>3 DEF Abstract!Request
<1> QED BY <1>4, <1>5

LEMMA MarkIsGrant ==
  ASSUME IInv, MarkFound
  PROVE  \E p \in FreePages : g_pageBitmap # 0 /\ Abstract!Grant(p)
<1>1. TypeOK /\ ResultInv /\ CareInv /\ MapInv /\ EndPage \in Nat
  BY EndPageFacts DEF IInv, SearchInv
<1>2. /\ pc = "mark" /\ pc' = "idle"
      /\ usedPages' = usedPages \union Pages(Found)
      /\ live' = live \union {Found}
      /\ UNCHANGED <<g_totalMemory, g_pageBitmap, pageCount, hintAddress>>
  BY DEF MarkFound, globals, call
<1>3. Phase = "busy" /\ Phase' = "ready" /\ g_pageBitmap # 0
  BY <1>1, <1>2 DEF Phase, MapInv
<1>4. /\ foundAddress \in Nat /\ pageCount \in Nat /\ pageCount > 0
      /\ foundAddress + pageCount <= EndPage
      /\ \A q \in foundAddress .. foundAddress + pageCount - 1 : q \notin usedPages
  BY <1>1, <1>2 DEF TypeOK, ResultInv, FoundRun, CareInv
<1>5. foundAddress .. (foundAddress + pageCount - 1) \subseteq FreePages
  BY <1>1, <1>4 DEF FreePages, Searchable, EndPage
<1>6. foundAddress \in FreePages
  BY <1>4, <1>5
<1>7. FreePages' = FreePages \ Pages(Found)
  BY <1>2 DEF FreePages, Searchable, EndWord
<1>8. Pages(Found) = foundAddress .. (foundAddress + pageCount - 1)
  BY DEF Pages, Found
<1>9. Abstract!Grant(foundAddress)
  BY <1>2, <1>3, <1>4, <1>5, <1>7, <1>8
  DEF Abstract!Grant, Abstract!Fits, Abstract!PagesOf, Found
<1> QED BY <1>3, <1>6, <1>9

LEMMA NullIsRefuse ==
  ASSUME IInv, ReturnNull
  PROVE  Abstract!Refuse
<1>1. TypeOK /\ ResultInv /\ MapInv /\ EndPage \in Nat /\ RefusalJustified
  BY EndPageFacts, IInvComplete DEF IInv, SearchInv
<1>2. /\ pc = "outOfMemory" /\ pc' = "idle"
      /\ UNCHANGED <<g_totalMemory, g_pageBitmap, usedPages, live, pageCount, hintAddress>>
  BY DEF ReturnNull, globals, call
<1>3. Phase = "busy" /\ Phase' = "ready" /\ g_pageBitmap # 0
  BY <1>1, <1>2 DEF Phase, MapInv
<1>4. FreePages' = FreePages
  BY <1>2 DEF FreePages, Searchable, EndWord
<1>5. pageCount \in Nat /\ pageCount > 0 /\ hintAddress \in Nat
  BY <1>1, <1>2 DEF TypeOK, ResultInv
<1> DEFINE r == [count |-> pageCount, hint |-> hintAddress]
<1>6. ASSUME NEW p \in FreePages, p .. (p + pageCount - 1) \subseteq FreePages,
             p >= hintAddress \/ p + pageCount <= hintAddress
      PROVE  /\ PassedOver(p)
             /\ p >= hintAddress => hintAddress = 0
  <2>1. p \in Nat /\ p + pageCount - 1 \in FreePages
    <3>1. p \in Nat
      BY <1>1 DEF FreePages, Searchable, EndPage
    <3> QED BY <3>1, <1>5, <1>6
  <2>2. p + pageCount <= EndPage
    BY <2>1, <1>1, <1>5 DEF FreePages, Searchable, EndPage
  <2>3. p .. (p + pageCount - 1) \intersect usedPages = {}
    BY <1>6 DEF FreePages
  <2>4. p >= hintAddress => FreeRun(p, pageCount, hintAddress, EndPage)
    BY <2>1, <2>2, <2>3 DEF FreeRun
  <2>5. p + pageCount <= hintAddress => FreeRun(p, pageCount, 0, hintAddress)
    BY <2>1, <2>2, <2>3 DEF FreeRun
  <2> QED BY <2>4, <2>5, <1>1, <1>2, <1>6 DEF RefusalJustified, EndPage
<1>7. ASSUME NEW p \in FreePages, PassedOver(p)
      PROVE  pageCount = 1 /\ 0 .. p \subseteq FreePages
  <2>1. pageCount = 1 /\ 0 .. p \intersect usedPages = {} /\ p \in 0 .. EndPage - 1
    BY <1>7 DEF PassedOver, FreePages, Searchable, EndPage
  <2>2. 0 .. p \subseteq 0 .. EndPage - 1
    BY <2>1, <1>1
  <2> QED BY <2>1, <2>2 DEF FreePages, Searchable, EndPage
<1>8. ~ \E p \in FreePages : Abstract!Promised(p, r)
  <2> SUFFICES ASSUME NEW p \in FreePages, Abstract!Promised(p, r) PROVE FALSE
    OBVIOUS
  <2>1. /\ p .. (p + pageCount - 1) \subseteq FreePages
        /\ p >= hintAddress \/ p + pageCount <= hintAddress
        /\ pageCount = 1 /\ 0 .. p \subseteq FreePages => p >= hintAddress /\ hintAddress > 0
    BY <1>3 DEF Abstract!Promised, Abstract!Fits
  <2>2. PassedOver(p) /\ (p >= hintAddress => hintAddress = 0)
    BY <1>6, <2>1
  <2> QED BY <1>5, <1>7, <2>1, <2>2
<1> QED BY <1>2, <1>3, <1>4, <1>8 DEF Abstract!Refuse

LEMMA FreeIsRelease ==
  ASSUME IInv, NEW block \in live, pmFree(block)
  PROVE  Abstract!Release(block)
<1>1. TypeOK /\ LiveInv /\ MapInv /\ EndPage \in Nat
  BY EndPageFacts DEF IInv
<1>2. /\ pc = "idle" /\ pc' = "idle"
      /\ live' = live \ {block}
      /\ UNCHANGED <<g_totalMemory, g_pageBitmap, pageCount, hintAddress>>
  BY DEF pmFree, globals, call
<1>3. Phase = "ready" /\ Phase' = "ready" /\ g_pageBitmap # 0
  BY <1>1, <1>2 DEF Phase, MapInv
<1>4. Pages(block) \subseteq 0 .. EndPage - 1
  BY <1>1 DEF LiveInv, TypeOK, Block, Pages
<1>5. usedPages' = usedPages \ Pages(block)
  <2>1. \A p \in Pages(block) : p * PageSize < g_totalMemory
    BY <1>1, <1>4, EndPageFacts
  <2> QED BY <2>1 DEF pmFree
<1>6. FreePages' = FreePages \union Pages(block)
  BY <1>2, <1>4, <1>5 DEF FreePages, Searchable, EndPage, EndWord
<1>7. Pages(block) = Abstract!PagesOf(block)
  BY DEF Pages, Abstract!PagesOf
<1> QED BY <1>2, <1>3, <1>6, <1>7 DEF Abstract!Release

LEMMA AbstractStep == IInv /\ [Next]_vars => [Abstract!ANext]_(Abstract!avars)
<1> SUFFICES ASSUME IInv, [Next]_vars PROVE Abstract!ANext \/ UNCHANGED Abstract!avars
  OBVIOUS
<1>1. CASE Boot
  BY <1>1, BootIsStart DEF Boot, Abstract!ANext
<1>2. CASE Client
  <2>1. ASSUME NEW count \in Counts \ {0}, NEW hint \in Hints, pmAllocatePages(count, hint)
        PROVE  Abstract!ANext
    BY <2>1, AllocateIsRequest DEF Abstract!ANext
  <2>2. CASE pmAllocateNothing
    BY <2>2, StutterStep DEF Unmapped, pmAllocateNothing, globals, call, Phase, FreePages,
       Searchable, EndWord
  <2>3. ASSUME NEW block \in live, pmFree(block) PROVE Abstract!ANext
    BY <2>3, FreeIsRelease DEF Abstract!ANext
  <2> QED BY <1>2, <2>1, <2>2, <2>3 DEF Client, Release
<1>3. CASE CallStep
  <2>1. CASE MarkFound
    BY <2>1, MarkIsGrant DEF Abstract!ANext, Abstract!Answer
  <2>2. CASE ReturnNull
    BY <2>2, NullIsRefuse DEF Abstract!ANext, Abstract!Answer
  <2> QED BY <1>3, <2>1, <2>2, SearchIsStutter DEF CallStep
<1>4. CASE UNCHANGED vars
  BY <1>4, StutterStep DEF Unmapped, vars, globals, call, Phase, FreePages, Searchable, EndWord
<1> QED BY <1>1, <1>2, <1>3, <1>4 DEF Next

(***************************************************************************)
(* Every behaviour of the allocator is, through the refinement mapping, a  *)
(* behaviour of the abstract allocator.                                    *)
(***************************************************************************)
THEOREM Refinement == CarefulSpec => Abstract!ASafeSpec
  BY AbstractInit, AbstractStep, CarefulIsNext, Invariant, PTL DEF CarefulSpec, Abstract!ASafeSpec
=============================================================================
