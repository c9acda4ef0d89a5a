----------------------------- MODULE PhysMemMap -----------------------------
(***************************************************************************)
(* The arithmetic pmInitialize does on the BIOS memory map: how much       *)
(* memory there is, where the page bitmap goes, and which of its bits are  *)
(* set once ConstructBitmap has run (KernelBase/src/physmem.cpp).          *)
(*                                                                         *)
(* Addresses and sizes are bytes.  A memory map is a SET of entries: every *)
(* loop of the code over mmap->entries takes a maximum or clears bits, so  *)
(* the order of the entries plays no part.  The widths of the machine are  *)
(* CONSTANTS; sums of 64-bit values do not wrap (a BIOS reports no region  *)
(* that ends above 2^64), pointer-sized values wrap at PtrLimit.           *)
(***************************************************************************)
EXTENDS Integers, FiniteSetsExt

CONSTANTS
    PageSize,       \* bytes in a page
    BitsPerByte,    \* bits in a byte of the bitmap
    WordBytes,      \* sizeof(bitmap_word_t) == sizeof(uintptr_t)
    PtrLimit        \* UINTPTR_MAX + 1

(***************************************************************************)
(* The bitmap of a full address space takes whole pages: 2^32 bytes are    *)
(* 2^20 bits, 2^17 bytes, 32 pages; and a page whole words: 1024.          *)
(***************************************************************************)
ASSUME WidthAssumption ==
    /\ PageSize \in Nat \ {0}
    /\ BitsPerByte \in Nat \ {0}
    /\ WordBytes \in Nat \ {0}
    /\ PtrLimit \in Nat \ {0}
    /\ PtrLimit % (PageSize * PageSize * BitsPerByte) = 0
    /\ PageSize % WordBytes = 0

WordBits       == BitsPerByte * WordBytes       \* BitsPerBitmapWord
BitmapWordSize == PageSize * WordBits
UINTPTR_MAX    == PtrLimit - 1

\* "Reserved" stands for every other type of the BIOS (NVS, bad memory, ...).
RegionTypes == {"Usable", "Reserved", "AcpiReclaimable"}
MemMapEntry == [base : Nat, length : Nat, regionType : RegionTypes]

Top(entry)      == entry.base + entry.length
UsableIn(mmap)  == {e \in mmap : e.regionType = "Usable"}

CeilDiv(n, d)       == (n + d - 1) \div d
PageAlignDown(addr) == (addr \div PageSize) * PageSize
PageAlignUp(addr)   == CeilDiv(addr, PageSize) * PageSize

\* (ptrdiff_t)n for an n that fits a pointer: the upper half is negative.
ToPtrdiff(n) == IF 2 * n >= PtrLimit THEN n - PtrLimit ELSE n

\* The pages whose address a loop `for (a = base; a < end; a += PageSize)' visits.
PagesIn(base, end) == (base \div PageSize) .. (CeilDiv(end, PageSize) - 1)

-----------------------------------------------------------------------------
(***************************************************************************)
(* g_totalMemory: the top of the highest usable or reclaimable region,     *)
(* capped to the largest pointer.                                          *)
(***************************************************************************)
TotalMemory(mmap) ==
    LET tops == {Top(e) : e \in {x \in mmap : x.regionType \in {"Usable", "AcpiReclaimable"}}}
    IN  Min({Max(tops \union {0}), UINTPTR_MAX})

NumBitmapWords(total) == CeilDiv(total, BitmapWordSize)
BitmapSize(total)     == NumBitmapWords(total) * WordBytes

(***************************************************************************)
(* The place for the bitmap at the top of one usable region, if the code   *)
(* accepts the region; the bitmap goes to the highest of these, and        *)
(* address 0 stands for "no place".                                        *)
(***************************************************************************)
UsableTop(entry)            == Min({Top(entry), UINTPTR_MAX})
\* Wrong: at the bottom of the region.
BitmapAddrTest_Bottom(entry, size) == PageAlignUp(entry.base)

BitmapAddrTest(entry, size) == PageAlignDown(UsableTop(entry) - size)

HoldsBitmap(entry, size) ==
    /\ UsableTop(entry) > entry.base
    /\ ToPtrdiff(UsableTop(entry) - entry.base) > size
    /\ BitmapAddrTest(entry, size) > entry.base

BitmapAddr(mmap) ==
    LET size == BitmapSize(TotalMemory(mmap))
    IN  Max({0} \union {BitmapAddrTest(e, size) :
                            e \in {x \in UsableIn(mmap) : HoldsBitmap(x, size)}})

-----------------------------------------------------------------------------
(***************************************************************************)
(* ConstructBitmap.  A page is "used" when its bit is set: all bits first, *)
(* minus the pages of the usable regions, plus the pages of the bitmap.    *)
(* Both ends of a region are truncated to a pointer.                       *)
(***************************************************************************)
BitmapBits(total) == 0 .. (NumBitmapWords(total) * WordBits - 1)

\* Wrong: frees the partial page at the start of the region.
UnusedIn_RoundsDown(entry) ==
    PagesIn(PageAlignDown(entry.base) % PtrLimit, PageAlignDown(Top(entry)) % PtrLimit)

\* Wrong: rounds the base and the length, not their sum.
UnusedIn_RoundsEach(entry) ==
    PagesIn(PageAlignUp(entry.base) % PtrLimit,
            (PageAlignDown(entry.base) + PageAlignDown(entry.length)) % PtrLimit)

UnusedIn(entry) ==
    PagesIn(PageAlignUp(entry.base) % PtrLimit, PageAlignDown(Top(entry)) % PtrLimit)

\* Wrong: leaves out the partial page at the end of the bitmap.
BitmapPages_RoundsDown(address, size, total) ==
    PagesIn(PageAlignDown(address), PageAlignDown(address + size))

BitmapPages(address, size, total) ==
    LET base == PageAlignDown(address)
        end  == PageAlignUp(address + size) % PtrLimit
    IN  PagesIn(base, IF end < base THEN total ELSE end)

InitialUsed(mmap) ==
    LET total == TotalMemory(mmap)
    IN  (BitmapBits(total) \ UNION {UnusedIn(e) : e \in UsableIn(mmap)})
            \union BitmapPages(BitmapAddr(mmap), BitmapSize(total), total)
=============================================================================
