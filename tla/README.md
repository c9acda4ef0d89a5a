# NerbOS in TLA+

NerbOS is a small PC operating system that boots from a floppy: a boot loader in
assembler, a kernel in C and C++ (memory, screen, printing), and C# tools that
build the floppy image. This directory holds TLA+ modules for every part of it
that decides anything, TLC configurations for them, and proofs, for every part,
of all the safety properties the passing runs check. Paths below are relative to the
repository; `KernelBase` is `src/KernelBase`.

## The system

| Component | State | Operations | Made correct by |
|---|---|---|---|
| Physical page allocator, `KernelBase/src/physmem.cpp` | `g_totalMemory`, `g_allocatedMemory`, `g_pageBitmap` and the bitmap itself | `pmInitialize`, `pmAllocatePages`, `pmAllocateBytes`, `pmFree`, three getters | no page given twice, no reserved page given, nothing lost, null only if there is no room, the counter exact |
| Kernel main routine, `FloppyInstallKernel/src/Main.cpp` | two locals | masks the IRQs, starts the run time, initialises screen, cursor and memory, prints the memory map, allocates and frees once | gives back what it took, from memory that was usable |
| VGA text screen, `KernelBase/src/vgatext.cpp` | video memory, `cursorX`, `cursorY`, the CRT controller's registers | print, clear, set and get the cursor, enable and disable it, the bits of a cell | writes stay on the screen, scrolling loses one row and no other, the shown cursor is the kernel's and can be seen, a cell gives back character and colours |
| `kprintf`, `KernelBase/src/kprintf.c` | none between calls | `kprintf`, `kvprintf` to a stream of characters (the screen's is `vtKPrintfStream`) | arguments in step with the format, the layout C11 says, no character beyond a format or a buffer |
| C runtime start-up, `KernelBase/src/krtinit.c` | the tables of initializers, processor feature words | `nos_krt_init` | each function runs once, in order, none after a failure |
| Boot loader, `src/FloppyInstallBootstrap/FloppyInstallBootstrap.asm` | registers, the FATs and root directory in memory, the loaded image, the memory map | read a sector with retries, find the kernel file, follow its clusters, load its sections, open the A20 gate, ask the BIOS for the memory map, enter protected mode | what runs is the file's content on a machine that is ready for it, and every failure halts with a message |
| Floppy image builder, `tools/NerbOS.FloppyBuilder` | the command line, the source files, the image, the next free cluster and root entry | parse the command line, collect the files, add boot sector and files, write the image | chains of different files share no cluster, both FATs agree, the loader's functions read every file back, all or nothing |
| Build tasks, `tools/NerbOS.BuildTasks`; `tools/PdbToBochsSymbols`; platform headers | none | | not modelled, see the end |

How they meet: the image builder writes the disk the boot loader reads; the boot
loader leaves the BIOS memory map at 0x1000 and calls `kmain` with it; `kmain`
runs `nos_krt_init`, sets up the screen, calls `pmInitialize` with the map, then the allocator; everything prints through
`kprintf` to `vtPrintChar`.

The kernel has one processor and `kmain` masks every IRQ
before anything else: it has no interleaving, a call runs from its
start to its end (the lock that physmem.cpp asks for in a TODO has no second
thread yet). Two parts do run beside something: the boot loader beside the
keyboard controller, which takes bytes when it likes, and the timer; the image
builder beside every program that may change a source file. What else is hard in
this code is arithmetic at the edges of words, pages, regions, sectors
and pointers; state carried across the iterations of nested loops; long
sequences of calls that must leave bitmap, counter and callers in agreement; a
step that fails and a caller that goes on; disk reads
that fail and are tried again; and a format string parsed by hand, whose
arguments are found by counting. `PROJECT.json` lists these hazards line by line.

## Modules

| Module | Models |
|---|---|
| `PhysMemMap` | the arithmetic of `pmInitialize` and `ConstructBitmap` as operators on a memory map: `TotalMemory`, the place of the bitmap (`BitmapAddr`), the pages marked at first (`InitialUsed`) |
| `PhysMem` | the allocator as a state machine. `pc` says where the call in progress stands; the two loops of `FindUnused` are actions, one per bit visited (`FreePage`, `TakenPage`) or full word skipped (`SkipFullWord`); `SearchFromStart` is the second search; `MarkFound` and `ReturnNull` end the call; `pmFree` is one action. The bitmap is the set `usedPages`; `live` is what callers hold and has no counterpart in the code |
| `PhysMemProps` | the properties of the allocator and the refinement mapping |
| `PageAllocator` | the abstract allocator: requests, grants, refusals, releases |
| `PhysMemContract` | the allocator with a careful client, one that asks for nothing the search gets wrong (`Served`) |
| `PhysMemInv` | the inductive invariant |
| `PhysMemMapProofs` | lemmas on division and least elements, the arithmetic of `PhysMemMap`, and what the allocator's steps keep whoever the client is; used by the next one and by `KMainProofs` |
| `PhysMemProofs` | the theorems of the allocator with a careful client, its refinement of `PageAllocator` among them |
| `KrtInit` | `nos_krt_init`: one action per entry of a table of initializers (`RunInitializer`, `RunConstructor`), the ends of the tables, and the instruction set levels (`InitIsa`); a failing C initializer runs into a break, which is a fault; `ran` remembers what was called |
| `VgaCursor` | the CRT controller's registers behind one index and one data port (`Select`, `WriteData`, `ReadData`): `vtInitialize`, `vtEnableCursor`, `vtDisableCursor`, and `PutCursor`, which everything that moves the cursor ends with |
| `VgaCursorProofs` | the location of the cursor proved |
| `VgaChar` | the sixteen bits of a cell, as operators on sets of bits |
| `VgaText` | printing and scrolling: one action per kind of character, one per cell copied or blanked |
| `Terminal` | a window over an endless sheet of paper, the abstract screen |
| `VgaTextProofs` | the screen proved, its refinement of `Terminal`, and what a cell keeps |
| `KMain` | `kmain`: one action per call it makes, on the variables of `PhysMemProps`, `VgaCursor` and `KrtInit`, whose own actions are the bodies of the calls |
| `KMainProofs` | through all of `kmain`: the order of the run time's functions, the cursor, and memory before and after |
| `KPrintf` | `kvprintf`: `pc` follows the parser from part to part of a conversion specification, one action per character of flags, width and length; `stars` are the arguments a specification takes before its own; each conversion writes in one step. The format and what lies behind its terminator are `memory`, the arguments `stack` |
| `KPrintfProps` | the layout C11 prescribes, written once for all conversions, and where the code keeps to it |
| `KPrintfProofs` | `kvprintf` proved: types, buffer, format, arguments, and the text it prints |
| `Fat12` | twelve-bit FAT entries: `SetFatEntry` of the image builder, `GetFatEntry` of the boot loader |
| `FloppyImage` | the image builder from its command line to the written image, one action per argument, file, and sector of a file; `WriteImage` writes all of the image, a part of it or nothing; `Rewrite` and `Delete` are another program that changes or deletes a source file between two of its steps |
| `FloppyImageProps` | its properties; files are read back with the boot loader's functions |
| `FloppyImageProofs` | the packing of FAT entries, the chains of an image and the files in it proved |
| `BootLoader` | the boot loader from its own first sector to the entry of the kernel. `pc` is the read or the step that comes next; a read succeeds (`LoadReserved`, `InitFat12`, `LoadHeader`, `LoadSector`, ...), fails and is tried again (`TryFails`) or fails for good (`ReadFails`). `SendCommand` and `SendByte` wait for the keyboard controller, which takes what was sent in `ControllerReads`; `EnterKernel` jumps to the entry point the header names; `Tick` is a timer interrupt in protected mode, which has no handler |
| `BootLoaderProps` | its properties, and the floppies and images they speak of (`Sound`) |
| `BootLoaderProofs` | the loader proved, from its first read to the entry of the kernel |
| `MC*` | constants for TLC |

Operators named `X_Something` under a comment that begins with "Wrong:" are variants of `X`
with a plausible mistake. Nothing in a specification uses them; each is put in
the place of `X` to see that a property notices.

### Abstractions, by name

*Allocator.* An address in `PhysMem` is a page number and a hint is the
address of a page (the code takes any pointer). The machine's widths are
constants: `PtrLimit` is 2^32, `WordBytes` 4, `BitsPerByte` 8, `PageSize` 4096 in
the 32-bit kernel that is built. Sums of 64-bit values do not wrap, a request is
below 2^31 pages (the code passes it as an `int`), and `g_allocatedMemory` counts
modulo `CounterLimit` pages for its 64 bits. The order of the map's entries is
dropped because no loop over them depends on it. A 64-bit build would also have
to widen `1 << pageBit`, an `int` shift; the word of the built kernel has 32
bits and it is exact. `pmAllocateBytes` also stores the page count: its
caller `KMain` keeps it in `numPages`, as `kmain` does.

*Kernel main routine.* A print is what it does to the cursor (`Prints`): it ends at some cell
of the screen, and the hardware is told. The prints of one step of the model are one print. A null bitmap is read as an empty one. The Bochs breaks (`xchg bx, bx`) do nothing on a
processor and are left out. The `__debugbreak()` behind a failing initializer is not: a misspelt `NDBEUG`
keeps it in every build, and as the kernel loads no interrupt table it is a fault for good.

*Screen.* A cell of `VgaText` is a character with its colour. That is what the
sixteen bits give back for an ASCII character (theorem `CellIsCharAndColors`). The
CRT controller of `VgaCursor` answers at the ports of the colour mode only; a
register is the set of its bits.

*kprintf.* A format is a sequence of pieces, characters or directives, spelled out
into the memory that the parser reads; `Characters` are all there are, of which it knows
`KnownCharacters`. A string argument is read and written in one step, and so is a number
with its padding. Characters have `CharBits`, `short` and `int` `ShortBits` and `IntBits`,
`long long` two `int`s; `long`, `size_t`, `ptrdiff_t` and pointers are `int`s, as in the 32-bit
build. Wide characters and floating point are compiled out of the kernel, so
their branches are those that print nothing.

*Image builder.* A directory entry remembers the path of its file in the place of name,
date and attributes. A byte of a file is its position in a version of the file.
An exception before the end leaves no image, since the file is written only at the very end; that
write itself may succeed, leave a part, or fail (pc `partial` and `error`).

*Boot loader.* Memory is counted in sectors, and a sector of memory holds the
number (LBA) of the disk sector that was read into it: this is all that is
needed to say whether the right sector is in the right place. A PE file is its
list of sections. Their headers are found by what is in memory where the code
reads: where that is no header sector the code gets any of
`GarbageSections`. A cluster number that leads behind the FATs (the code asks only whether it is
below 0FF0h) is looked up in what memory holds there, `BehindFat0` and `BehindFat1`. A file name is what the search can tell of it: whether it is
the kernel's, and whether it has a character in common with it. The keyboard
controller has one buffer; it takes a byte and acts on it in one step. Left out: the
copy of the boot sector to 0x600, which is over when the model starts, messages,
the video mode and the descriptor table.

## Runs

| Run | Question | Bounds |
|---|---|---|
| `allocator` (`MCPhysMem.cfg`) | do all sequences of allocations and frees keep what they must, and does every call return | 12 pages in 3 words of 4 bits: runs within a word, over one border and over two; two maps with page 0 reserved, one with a hole in the middle of a word and one with a partial last word, and one with page 0 usable, as on a PC; a careful client; requests of 0, 1, 3, 5 pages; no hint, a hint in the middle, a hint at the last word |
| `high_memory` (`MCPhysMemHigh.cfg`) | does the first bitmap respect maps above the pointer range: violated | regions that reach 80 of 64 addressable bytes |
| `page_zero` (`MCPhysMemPageZero.cfg`) | page 0 usable, as the BIOS of a PC reports: violated | one region from 0 |
| `null_with_memory` (`MCPhysMemNull.cfg`) | null as physmem.h describes it: violated | eleven pages, the last three of them in a partial word; no hint; requests of 1, 3 and 4 pages |
| `kmain` (`MCKMain.cfg`) | is the first bitmap right for every map; does `kmain` leave memory as it found it, respect reserved pages, call the run time's functions in order, leave a cursor that can be seen where it should be, and reach its end | every map of up to three regions with ends among nine cuts of 64 bytes, on and off the borders of 16 pages of 4 bytes; ports for colour and monochrome, characters of 1 to 32 lines, bits above the line number, cursor disabled or not; tables of up to three initializers and two constructors with gaps and failures |
| `screen` (`MCVgaText.cfg`) | does the screen behave as a terminal | 3 rows of 3 cells with any content, texts of up to two characters, any start position: a text can wrap and scroll twice, and texts follow each other without end |
| `kprintf` (`MCKPrintf.cfg`) | does `kvprintf` keep arguments, format and buffer in step, print what C11 says, return | all combinations of flags, widths, lengths and types in a directive followed by another one, stars, precisions, directives broken off at every place, `kmain`'s own formats; arguments at the ends of their ranges with `char` of 4, `short` of 8 and `int` of 12 bits; the buffer of 64 characters |
| `floppy` (`MCFloppyImage.cfg`) | does every image give every file back, through the loader's functions; is it all or nothing; does the builder end | 12 sectors of 8 bytes: two FATs of 3 sectors, a root of two entries, 4 clusters; command lines good and bad; files of 0 to 29 bytes, below, at and above borders of sectors and the space there is; names with short or no extension, directories, missing files; one change or deletion at any moment; `int.MaxValue` 28 |
| `boot` (`MCBootLoader.cfg`) | is the kernel entered at its entry with its image, the BIOS's map and the A20 gate open, does booting stop only for a reason, does it end | floppies of 18 sectors (3 cylinders, 2 heads, 3 sectors a track), of which 3 reserved and 3 of file system; files of six clusters in order and scattered, with one section, an empty one, and three out of order; a bad sector in each area; two files; short, corrupt, empty and deleted ones, and chains that lead behind the FATs and back; up to 4 tries of a good sector that fail in a row, which is every try there is; a keyboard controller with or without a byte waiting, the gate open or closed; every way the BIOS can end a map of up to 2 entries, and a map that is full |
| `boot_wrong_file` (`MCBootLoaderFile.cfg`) | does `FindFileByName` find by name: violated | two files, the kernel second |
| `boot_read_error` (`MCBootLoaderError.cfg`) | does `LoadPEFile` return an error to its caller: violated | the floppies of `boot` |
| `boot_five_attempts` (`MCBootLoaderTries.cfg`) | does `TryInt13Fn2` make five attempts: violated | the floppies of `boot` |

Eighteen sectors make every file cross tracks, heads and cylinders. A fifth failure of a sector is
never met: `TryInt13Fn2` makes four tries, so four failures in a row are already every one
of them, and `StopsOnlyForReason` holds for any number (theorem `StopsForReason`). Three rows are the fewest
for which a scroll copies a row it must still read; three words are the fewest
with a word that a run can cross entirely. Four clusters are two files of two
sectors, of which the second may be one too long; twelve bits of `int` give
numbers of four decimal digits, so that every base has digits to pad and to
lose. In `kmain` registers and tables vary on one map only: no call on them
reads memory, and no call on memory reads them.

Deadlock is checked for `allocator` and `screen`. The other specifications do
stop: `kmain`, a call of `kvprintf` and the builder end, the boot
loader ends in the kernel, in a message or lost.

Fairness: weak fairness on the steps of a call (`CallStep`, `PrintStep`, all of
`KPrintf`), of `kmain`, of the builder's own steps (`Builder`; no fairness on
`Rewrite` and `Delete`), and of the boot loader (`Loader`), where a BIOS call is taken to return.
A call is a loop on the only processor with interrupts
masked; nothing can keep it from its next step, and the builder is a program the
system schedules. No fairness is assumed
of callers. `ControllerReads` is fair too: the loader waits for the keyboard
controller without a limit, and without a controller that takes its bytes it
would wait for ever. `Tick` is not: a boot need not meet one.

### What the violated runs show

- *Page 0.* `FindUnused` keeps the base of a run in a variable where 0 means "no
  run". A run that begins at page 0 gets base 1 but counts page 0, so one page
  beyond it is marked and returned too.
- *Null.* The search ends at the last whole word of the bitmap, so the pages of a
  partial last word (up to 124 KB) are never given out.
- *High memory.* `ConstructBitmap` cuts both ends of a region to 32 bits: memory
  above 4 GB clears bits of low pages; and a region that ends exactly at 4 GB frees nothing.
  The proof of `OnlyUsableIsFree` met a relative of this: a usable region that lies strictly
  within the last page below 4 GB is rounded up to address 0 and frees every page
  (`Addressable` leaves both out).
- *Wrong file.* `FindFileByName` goes through the directory with the wrong pointer
  and takes an entry for the kernel's if one of the eleven characters is the
  same. Images are built with the kernel as the only file, so it works. If
  the first entry is deleted or has no character in common the loop may run for ever;
  `BootEnds` is stated for the other floppies (`FoundAtOnce`).
- *Read error.* `LoadPEFile` leaves a word on the stack when a read fails inside a
  section; `popa`, `leave` and `ret` then use the wrong words.
- *Five attempts.* `TryInt13Fn2` sets its counter to 5 and counts down before each try, so it makes
  four: a sector whose fifth try would be good ends the boot. The run stops at a counter that has run out
  after four failures.

### What the passing runs leave out

Some properties hold only under a condition they state. The conditions are part
of the result: each names a case in which the code does something else.

- `ImageLoaded` and `StopsOnlyForReason` speak of a `Sound` floppy: the kernel is the
  first file, complete, with the same chain in both FATs; its headers are in the first
  sectors of the file, where the loader looks; no two sections overlap; and only the last
  one reaches beyond 64 KB. The last condition is needed because
  `LoadPEFile` reads each section header through `es`, which it has moved with the
  section before. The offset of an empty section must lie within the file too:
  `FileLbaToCluster` follows the chain to it before the size is looked at, and
  halts at the end of the chain. A reason for `StopsOnlyForReason` is that all
  four tries of a sector the image needs have failed, whether or not it is bad; that there should be five
  is the violated run `boot_five_attempts`. It is not about `Tick`: the loader enters
  protected mode with interrupts on, and a timer tick before `kmain` masks the
  IRQs finds no handler. The model has that step, and `BootEnds` counts where it
  leads as an end.
- The allocator's properties, `TypeOK` apart, are for a careful client (`CarefulSpec`). It gives hints that begin a
  bitmap word, because `FindUnused` takes a hint for the address of bit 0 of its word; and it never asks
  for exactly the pages there are from page 0 on (`OneTooFar`), where the block that is found ends one page beyond
  them (run `page_zero`). Neither is checked by the code. `RefusalJustified` leaves out a request for one page
  that would lie in the run from page 0 on: its base is 0, which is "none" (`PassedOver`).
- `kmain` is such a client on every map but some, and its properties are stated for all. What its last
  step may then free is `Lost`: after a failed allocation it frees address 0 with the page count
  `pmAllocateBytes` has stored, so page 0 and the next ones, whatever they are; and where the free pages from page
  0 on are exactly as many as it asks for, the page behind them. `MemoryRestored` says that memory is as before but for
  these pages, and that a failed allocation is counted off `g_allocatedMemory` all the same; `MapRespected`
  and `BitmapKept` leave the last step out if it loses a page (`NothingLost`), and nothing else.
  If `pmInitialize` failed the search takes what is at address 0 for a bitmap; `MemoryRestored` is for
  maps that have one. The boot loader hands over an empty map when `LoadMemoryMap` gives up on a first entry
  with the carry flag clear.
- `ReachesEnd` is for tables of which no C initializer fails (`NoneFails`): behind one that does is the break.
  So `nos_krt_init` never returns false on a processor, and `kmain`'s test of it is dead.
- `CursorVisible` is about characters of three lines and more, and about the start
  and end lines: the maximum scan line register is not masked, and its upper bits reach the
  skew bits of the cursor's end. `vtInitialize` and `vtEnableCursor` are both needed for it.
- `PrintsAsC11` is for `Supported` directives. Elsewhere the code prints something else: with both '-' and
  '0' it masks the flags to `FF_ZeroPad` where it means to remove it (kprintf.c:168-169), so the '-' is
  lost and the number is padded with zeros on the left;
  `%%` prints nothing, since the test of a percent specification contradicts
  itself; `%c` of 0 prints nothing; a decimal number gets one blank where its
  field lacks several; no precision is ever parsed, because its '.' is never
  skipped, and its text is printed; the least `int` as a width from an argument
  stays negative; a written width of 2^31 and more overflows, and so does the padding beside a
  string longer than that. `StaysInFormat` leaves out a directive that lacks its conversion
  character (`CutOff`): where the format ends there the terminator is skipped and
  parsing goes on behind it, and where it goes on with a character that is none that one is
  skipped. `BufferHolds` depends on the missing precision: `unsigned_to_string` itself
  has no bound.
- `FilesReadBack` and `UntouchedIsExact` are for images written to their end, for no more files than root entries (the builder counts neither
  entries nor clusters: a thirty-third entry lies over the first bytes of
  cluster 2) and for sizes whose sectors an `int` can count (`Countable`): beyond, `NumSectors` wraps and the entry has its
  size but no byte is written. An empty file
  gets the next unused cluster as its first one, which the next file then owns.
  An extension shorter than three characters throws, and no image is written; so does a
  subdirectory of the input directory. A file that shrinks between the
  moments its length and its bytes are read is filled up with zeros if it is short by
  less than its last sector, and throws otherwise; one that grows is cut.

Read in the code and left at that: a run that lies across the hint is in neither of the two
searches, so it is not found (`RefusalJustified` is worded side by side); the bitmap reserves neither the kernel's image at
0x10000 nor the memory map at 0x1000; `vtSetCursorPos` is declared for one
column and one row too many, and a character printed there is off the screen; vgatext.h's table of colour bits has blue and green the other way round
than its enumeration; `VgaChar::SetColor`, which nothing calls, does not shift the
colours (theorem `SetColorColorsTheChar`); a character of 0x80 or more fills the
colours of its cell with its sign (`HighCharLosesColors`); a request above 0xFFFFF000 bytes
wraps to no pages (`BytesAreHeld`).

## Proofs

| Module | Theorem | Property |
|---|---|---|
| `PhysMemProofs` | `TypeCorrect`, `NeverAllocatedTwice`, `BitmapAlwaysExact`, `NullIsJustified`, `HintIsTriedFirst`, `AllocatedAlwaysExact`, `BitmapStaysProtected` | `TypeOK`, `NoDoubleAllocation`, `BitmapExact`, `RefusalJustified`, `HintFirst`, `AllocatedExact`, `BitmapProtected` |
| | `OnlyUsableIsFree`, `NoUsablePageLost` | `OnlyUsableFree` (and every page a caller holds is usable), `UsableAllFree` |
| | `Invariant`, `Refinement` | the inductive invariant; the allocator implements the safety part of `PageAllocator` |
| | `BytesAreHeld` | the page count of a request in bytes |
| `VgaCursorProofs` | `LocationAlwaysFollows` | `LocationFollows`, under any sequence of operations on the cursor |
| `VgaTextProofs` | `ScreenTypeOK`, `PrintsOnScreen`, `HardwareCursorFollows` | `TypeOK`, `WritesOnScreen`, `CursorFollows` |
| | `ScreenImplementsTerminal` | `ImplementsTerminal`: printing refines the endless sheet |
| | `CellIsCharAndColors`, `SettersKeepTheRest`, `HighCharLosesColors`, `SetColorColorsTheChar` | what a cell gives back |
| `KMainProofs` | `RuntimeStartsInOrder` | `CalledInOrder` |
| | `KMainCursorFollows`, `KMainCursorVisible` | `LocationFollows`, `CursorVisible` |
| | `KMainMapRespected`, `KMainBitmapKept`, `KMainUsableAllFree`, `KMainBitmapHighest` | `MapRespected`, `BitmapKept`, `UsableAllFree`, `BitmapHighest` |
| | `KMainNullIsJustified`, `KMainMemoryRestored` | `RefusalJustified` of `kmain`'s request, `MemoryRestored` |
| `KPrintfProofs` | `KPrintfTypeOK`, `NumbersStayInBuffer` | `TypeOK`, `BufferHolds` |
| | `FormatNeverLeft`, `ArgumentsStayInStep` | `StaysInFormat`, `ArgsInStep` |
| | `PrintsAsPrescribed` | `PrintsAsC11` |
| `FloppyImageProofs` | `ReadsWhatWasSet`, `OthersStay` | the packing of FAT entries |
| | `BuilderTypeOK`, `ChainsStayInOrder` | `TypeOK`, `ChainsInOrder` |
| | `UntouchedFilesAreExact`, `NothingIsLeftOut`, `FilesAreReadBack` | `UntouchedIsExact`, `NothingLeftOut`, `FilesReadBack` |
| `BootLoaderProofs` | `ChsIsLba` | a sector number and its cylinder, head and sector name the same sector |
| | `BootInvariant`, `BootTypeOK` | the inductive invariant; `TypeOK` |
| | `KernelIsLoaded`, `KernelFindsMachine`, `StopsForReason` | `ImageLoaded`, `MachineReady`, `StopsOnlyForReason` |

All hold for every value of the constants under the assumptions the modules
name:

- *Widths.* The page, word and pointer sizes divide each other as powers of two do
  (`WidthAssumption` of `PhysMemMap`). In `KPrintf` the buffer has room for
  any number in octal, and for a pointer with its `0x`; 64 characters do for 64 bits. An
  `int` counts to twice its length.
- *Memory.* Maps, counts and hints are what their types say (`CallAssumption`), and the counter is wider than the
  pages there are (`CounterIsWide`). Of a map nothing else is asked: page 0 may be free. The theorems of
  `PhysMemProofs` but `TypeCorrect` and `BytesAreHeld` are about `CarefulSpec`, whose client is described above; those of
  `KMainProofs` are about `kmain` itself, on maps whose usable memory a pointer reaches
  (`MemoryAddressable`). `OnlyUsableIsFree` has the same hypothesis (`Addressable`).
- *Screen.* Callers set the cursor to a place on the screen (`ScreenAssumption`); registers are
  sets of bits (`RegistersAssumption`).
- *Run time.* Its tables are sequences of results and gaps (`TablesAssumption` of `KrtInit`).
- *Formats.* Only the value 0 of a `char` is the terminator. A format is pieces of known shape (`IsPiece`); what lies behind it in memory
  ends in two terminators, and the stack has a slot for each character of that memory
  (`FormatAssumption`). The last two say only where the modelled memory may end.
- *Images.* The FATs have an entry for every sector of an image, there are fewer sectors than
  numbers below the end markers, a sector holds whole directory entries
  (`SizesAssumption`); file names and lengths are such (`InputsAssumption`).
- *Disks.* Directory, headers and FATs are bytes and numbers of any content
  (`DisksAssumption`, `TablesAssumption`), entries that lead behind the FAT included: what memory holds there may be
  anything; sizes are positive, and a good sector may fail any number of times in a row
  (`GeometryAssumption`); the modelled memory has room for what the
  headers ask (`MemoryAssumption`, a bound of the model: the code has no such test); the BIOS answers as often as it is asked (`BiosAssumption`).

*Allocator.* The inductive invariant is `IInv` of `PhysMemInv`. None of the
properties is inductive: while a search runs they say nothing of its locals, so
a step into "mark" could have any result. Its heart, `ScanInv`, is the
loop invariant: `wordAddress` is the address of the current word; the run
being measured is free, ends at the current page, is as long as the pages
counted off, cannot be extended downwards, and has its first page for base unless that is page
0 (`RunInv`); a run that was found is free, or is the one that ends a page beyond the run from
page 0 on (`FoundRun`); if none was found, no run of the
requested length ends before the current page, but for a single page passed over (`NotFoundInv`). This last part is
what justifies a null answer, and it holds because the run is maximal downwards:
a long enough run ending at the current page would have counted off every page.
`ResultInv` carries the verdict of both searches to the step that acts on it,
`LiveInv` and `BitmapExact` what callers hold, `HintInv` that a hint begins a word, and
`CareInv` that the careful client did not ask for exactly the pages from page 0 on: only the step that marks the
block needs it, and `SearchInv` without it holds for every client whose searches begin at words,
`kmain` among them.
Each action has one lemma; they meet in `Invariant`. `AllocatedExact` is a
separate theorem on top of it, since it needs the cardinality of the union of
disjoint blocks. The refinement uses the invariant to show that the block
marked fits, that a refusal is justified, and that every other step of a search
stutters.

*First bitmap.* What `ConstructBitmap` frees is the pages between a usable region's ends,
rounded up and down and cut to a pointer. Below the pointer's limit the cut changes nothing,
except where rounding up gives the limit itself, which becomes 0. So a free page lies in one usable
region, a page in a usable region is free unless the bitmap lies on it, and the bitmap is at the
top of the highest region that has room.

*Kernel main routine.* Its invariant `KMemInv` is for one call, from an empty
allocator, on any map. It shares `SearchInv` with the allocator. `MemoryInv` says of each step of `kmain`
what is allocated: nothing before and after, one block between, which is free memory or `OneTooFar`,
and what the last step has freed. The cursor's part is `CursorInv` and `ShowsInv`.

*Cursor.* `CursorInv` adds types only: the argument is that the registers of
shape and location have different indices (`IndicesDiffer`) and that a write
reaches only the register that is selected, and all operations select before they write (`OutByteChanges`). A location counts as sent
only if the ports answered, and no operation takes that back
(`SelectKeepsLocation`). That the cursor shows (`Shows`) takes two of the
operations: `vtInitialize` sets its lines, from two above the last line of a character to
the last, and `vtEnableCursor` clears the bit that hides it.

*Screen.* `ScreenInv` is the types and that writes stay on the screen. The type of `cursorY` has one row
more than the screen while a text is printed, since a scroll comes after the row is counted. In the
refinement a scroll takes effect on the sheet at once, and each cell copied
or blanked afterwards is a stutter: what the window shows (`Shown`) is put together from the
cells that are written and, one row further down, those that are not yet.

*Run time.* `RuntimeInv` says of each table how much of it lies behind (`Passed`):
what was called is from there (`OnlyPassed`), in order (`InOrder`), and without a gap (`NoneMissing`); a
failure is the last call and is remembered (`FailureIsLast`), which is why the
loop ends. `KMainRunsParts` shows that all `kmain` does to run time and cursor
is what their own operations do, so both invariants hold through it.

*kprintf.* Two invariants. `IInv` needs no condition: a specification takes no more slots
than it has characters (`SlotsInv`, which counts what its stars and its type will take), the parser
goes at most one character beyond a terminator and two terminators end memory (`PlaceInv`), and a number in
octal fits the buffer, hence in every larger base. `StepInv` is for formats
whose directives are whole. It says where in the pieces the parser stands: between two pieces (`InLoop`), in one
(`InDirective`, with the ends of its flags and its width), or behind one that is still to be
printed (`DirectiveDone`). `After[n]`, from `KPrintfProps`, is where C11 would be after `n` pieces;
the invariant compares `fmt` and `args` with it. A directive with a
precision leaves the rest of itself to be printed as text, so the parser can also be within a
piece between directives.

`PrintsAsPrescribed` adds what has been read and printed. The code parses a directive into `spec` field
by field and computes padding, prefix and digits in another function for each kind of
conversion; `Field` says in one definition what C11 wants of all of them. Between them lies what `spec`
should be behind each part of a directive, from the flags read one by one to the argument of the
star (`FlagsDone`, `WidthDone`, `WithPadding`, `WithLength`, `WithType`, `Ready`). `PrintInv` says that
for every number N of pieces that are all supported, a parser not beyond the N-th stands
between two of them with the right text printed (`Standing`), or in one of them with that
`spec` (`Reading`). It is stated for all N at once because a format may have
any other directive behind the supported ones, and it needs `IInv` for the slots a number is read from. The step that prints rests on
`FieldPrinted`: the digits `unsigned_to_string` takes off a number's end are
its numeral in any base (`NumeralIsText`), a width that fits an `int` is read without wrapping (`DigitRead`,
`IntsExact`), and the loops that fill a field write what it lacks, on the side it
lacks it (`JustifiedAsC11`, `StringAsC11`). TLC checked `PrintInv`, like `StepInv` and `IInv`, on the formats of `MCKPrintf` first.

*FAT and images.* Two entries of a FAT share a byte: the proof splits by the parity of the
entry and takes each byte apart into halves. `ChainsInOrder` then needs, beyond types, what the
builder relies on without saying so: between two sectors of a
file the next unused cluster is the file's first one plus the sectors written (`Place`), the
chain of each entry lies behind those before it (`Chained`), and a
sector that fits the image has a cluster within the FAT (`ClusterInTable`). Each
new sector sets one entry; `ReadsWhatWasSet` gives its own link,
`OthersStay` all others. The other properties have an invariant each: how far the counters go
(`Bounds`), what is known of length and bytes of a file nobody changed (`Exact`; with `FilesReadBack` it gives
the bytes that are read back), how often a
path named on the command line has been collected (`Counted`), and what each byte of the data area is
(`Stored`): entries and files in their places, zeros behind. To read a file back the
loader's `FollowFat` must reach its n-th cluster, by induction on n.

*Boot loader.* `IInv` has one part for each thing that must agree. `ReadInv`: the counter of tries
and the failed ones add up, so that a read given up has failed four times. `FilesInv`: the reserved and FAT
sectors in order. `PlaceInv`: what holds on corrupt disks too. `MapInv`: one entry per
reply. `GateInv`: what was last sent to the keyboard controller is in its buffer or has been
acted on. `LoadInv`, for sound floppies: memory holds exactly the
headers, the sections done and the part of the current one (`SoFar`), and the current cluster
is the one the file has there (`FollowsFile`). The proof needed two conditions in `Sound` that the
small disks of the runs had met by chance: no two sections overlap, and the offset of an empty
section lies within the file.

Functions defined by recursion (`FollowFat`, `Rest`, `CharsOf`, `After`, `Numeral`, `Printed`) are followed
without the library's induction rules, which take an operator that no installed
prover can instantiate: a set of numbers for which a claim fails would have a least element
(`LeastNumber`, `Induction`), and a function with the values wanted is built
from the one for the number before (`Recursion`).

Only model-checked: liveness under fairness (`CallReturns`,
`PrintReturns`, `ReachesEnd`, `BuildEnds`, `BootEnds`, the fair part of `ImplementsPageAllocator`), which is out of
the prover's reach.

## Not modelled

- The headers `sal.h`, `no_sal2.h`, `concurrencysal.h` (Microsoft's annotation
  macros, vendored), `compilerintrin.h`, `kstdint.h` and the like: declarations,
  of which nothing runs. They are two thirds of the lines.
- `tools/NerbOS.BuildTasks`: MSBuild tasks that put together the command lines of the
  assembler and the image builder; no state. What the builder makes of such a command line is
  modelled (`MCFloppyImage!Task`).
- `tools/PdbToBochsSymbols`: one pass over symbols that an external library enumerates.
- Of the boot loader the copy of itself, its messages, the video mode and the descriptor table.
- Wide characters and floating point in `kprintf`, which the kernel's build leaves out.

## What is left

`BootLoader` composed with `KMain`, for the maps that reach `kmain`; and an image
of `FloppyImage` as the disk of `BootLoader`. Today they meet in `Fat12`, in the functions
`FilesReadBack` reads with, and in the maps of `MCKMain`.
