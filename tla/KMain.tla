------------------------------- MODULE KMain -------------------------------
(***************************************************************************)
(* The kernel's main routine (FloppyInstallKernel/src/Main.cpp): it masks  *)
(* the IRQs, starts the run time, sets up screen and cursor, initialises   *)
(* memory from the boot loader's map, allocates AllocBytes and frees what  *)
(* was returned.  It ignores a failed start of the run time, a failed      *)
(* pmInitialize and a null allocation.  What it prints is here what that   *)
(* does to the cursor: it ends up somewhere.                               *)
(***************************************************************************)
EXTENDS PhysMemProps, VgaCursor, KrtInit

CONSTANTS
    Machines,       \* what kmain may find: a memory map, VGA registers and
                    \*   the tables of the run time
    AllocBytes      \* 10 * 1024, the bytes kmain asks for

ASSUME MachinesAssumption ==
    /\ AllocBytes \in Nat
    /\ Machines \subseteq [map : Maps, registers : Registers, tables : Tables]

\* What pmInitialize needs of a map and does not check.
ASSUME MemoryAddressable == \A m \in Machines : Addressable(m.map)

VARIABLES
    machine,
    step,       \* the call kmain makes next, or the one it is in
    irqMasks,   \* the mask registers of the two interrupt controllers
    ptr,        \* kmain's local variables
    numPages

memory == vars
locals == <<ptr, numPages>>
kvars  == <<machine, step, irqMasks, locals, memory, cursorVars, runtime>>

KInit ==
    /\ machine \in Machines
    /\ step = "irqs"
    /\ irqMasks \in {[pic1 |-> {}, pic2 |-> {}]}
    /\ ptr = 0
    /\ numPages = 0
    /\ Init
    /\ CursorInit /\ vga = machine.registers
    /\ RuntimeInit /\ table = machine.tables

Goto(from, to) == step = from /\ step' = to /\ UNCHANGED machine

mask_all_irqs ==
    /\ Goto("irqs", "runtime")
    /\ irqMasks' = [pic1 |-> 0 .. 7, pic2 |-> 0 .. 7]
    /\ UNCHANGED <<locals, memory, cursorVars, runtime>>

StartRuntime ==
    /\ step = "runtime"
    /\ nos_krt_init
    /\ UNCHANGED <<machine, step, irqMasks, locals, memory, cursorVars>>

\* A failure is for the debugger only; kmain goes on.
RuntimeStarted ==
    /\ phase \in {"ready", "failed"}
    /\ Goto("runtime", "screen")
    /\ UNCHANGED <<irqMasks, locals, memory, cursorVars, runtime>>

InitializeScreen ==
    /\ Goto("screen", "clear")
    /\ vtInitialize
    /\ UNCHANGED <<irqMasks, locals, memory, runtime>>

\* vtClearScreen leaves the cursor where vtSetCursorPos puts it once more.
ClearScreen ==
    /\ Goto("clear", "enable")
    /\ PutCursor(0)
    /\ UNCHANGED <<irqMasks, locals, memory, runtime>>

EnableCursor ==
    /\ Goto("enable", "print")
    /\ vtEnableCursor
    /\ UNCHANGED <<irqMasks, locals, memory, runtime>>

Prints == \E idx \in ScreenCells : PutCursor(idx)

\* All that is printed before memory is initialised, the memory map included.
PrintMap ==
    /\ Goto("print", "initialize")
    /\ Prints
    /\ UNCHANGED <<irqMasks, locals, memory, runtime>>

\* pmInitialize prints too: where the bitmap is.
InitializeMemory ==
    /\ Goto("initialize", "allocate")
    /\ pmInitialize(machine.map)
    /\ Prints
    /\ UNCHANGED <<irqMasks, locals, runtime>>

Allocate ==
    /\ Goto("allocate", "allocating")
    /\ pmAllocateBytes(AllocBytes, 0)
    /\ numPages' = PagesForBytes(AllocBytes)
    /\ UNCHANGED <<irqMasks, ptr, cursorVars, runtime>>

AllocateRuns ==
    /\ CallStep
    /\ UNCHANGED <<machine, step, irqMasks, locals, cursorVars, runtime>>

AllocateReturns ==
    /\ pc = "idle"
    /\ Goto("allocating", "free")
    /\ ptr' = foundAddress
    /\ Prints
    /\ UNCHANGED <<irqMasks, numPages, memory, runtime>>

Free ==
    /\ Goto("free", "end")
    /\ pmFree([base |-> ptr, count |-> numPages])
    /\ Prints
    /\ UNCHANGED <<irqMasks, locals, runtime>>

KNext ==
    \/ mask_all_irqs
    \/ StartRuntime
    \/ RuntimeStarted
    \/ InitializeScreen
    \/ ClearScreen
    \/ EnableCursor
    \/ PrintMap
    \/ InitializeMemory
    \/ Allocate
    \/ AllocateRuns
    \/ AllocateReturns
    \/ Free

\* One processor, no interrupts: kmain runs as long as it can take a step.
KSpec == KInit /\ [][KNext]_kvars /\ WF_kvars(KNext)

-----------------------------------------------------------------------------
(***************************************************************************)
(* The pages that pmInitialize marked and kmain, at its end, has freed.    *)
(* After a failed allocation it frees page 0 and the next ones, whatever   *)
(* they are.  And where the free pages from page 0 on are exactly as many  *)
(* as it asks for, the block it gets and frees ends one page beyond them.  *)
(***************************************************************************)
Lost ==
    {p \in InitialUsed(mmap) :
        /\ p * PageSize < g_totalMemory
        /\ \/ ptr = 0 /\ p \in 0 .. numPages - 1
           \/ ptr = 1 /\ p = numPages /\ OneTooFar(numPages, InitialUsed(mmap))}

(***************************************************************************)
(* kmain leaves memory as pmInitialize built it, but for the pages lost:   *)
(* nothing allocated, no page leaked, no other reserved page freed, on any *)
(* map that has a bitmap.  A failed allocation is counted off the          *)
(* allocated memory all the same.                                          *)
(***************************************************************************)
MemoryRestored ==
    step = "end" /\ g_pageBitmap # 0 =>
        /\ live = {}
        /\ usedPages = InitialUsed(mmap) \ Lost
        /\ g_allocatedMemory = (IF ptr = 0 THEN -numPages ELSE 0) % CounterLimit

(***************************************************************************)
(* A page is free only if it is usable memory, and the bitmap keeps its    *)
(* pages, while kmain allocates and frees, and after it unless pages are   *)
(* lost by its last step.                                                  *)
(***************************************************************************)
NothingLost  == step = "end" => Lost = {}
MapRespected == NothingLost => OnlyUsableFree
BitmapKept   == NothingLost => BitmapProtected

(***************************************************************************)
(* From the first print on the cursor can be seen, whatever shape the BIOS *)
(* gave it: vtInitialize and vtEnableCursor together see to that.          *)
(***************************************************************************)
CursorVisible ==
    step \in {"print", "initialize", "allocate", "allocating", "free", "end"} => Visible

(***************************************************************************)
(* kmain gets to its end, memory or not: no call it makes hangs.  Only a   *)
(* failing C initializer, and the break behind it, keeps it from there.    *)
(***************************************************************************)
NoneFails  == \A i \in DOMAIN machine.tables.c : machine.tables.c[i] \in {NULL, 0}
ReachesEnd == NoneFails => <>(step = "end")
=============================================================================
