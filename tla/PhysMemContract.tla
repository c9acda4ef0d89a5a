-------------------------- MODULE PhysMemContract --------------------------
(***************************************************************************)
(* The allocator and a client that asks for nothing the search gets wrong. *)
(* pmAllocatePages checks neither condition, so it is the client's part;   *)
(* of the memory map nothing is asked: page 0 may be free, as on a PC.     *)
(***************************************************************************)
EXTENDS PhysMemProps

(***************************************************************************)
(* FindUnused takes `start' for the address of bit 0 of a word, so the     *)
(* search must begin at one; and a request must not be for exactly the     *)
(* free pages from page 0 on (PhysMemProps, OneTooFar).                    *)
(***************************************************************************)
Served(count, hint) ==
    /\ hint % WordBits = 0 \/ hint * PageSize > g_totalMemory
    /\ ~OneTooFar(count, usedPages)

CarefulClient ==
    /\ g_pageBitmap # 0
    /\ \/ \E count \in Counts \ {0}, hint \in Hints :
              Served(count, hint) /\ pmAllocatePages(count, hint)
       \/ Release

CarefulNext     == Boot \/ CarefulClient \/ CallStep
CarefulSpec     == Init /\ [][CarefulNext]_vars
CarefulFairSpec == CarefulSpec /\ WF_vars(CallStep)

\* The count of pages handed out never reaches the width of g_allocatedMemory.
ASSUME CounterIsWide == CounterLimit > PtrLimit \div PageSize
=============================================================================
