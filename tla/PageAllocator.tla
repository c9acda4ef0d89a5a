--------------------------- MODULE PageAllocator ---------------------------
(***************************************************************************)
(* What the page allocator promises a client, without its bitmap and its   *)
(* search: a request for n pages near a hint is answered with some n       *)
(* contiguous free pages, or refused when neither the pages from the hint  *)
(* up nor the pages below it have n contiguous free ones.  One free page   *)
(* is not promised when all the pages from page 0 up to it are free.  A    *)
(* client gets back to free exactly the blocks it was granted.             *)
(***************************************************************************)
EXTENDS Integers

CONSTANTS
    FreeSets,       \* the sets of free pages the allocator may start from
    Requests        \* [count, hint] pairs a client may ask for

VARIABLES
    phase,          \* "off", "ready" or "busy" with the request
    free,           \* free pages
    blocks,         \* granted blocks, [base, count]
    request         \* the last request

avars == <<phase, free, blocks, request>>

PagesOf(b) == b.base .. (b.base + b.count - 1)

\* n contiguous free pages from page p on.
Fits(p, r) == p .. (p + r.count - 1) \subseteq free

\* They must not be refused: they are on one side of the hint, and not overlooked.
Promised(p, r) ==
    /\ Fits(p, r)
    /\ p >= r.hint \/ p + r.count <= r.hint
    /\ r.count = 1 /\ 0 .. p \subseteq free => p >= r.hint /\ r.hint > 0

AInit ==
    /\ phase = "off"
    /\ free = {}
    /\ blocks = {}
    /\ request = [count |-> 0, hint |-> 0]

Start ==
    /\ phase = "off"
    /\ phase' = "ready"
    /\ free' \in FreeSets
    /\ UNCHANGED <<blocks, request>>

Request(r) ==
    /\ phase = "ready"
    /\ phase' = "busy"
    /\ request' = r
    /\ UNCHANGED <<free, blocks>>

Grant(p) ==
    LET block == [base |-> p, count |-> request.count]
    IN  /\ phase = "busy"
        /\ Fits(p, request)
        /\ phase' = "ready"
        /\ free' = free \ PagesOf(block)
        /\ blocks' = blocks \union {block}
        /\ UNCHANGED request

Refuse ==
    /\ phase = "busy"
    /\ ~ \E p \in free : Promised(p, request)
    /\ phase' = "ready"
    /\ UNCHANGED <<free, blocks, request>>

Release(b) ==
    /\ phase = "ready"
    /\ b \in blocks
    /\ free' = free \union PagesOf(b)
    /\ blocks' = blocks \ {b}
    /\ UNCHANGED <<phase, request>>

Answer == Refuse \/ \E p \in free : Grant(p)

ANext ==
    \/ Start
    \/ \E r \in Requests : Request(r)
    \/ Answer
    \/ \E b \in blocks : Release(b)

ASafeSpec == AInit /\ [][ANext]_avars

\* Every request is answered.
ASpec == ASafeSpec /\ WF_avars(Answer)
=============================================================================
