------------------------------- MODULE PoolStats -------------------------------
(***************************************************************************)
(* The statistics of the buffer pool (buffer_pool.c with                    *)
(* CONFIG_BUFFER_POOL_STATS).  A take allocates from the heap and accounts   *)
(* for it afterwards; a give accounts for it and frees it afterwards.  Each  *)
(* of these steps holds the heap's lock, but other threads and interrupts    *)
(* come between them, and so does `bp stats`, which copies the statistics    *)
(* under the lock: it can show any state of bps.                             *)
(*                                                                          *)
(* The heap is external: it fits a block with its overhead, the header and   *)
(* what k_heap adds, and may fail to, when the room is in pieces.            *)
(***************************************************************************)
EXTENDS Integers, FiniteSets, Functions

CONSTANTS
    Slot,       \* the buffers that may be in the hands of the callers
    Size,       \* the sizes they ask for
    PoolSize,   \* CONFIG_BUFFER_POOL_SIZE
    Overhead,   \* of a block in the heap
    Range32,    \* size_t is 0 .. Range32 - 1 (2^32)
    MaxTakes    \* bound: takes

ASSUME PoolAssumption ==
    /\ IsFiniteSet(Slot)
    /\ Size \subseteq Nat \ {0}
    /\ PoolSize \in Nat /\ Overhead \in Nat /\ MaxTakes \in Nat
    /\ Range32 \in Nat /\ PoolSize < Range32
    \* messages are structures: what wraps around stays above the pool
    /\ \A n \in Size : PoolSize + n <= Range32

VARIABLES
    step,       \* step[b]: how far the call for b is
    size,       \* size[b]: the size asked for, which its header keeps
    heap,       \* the slots that have a block in the heap
    bps,        \* the statistics
    low,        \* history: the least room that was left
    tight       \* history: a take failed that was no larger than the room

vars == <<step, size, heap, bps, low, tight>>

SizesOf(S) == SumFunctionOnSet(size, S)

\* the blocks that are accounted for, and the room they leave
Counted == {b \in Slot : step[b] = "held"}
Room == PoolSize - SizesOf(Counted)

LeastOf(m, n) == IF m < n THEN m ELSE n
MostOf(m, n) == IF m < n THEN n ELSE m

\* buffer_pool_init, before the tasks start
Init ==
    /\ step = [b \in Slot |-> "idle"]
    /\ size = [b \in Slot |-> 0]
    /\ heap = {}
    /\ bps = [space_available |-> PoolSize, min_space_available |-> PoolSize,
              min_size |-> PoolSize, max_size |-> 0,
              allocs |-> 0, cur_allocs |-> 0, max_allocs |-> 0,
              take_failures |-> 0, last_fail_size |-> 0]
    /\ low = PoolSize /\ tight = FALSE

-----------------------------------------------------------------------------
Fits(n) == SizesOf(heap) + n + Overhead * (Cardinality(heap) + 1) <= PoolSize

Takes ==
    bps.allocs + bps.take_failures
      + Cardinality({b \in Slot : step[b] \in {"taking", "failing"}})

\* buffer_pool_try_to_take_timeout: k_heap_alloc returns a block ...
HeapAlloc(b, n) ==
    /\ step[b] = "idle" /\ Takes < MaxTakes
    /\ Fits(n)
    /\ heap' = heap \cup {b}
    /\ step' = [step EXCEPT ![b] = "taking"]
    /\ size' = [size EXCEPT ![b] = n]
    /\ UNCHANGED <<bps, low, tight>>

\* ... or NULL; it never does in an empty heap that is large enough
HeapFull(b, n) ==
    /\ step[b] = "idle" /\ Takes < MaxTakes
    /\ heap # {} \/ ~ Fits(n)
    /\ step' = [step EXCEPT ![b] = "failing"]
    /\ size' = [size EXCEPT ![b] = n]
    /\ UNCHANGED <<heap, bps, low, tight>>

\* Mutant: the least space is that before the take.
TakeStatMinFirst(b) ==
    /\ step[b] = "taking"
    /\ bps' = [bps EXCEPT
         !.space_available = @ - size[b],
         !.min_space_available = LeastOf(@, bps.space_available),
         !.min_size = LeastOf(@, size[b]),
         !.max_size = MostOf(@, size[b]),
         !.allocs = @ + 1,
         !.cur_allocs = @ + 1,
         !.max_allocs = MostOf(@, bps.cur_allocs + 1)]
    /\ step' = [step EXCEPT ![b] = "held"]
    /\ UNCHANGED <<size, heap, tight>>
    /\ low' = LeastOf(low, Room')

\* Mutant: the peak is that before the take.
TakeStatPeakFirst(b) ==
    /\ step[b] = "taking"
    /\ LET space == bps.space_available - size[b]
       IN  bps' = [bps EXCEPT
             !.space_available = space,
             !.min_space_available = LeastOf(@, space),
             !.min_size = LeastOf(@, size[b]),
             !.max_size = MostOf(@, size[b]),
             !.allocs = @ + 1,
             !.cur_allocs = @ + 1,
             !.max_allocs = MostOf(@, bps.cur_allocs)]
    /\ step' = [step EXCEPT ![b] = "held"]
    /\ UNCHANGED <<size, heap, tight>>
    /\ low' = LeastOf(low, Room')

\* take_stat_handler
TakeStat(b) ==
    /\ step[b] = "taking"
    /\ LET space == bps.space_available - size[b]
           cur == bps.cur_allocs + 1
       IN  bps' = [bps EXCEPT
             !.space_available = space,
             !.min_space_available = LeastOf(@, space),
             !.min_size = LeastOf(@, size[b]),
             !.max_size = MostOf(@, size[b]),
             !.allocs = @ + 1,
             !.cur_allocs = cur,
             !.max_allocs = MostOf(@, cur)]
    /\ step' = [step EXCEPT ![b] = "held"]
    /\ UNCHANGED <<size, heap, tight>>
    /\ low' = LeastOf(low, Room')

\* Mutant: a signed difference.
Minus32Signed(m, n) == m - n

\* int - size_t is unsigned: what would be negative is very large
Minus32(m, n) == (m - n) % Range32

\* Mutant: a failed take is not on the books, but its size is.
FailStatTakes(b) ==
    /\ step[b] = "failing"
    /\ bps' = [bps EXCEPT
         !.take_failures = @ + 1,
         !.last_fail_size = size[b],
         !.space_available = Minus32(@, size[b]),
         !.min_space_available = LeastOf(@, Minus32(bps.space_available, size[b]))]
    /\ tight' = (tight \/ size[b] <= Room)
    /\ step' = [step EXCEPT ![b] = "idle"]
    /\ UNCHANGED <<size, heap, low>>

\* take_fail_stat_handler; the caller gets NULL
FailStat(b) ==
    /\ step[b] = "failing"
    /\ bps' = [bps EXCEPT
         !.take_failures = @ + 1,
         !.last_fail_size = size[b],
         !.min_space_available = LeastOf(@, Minus32(bps.space_available, size[b]))]
    /\ tight' = (tight \/ size[b] <= Room)
    /\ step' = [step EXCEPT ![b] = "idle"]
    /\ UNCHANGED <<size, heap, low>>

\* Mutant: the block goes back before it is accounted for.
GiveStatLate(b) ==
    /\ step[b] = "held"
    /\ heap' = heap \ {b}
    /\ step' = [step EXCEPT ![b] = "giving"]
    /\ UNCHANGED <<size, bps, low, tight>>

\* buffer_pool_free: give_stat_handler, which finds the size in the header ...
GiveStat(b) ==
    /\ step[b] = "held"
    /\ bps' = [bps EXCEPT
         !.space_available = @ + size[b],
         !.cur_allocs = @ - 1]
    /\ step' = [step EXCEPT ![b] = "giving"]
    /\ UNCHANGED <<size, heap, low, tight>>

\* ... and k_heap_free
HeapFree(b) ==
    /\ step[b] = "giving"
    /\ heap' = heap \ {b}
    /\ step' = [step EXCEPT ![b] = "idle"]
    /\ UNCHANGED <<size, bps, low, tight>>

\* the callers may all be done
Done == Takes = MaxTakes /\ (\A b \in Slot : step[b] = "idle") /\ UNCHANGED vars

Next ==
    \/ \E b \in Slot, n \in Size : HeapAlloc(b, n) \/ HeapFull(b, n)
    \/ \E b \in Slot : TakeStat(b) \/ FailStat(b) \/ GiveStat(b) \/ HeapFree(b)
    \/ Done

Spec == Init /\ [][Next]_vars
-----------------------------------------------------------------------------
(* Properties: each holds of every snapshot that buffer_pool_get_stats copies. *)

\* The variables have their types; no figure is ever negative or above the size
\* of the pool.
TypeOK ==
    /\ step \in [Slot -> {"idle", "taking", "failing", "held", "giving"}]
    /\ size \in [Slot -> Size \cup {0}]
    /\ heap = {b \in Slot : step[b] \in {"taking", "held", "giving"}}
    /\ bps.space_available \in 0 .. PoolSize
    /\ bps.min_space_available \in 0 .. PoolSize
    /\ bps.min_size \in 0 .. PoolSize /\ bps.max_size \in 0 .. PoolSize
    /\ {bps.allocs, bps.cur_allocs, bps.max_allocs, bps.take_failures} \subseteq 0 .. MaxTakes
    /\ bps.last_fail_size \in Size \cup {0}
    /\ low \in 0 .. PoolSize /\ tight \in BOOLEAN

Quiet == \A b \in Slot : step[b] \in {"idle", "held"}

\* While takes and gives overlap, the statistics may show more room than there is
\* beside the blocks of the heap, never less; and exactly what there is when no
\* call is under way.
RoomFollowsHeap ==
    /\ bps.space_available >= PoolSize - SizesOf(heap)
    /\ Quiet => bps.space_available = PoolSize - SizesOf(heap)

\* Likewise, they may show fewer blocks than the heap has, never more; and exactly
\* its blocks when no call is under way.
CountFollowsHeap ==
    /\ bps.cur_allocs <= Cardinality(heap)
    /\ Quiet => bps.cur_allocs = Cardinality(heap)

\* min_space_available is the least room there ever was, failures that asked for
\* more than the room included: they do not show.  Only a failure that asked for
\* no more lowers it, below any room there was.
LowWater ==
    /\ bps.min_space_available <= low
    /\ ~ tight => bps.min_space_available = low

\* The figures of one snapshot fit each other: the peak of blocks, all as small
\* as the smallest, took no more than the least space shows, and all as large as
\* the largest, no less.
FiguresFit ==
    LET peak == bps.max_allocs
    IN  /\ bps.cur_allocs <= peak /\ peak <= bps.allocs
        /\ bps.min_space_available + peak * bps.min_size <= PoolSize \/ bps.allocs = 0
        /\ bps.min_space_available + peak * bps.max_size >= PoolSize \/ tight
=============================================================================
