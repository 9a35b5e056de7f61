--------------------------- MODULE HeapProperties ---------------------------
(***************************************************************************)
(* What is checked of the allocator: the list of things that the notes     *)
(* want a heap checker to look for (note_malloclab_submit.md:701-708), and *)
(* the demands of the driver (Allocator).                                  *)
(***************************************************************************)
EXTENDS MallocDriver

-----------------------------------------------------------------------------
(* Reading the heap.                                                       *)

First    == List(14)          \* the first block after the prologue
Sentinel == First + 48        \* the allocated block that mm_init places

(* The blocks from the first to the epilogue, by the sizes in headers.     *)
Blocks(m) ==
    LET header(p) == p - WSIZE \in Words /\ GET_BLK_SIZE(m, p) > 0
        at[n \in 0..MAX_BLOCKS] ==
            IF n = 0 THEN First
            ELSE LET p == at[n - 1] IN IF header(p) THEN NEXT(m, p) ELSE p
        end == CHOOSE n \in 0..MAX_BLOCKS :
                   /\ \A k \in 0..n - 1 : header(at[k])
                   /\ ~header(at[n]) \/ n = MAX_BLOCKS
    IN  {at[n] : n \in 0..end - 1}

FreeBlocks(m) == {b \in Blocks(m) : ~GET_BLK_ALLOC(m, b)}

(* The blocks of a free list.                                              *)
ListBlocks(m, i) == {FreeList(m, List(i))[n] : n \in DOMAIN FreeList(m, List(i))}

-----------------------------------------------------------------------------

(* The blocks cover the heap from the prologue to the epilogue, and the    *)
(* header and the footer of each say the same (SET_BOUNDARY).              *)
HeapTiled ==
  status = "ok" =>
    /\ mem[List(11)] = PACK(8, 1) /\ mem[List(12)] = PACK(8, 1)
    /\ mem[brk - WSIZE] = PACK(0, 1)
    /\ \A b \in Blocks(mem) :
         /\ b % 8 = 0 /\ (GET_BLK_SIZE(mem, b) >= 16 \/ b = Sentinel)
         /\ NEXT(mem, b) \in Blocks(mem) \cup {brk}
         /\ mem[b - WSIZE] = mem[FTRP(mem, b)]

(* Every free block is in the list of its size, no other block is in a     *)
(* list, and BK undoes FD (attach_block, detach_block, place).             *)
FreeListsExact ==
  status = "ok" =>
    \A i \in 0..LIST_NUM - 1 :
        LET L == ListBlocks(mem, i)
        IN  /\ L = {b \in FreeBlocks(mem) : get_list_index(GET_BLK_SIZE(mem, b)) = i}
            /\ \A b \in L \cup {List(i)} :
                 FD(mem, b) # NULL => FD(mem, b) \in L /\ BK(mem, FD(mem, b)) = b

(* No two neighbours are both free: coalesce misses none.                  *)
NoAdjacentFree ==
    status = "ok" => \A b \in FreeBlocks(mem) : NEXT(mem, b) \notin FreeBlocks(mem)

(* The allocated blocks are the ones the driver holds, and each is large   *)
(* enough: nothing leaks when blocks are split, merged or moved.           *)
AllocatedAreHeld ==
  status = "ok" =>
    /\ Blocks(mem) \ FreeBlocks(mem) = {Sentinel} \cup {block[i].lo : i \in {j \in Ids : block[j] # NoBlock}}
    /\ \A i \in Ids :
         block[i] # NoBlock => GET_BLK_SIZE(mem, block[i].lo) >= block[i].size + 8

(* malloc extends the heap only when no free block is large enough: the    *)
(* search starts in the right list and passes no block that fits.          *)
GrowsOnlyWhenNoneFits ==
    [][\A i \in Ids :
         block[i] = NoBlock /\ block'[i] # NoBlock /\ brk' > brk =>
             \A b \in FreeBlocks(mem) :
                 GET_BLK_SIZE(mem, b) < Requested(block'[i].size) + 8]_vars

-----------------------------------------------------------------------------
(* Refinement.                                                             *)

Abstract ==
    INSTANCE Allocator WITH
        HeapEnd <- MaxAddr,
        live    <- block,
        data    <- [i \in Ids |-> [k \in 1..block[i].size \div WSIZE |->
                                      mem[block[i].lo + WSIZE * (k - 1)]]],
        heapHi  <- brk

(* The allocator meets the driver's demands: aligned, disjoint payloads    *)
(* inside the heap, whose words last until they are freed or overwritten.  *)
ImplementsAllocator == Abstract!Spec

(* The driver expects NULL when memory is exhausted, and not a crash       *)
(* (mdriver.c:607 and 636: "mm_malloc failed", "mm_realloc failed").       *)
ReportsExhaustion == status = "ok"
=============================================================================
