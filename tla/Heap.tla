-------------------------------- MODULE Heap --------------------------------
(***************************************************************************)
(* The allocator mm.c on the heap of memlib.c.  Memory is a function from  *)
(* word addresses to words: tags, pointers and payload in one array, as in *)
(* the program.  An operator named like a routine of mm.c takes the memory *)
(* (or the heap: memory and break) and returns what the routine leaves.    *)
(***************************************************************************)
EXTENDS BlockSizes, FiniteSetsExt

CONSTANTS
    HeapLo,     \* mem_start_brk
    MAX_HEAP    \* bytes of the simulated memory

ASSUME HeapAssumption ==
    /\ HeapLo \in Nat \ {0} /\ HeapLo % 8 = 0
    /\ MAX_HEAP \in Nat /\ MAX_HEAP % 8 = 0 /\ MAX_HEAP >= 112

WSIZE == 4
NULL  == 0

Words   == {HeapLo + WSIZE * k : k \in 0..(MAX_HEAP \div WSIZE) - 1}
MaxAddr == HeapLo + MAX_HEAP

MAX_BLOCKS == MAX_HEAP \div 8      \* a block has at least two tags

-----------------------------------------------------------------------------
(* The macros for blocks.  bp is the address of a block's payload; the     *)
(* words before it and at the end of the block hold its size and whether   *)
(* it is allocated.                                                        *)

PACK(size, alloc) == size + alloc

GET_BLK_SIZE(m, bp)  == MultipleOf8(m[bp - WSIZE])
GET_BLK_ALLOC(m, bp) == m[bp - WSIZE] % 2 = 1

FTRP(m, bp) == bp + GET_BLK_SIZE(m, bp) - 8
NEXT(m, bp) == bp + GET_BLK_SIZE(m, bp)
PREV(m, bp) == bp - MultipleOf8(m[bp - 8])
FD(m, bp)   == m[bp]
BK(m, bp)   == m[bp + WSIZE]

SET_BOUNDARY(m, bp, size, alloc) ==
    [m EXCEPT ![bp - WSIZE] = PACK(size, alloc), ![bp + size - 8] = PACK(size, alloc)]

SET_ALLOC(m, bp) == SET_BOUNDARY(m, bp, GET_BLK_SIZE(m, bp), 1)
SET_FREE(m, bp)  == SET_BOUNDARY(m, bp, GET_BLK_SIZE(m, bp), 0)

-----------------------------------------------------------------------------
(* The free lists.  A list head is one word: its FD.                       *)

List(i) == HeapLo + WSIZE * i

get_list(size) == List(get_list_index(size))

attach_block(m, bp) ==
    LET list == get_list(GET_BLK_SIZE(m, bp))
        fd   == FD(m, list)
        m1   == [m EXCEPT ![list] = bp, ![bp + WSIZE] = list, ![bp] = fd]
    IN  IF fd = NULL THEN m1 ELSE [m1 EXCEPT ![fd + WSIZE] = bp]

detach_block(m, bp) ==
    LET fd == FD(m, bp)
        bk == BK(m, bp)
        m1 == [m EXCEPT ![bk] = fd]
    IN  IF fd = NULL THEN m1 ELSE [m1 EXCEPT ![fd + WSIZE] = bk]

(* The blocks of a list in order, from FD of its head on: a link that is   *)
(* no address of memory, like NULL, ends the list.                         *)
FreeList(m, list) ==
    LET node[n \in 0..MAX_BLOCKS] ==
            IF n = 0 THEN FD(m, list)
            ELSE LET p == node[n - 1] IN IF p \in Words THEN FD(m, p) ELSE NULL
        end == CHOOSE n \in 0..MAX_BLOCKS :
                   /\ \A k \in 0..n - 1 : node[k] \in Words
                   /\ node[n] \notin Words \/ n = MAX_BLOCKS
    IN  [n \in 0..end - 1 |-> node[n]]

(* The first block of a list that is large enough.                         *)
FirstFit(m, list, size) ==
    LET free == FreeList(m, list)
        fits == {n \in DOMAIN free : GET_BLK_SIZE(m, free[n]) >= size}
    IN  IF fits = {} THEN NULL ELSE free[Min(fits)]

(* Faulty: only the list of the size is searched. *)
search_block_OneList(m, size) == FirstFit(m, get_list(size), size)

search_block(m, size) ==
    LET fit(i) == FirstFit(m, List(i), size)
        lists  == {i \in get_list_index(size)..LIST_NUM - 1 : fit(i) # NULL}
    IN  IF lists = {} THEN NULL ELSE fit(Min(lists))

(* Faulty: a block whose predecessor is free is not merged with the next one. *)
coalesce_PrevOnly(m, bp) ==
    LET prev == PREV(m, bp)
        next == NEXT(m, bp)
    IN  CASE ~GET_BLK_ALLOC(m, prev) ->
                 [mem |-> SET_BOUNDARY(detach_block(m, prev), prev, next - prev, 0), bp |-> prev]
          [] GET_BLK_ALLOC(m, prev) /\ ~GET_BLK_ALLOC(m, next) ->
                 [mem |-> SET_BOUNDARY(detach_block(m, next), bp, NEXT(m, next) - bp, 0), bp |-> bp]
          [] OTHER -> [mem |-> m, bp |-> bp]

(* A free block c.bp that is in no list is merged with its free neighbours.*)
merge(c) ==
    LET m     == c.mem
        bp    == c.bp
        prev  == PREV(m, bp)
        next  == NEXT(m, bp)
        first == IF GET_BLK_ALLOC(m, prev) THEN bp ELSE prev
        end   == IF GET_BLK_ALLOC(m, next) THEN next ELSE NEXT(m, next)
        m1    == IF GET_BLK_ALLOC(m, prev) THEN m ELSE detach_block(m, prev)
        m2    == IF GET_BLK_ALLOC(m, next) THEN m1 ELSE detach_block(m1, next)
    IN  IF GET_BLK_ALLOC(m, prev) /\ GET_BLK_ALLOC(m, next) THEN c
        ELSE [mem |-> SET_BOUNDARY(m2, first, end - first, 0), bp |-> first]

(* It calls itself until neither neighbour is free.  There are not more    *)
(* than MAX_BLOCKS blocks to merge.                                        *)
coalesce(m, bp) ==
    LET merged[n \in 0..MAX_BLOCKS] ==
            IF n = 0 THEN [mem |-> m, bp |-> bp] ELSE merge(merged[n - 1])
    IN  merged[MAX_BLOCKS]

-----------------------------------------------------------------------------
(* The routines on a heap h = [mem, brk].  bp is the result.               *)

Result(m, brk, bp) == [mem |-> m, brk |-> brk, bp |-> bp]

(* mem_sbrk's test.                                                        *)
SbrkFails(h, incr) == incr < 0 \/ h.brk + incr > MaxAddr

(* The new block's tags are written over the old epilogue.                 *)
extend_heap(h, size) ==
    IF SbrkFails(h, size)
    THEN Result(h.mem, h.brk, NULL)
    ELSE Result([SET_BOUNDARY(h.mem, h.brk, size, 0) EXCEPT ![h.brk + size - WSIZE] = PACK(0, 1)],
                h.brk + size, h.brk)

(* Faulty: the remainder gets a header but no footer. *)
place_NoFooter(h, bp, size) ==
    LET split == GET_BLK_SIZE(h.mem, bp) - size
        m1    == detach_block(h.mem, bp)
        rest  == [SET_BOUNDARY(m1, bp, size, 1) EXCEPT ![bp + size - WSIZE] = PACK(split, 0)]
    IN  IF split < 4 * WSIZE
        THEN Result(SET_ALLOC(m1, bp), h.brk, bp)
        ELSE Result(attach_block(rest, bp + size), h.brk, bp)

(* A block of the list is allocated: all of it, its tail when the rest     *)
(* stays in the same list, or else its front.                              *)
place(h, bp, size) ==
    LET bp_size == GET_BLK_SIZE(h.mem, bp)
        split   == bp_size - size
        m1      == detach_block(h.mem, bp)
        tail    == SET_BOUNDARY(h.mem, bp, split, 0)
        rest    == coalesce(SET_BOUNDARY(SET_BOUNDARY(m1, bp, size, 1), bp + size, split, 0),
                            bp + size)
    IN  CASE split < 4 * WSIZE -> Result(SET_ALLOC(m1, bp), h.brk, bp)
          [] split >= 4 * WSIZE /\ get_list(bp_size) = get_list(split) ->
                 Result(SET_BOUNDARY(tail, bp + split, size, 1), h.brk, bp + split)
          [] OTHER -> Result(attach_block(rest.mem, rest.bp), h.brk, bp)

(* NULL stands for the crash in SET_ALLOC(NULL).                           *)
mm_malloc(h, size) ==
    LET full == ALIGN_TO_FULLBLK(Requested(size))
        bp   == search_block(h.mem, full)
        grown == extend_heap(h, full)
    IN  CASE bp # NULL       -> place(h, bp, full)
          [] bp = NULL /\ grown.bp = NULL -> grown
          [] OTHER -> Result(SET_ALLOC(grown.mem, grown.bp), grown.brk, grown.bp)

mm_free(h, bp) ==
    LET c == coalesce(SET_FREE(h.mem, bp), bp)
    IN  Result(attach_block(c.mem, c.bp), h.brk, NULL)

memcpy(m, dst, src, size) ==
    [a \in Words |-> IF a \in dst..dst + size - 1 THEN m[src + a - dst] ELSE m[a]]

(* Faulty: the old block is freed before its words are copied. *)
mm_realloc_FreesFirst(h, bp, size) ==
    LET old == GET_BLK_SIZE(h.mem, bp)
        new == mm_malloc(mm_free(h, bp), size)
    IN  CASE ALIGN_TO_FULLBLK(size) <= old -> Result(h.mem, h.brk, bp)
          [] ALIGN_TO_FULLBLK(size) > old /\ new.bp = NULL -> new
          [] OTHER -> [new EXCEPT !.mem = memcpy(new.mem, new.bp, bp, old - 8)]

(* Faulty: the old block is not freed. *)
mm_realloc_Leaks(h, bp, size) ==
    LET old == GET_BLK_SIZE(h.mem, bp)
        new == mm_malloc(h, size)
    IN  CASE ALIGN_TO_FULLBLK(size) <= old -> Result(h.mem, h.brk, bp)
          [] ALIGN_TO_FULLBLK(size) > old /\ new.bp = NULL -> new
          [] OTHER -> [new EXCEPT !.mem = memcpy(new.mem, new.bp, bp, old - 8)]

(* The last block is extended in place.  mm_realloc does not look at       *)
(* extend_heap's result: when that fails, the new footer is written past   *)
(* the end of the memory (no word of m) and the header says too much.      *)
mm_realloc(h, bp, size) ==
    LET full   == ALIGN_TO_FULLBLK(size)
        old    == GET_BLK_SIZE(h.mem, bp)
        grown  == extend_heap(h, full - old)
        new    == mm_malloc(h, size)
        copied == memcpy(new.mem, new.bp, bp, old - WSIZE)
    IN  CASE full <= old -> Result(h.mem, h.brk, bp)
          [] full > old /\ FTRP(h.mem, bp) = h.brk - 8 ->
                 Result(SET_BOUNDARY(grown.mem, bp, full, 1), grown.brk, bp)
          [] OTHER ->
                 IF new.bp = NULL THEN new
                 ELSE [mm_free([mem |-> copied, brk |-> new.brk], bp) EXCEPT !.bp = new.bp]

(* Faulty: the list heads are not cleared. *)
mm_init_KeepsHeads(m) ==
    LET m1 == [m EXCEPT ![List(11)] = PACK(8, 1), ![List(12)] = PACK(8, 1),
                        ![List(13)] = PACK(0, 1)]
        h1 == extend_heap([mem |-> m1, brk |-> List(14)], 48)
        m2 == attach_block(h1.mem, h1.bp)
        h2 == extend_heap([mem |-> m2, brk |-> h1.brk], 8)
    IN  Result(SET_ALLOC(h2.mem, h2.bp), h2.brk, NULL)

(* On an empty heap, whatever the memory holds: the list heads, prologue   *)
(* and epilogue, a free block of 48 bytes and an allocated one of 8.       *)
mm_init(m) ==
    LET m0 == [a \in Words |-> IF a \in List(0)..List(LIST_NUM - 1) THEN NULL ELSE m[a]]
        m1 == [m0 EXCEPT ![List(11)] = PACK(8, 1), ![List(12)] = PACK(8, 1),
                         ![List(13)] = PACK(0, 1)]
        h1 == extend_heap([mem |-> m1, brk |-> List(14)], 48)
        m2 == attach_block(h1.mem, h1.bp)
        h2 == extend_heap([mem |-> m2, brk |-> h1.brk], 8)
    IN  Result(SET_ALLOC(h2.mem, h2.bp), h2.brk, NULL)
=============================================================================
