---------------------------- MODULE MallocDriver ----------------------------
(***************************************************************************)
(* The allocator driven by traces, as in eval_mm_valid of mdriver.c: any   *)
(* sequence of malloc, realloc and free on the blocks of the trace.  The   *)
(* driver fills each payload with the block's index.  After a realloc it   *)
(* tests that the words of the old block are the index and fills the       *)
(* payload again; here it fills the words after the old ones, so that a    *)
(* word that was lost stays lost.                                          *)
(***************************************************************************)
EXTENDS Heap

CONSTANTS
    Ids,        \* the blocks of a trace
    Sizes,      \* the sizes requested, multiples of a word
    MaxTraces   \* bound on the traces run in the same memory

ASSUME IdsAssumption   == IsFiniteSet(Ids) /\ Ids \cap Int = {}
ASSUME SizesAssumption == \A s \in Sizes : s \in 1..SizeT - 16 /\ s % WSIZE = 0

VARIABLES
    mem, brk,   \* the memory and mem_brk
    block,      \* id -> payload address and size requested
    status,     \* "ok", "crashed", or "overrun": written past the memory
    traces      \* traces begun

vars == <<mem, brk, block, status, traces>>

heap == [mem |-> mem, brk |-> brk]

-----------------------------------------------------------------------------

NoBlock == [lo |-> 0, size |-> 0]

(* A word of four bytes, each the index.                                   *)
Filled(m, from, to, i) == [a \in Words |-> IF a \in from..to - 1 THEN i ELSE m[a]]

(* The allocator returns.  A write through NULL crashes; a write past the  *)
(* memory may, and if not the driver rejects the block unless it is within *)
(* the heap; that trace is not followed further.                           *)
Got(i, size, res) ==
    \/ /\ res.bp # NULL /\ NEXT(res.mem, res.bp) <= res.brk
       /\ mem' = Filled(res.mem, res.bp + block[i].size, res.bp + size, i)
       /\ brk' = res.brk
       /\ block' = [block EXCEPT ![i] = [lo |-> res.bp, size |-> size]]
       /\ UNCHANGED <<status, traces>>
    \/ /\ res.bp # NULL /\ NEXT(res.mem, res.bp) > res.brk
       /\ mem' = res.mem /\ status' \in {"crashed", "overrun"}
       /\ UNCHANGED <<brk, block, traces>>
    \/ /\ res.bp = NULL
       /\ status' = "crashed"
       /\ UNCHANGED <<mem, brk, block, traces>>

Alloc(i, size) ==
    status = "ok" /\ block[i] = NoBlock /\ Got(i, size, mm_malloc(heap, size))

Realloc(i, size) ==
    status = "ok" /\ block[i] # NoBlock /\ Got(i, size, mm_realloc(heap, block[i].lo, size))

Release(i) ==
    /\ status = "ok" /\ block[i] # NoBlock
    /\ mem' = mm_free(heap, block[i].lo).mem
    /\ block' = [block EXCEPT ![i] = NoBlock]
    /\ UNCHANGED <<brk, status, traces>>

(* mem_reset_brk and mm_init: the memory keeps the words of the last trace.*)
NextTrace ==
    /\ status # "crashed" /\ traces < MaxTraces /\ traces' = traces + 1
    /\ mem' = mm_init(mem).mem /\ brk' = mm_init(mem).brk
    /\ block' = [i \in Ids |-> NoBlock]
    /\ status' = "ok"

Init ==
    /\ mem = mm_init([a \in Words |-> 0]).mem /\ brk = mm_init([a \in Words |-> 0]).brk
    /\ block = [i \in Ids |-> NoBlock]
    /\ status = "ok" /\ traces = 1

Next ==
    \/ \E i \in Ids, size \in Sizes : Alloc(i, size) \/ Realloc(i, size)
    \/ \E i \in Ids : Release(i)
    \/ NextTrace

Spec == Init /\ [][Next]_vars
=============================================================================
