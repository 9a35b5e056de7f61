----------------------------- MODULE Allocator ------------------------------
(***************************************************************************)
(* What an allocator owes its driver, by the tests of eval_mm_valid and    *)
(* add_range and by their comments: payloads are aligned, lie in the heap, *)
(* overlap no other payload, and keep what was stored in them, also when   *)
(* they are reallocated.                                                   *)
(***************************************************************************)
EXTENDS Integers, Sequences

CONSTANTS
    Ids,        \* the blocks of the trace
    Sizes,      \* the sizes it asks for, multiples of a word
    HeapLo,     \* mem_heap_lo()
    HeapEnd     \* end of the memory

VARIABLES
    live,       \* id -> [lo, size], size = 0 when the block is not allocated
    data,       \* id -> the words of its payload
    heapHi      \* mem_heap_hi() + 1

vars == <<live, data, heapHi>>

-----------------------------------------------------------------------------

Free == [lo |-> 0, size |-> 0]

Payload(b) == b.lo..b.lo + b.size - 1

(* The tests of add_range: of the payload's first byte and of its last.    *)
Acceptable(i, b, hi) ==
    /\ b.lo % 8 = 0
    /\ \A at \in {b.lo, b.lo + b.size - 1} :
         /\ at \in HeapLo..hi - 1
         /\ \A j \in Ids \ {i} : at \notin Payload(live[j])

(* What its comment says (mdriver.c:407): "The payload must not overlap    *)
(* any other payloads".  The tests do not see a payload around another.    *)
Apart(i, b) == \A j \in Ids \ {i} : Payload(b) \cap Payload(live[j]) = {}

(* The break grows until the next trace.                                   *)
Grows == heapHi' \in heapHi..HeapEnd

(* The new block of i has the words of the old one as far as both reach.   *)
Moved(i) ==
    /\ live'[i].size \in Sizes /\ live'[i].lo \in HeapLo..heapHi' - 1
    /\ live' = [live EXCEPT ![i] = [lo |-> live'[i].lo, size |-> live'[i].size]]
    /\ Acceptable(i, live'[i], heapHi') /\ Apart(i, live'[i])
    /\ \A j \in Ids \ {i} : data'[j] = data[j]
    /\ Len(data'[i]) = live'[i].size \div 4
    /\ \A k \in DOMAIN data'[i] \cap DOMAIN data[i] : data'[i][k] = data[i][k]

Malloc(i)  == live[i] = Free /\ Grows /\ Moved(i)
Realloc(i) == live[i] # Free /\ Grows /\ Moved(i)

Release(i) ==
    /\ live[i] # Free
    /\ live' = [live EXCEPT ![i] = Free] /\ data' = [data EXCEPT ![i] = <<>>]
    /\ UNCHANGED heapHi

Empty(hi) == heapHi = hi /\ live = [i \in Ids |-> Free] /\ data = [i \in Ids |-> <<>>]

Init == \E hi \in HeapLo..HeapEnd : Empty(hi)

(* The next trace begins with an empty heap.                               *)
Reset ==
    /\ live' = [i \in Ids |-> Free] /\ data' = [i \in Ids |-> <<>>]
    /\ heapHi' \in HeapLo..HeapEnd

Next == Reset \/ \E i \in Ids : Malloc(i) \/ Realloc(i) \/ Release(i)

Spec == Init /\ [][Next]_vars

-----------------------------------------------------------------------------

(* All payloads lie in the heap, aligned, and no two of them overlap.      *)
PayloadsApart ==
    \A i \in Ids :
        /\ live[i].lo % 8 = 0
        /\ Payload(live[i]) \subseteq HeapLo..heapHi - 1
        /\ \A j \in Ids \ {i} : Payload(live[i]) \cap Payload(live[j]) = {}
=============================================================================
