-------------------------------- MODULE LRU --------------------------------
(***************************************************************************)
(* What csim.c promises to count: the hits, misses and evictions of a      *)
(* set-associative cache that evicts the least recently used line.  The    *)
(* cache's contents are not a variable: they follow from when each block   *)
(* was used last.  A block is in the cache when fewer than `limit` other   *)
(* blocks of its set were used since.                                      *)
(***************************************************************************)
EXTENDS Naturals, FiniteSets

CONSTANTS Sets, Tags

VARIABLES
    limit,      \* lines per set
    lastUse,    \* set -> tag -> number of the access that used the block last, 0 if none
    now,        \* accesses so far
    hits, misses, evictions

vars == <<limit, lastUse, now, hits, misses, evictions>>

UsedSince(s, t) == {u \in Tags : lastUse[s][u] > lastUse[s][t]}
Cached(s, t)    == lastUse[s][t] > 0 /\ Cardinality(UsedSince(s, t)) < limit
Used(s)         == {u \in Tags : lastUse[s][u] > 0}
Full(s)         == Cardinality(Used(s)) >= limit

Init ==
    /\ limit \in Nat
    /\ lastUse = [s \in Sets |-> [t \in Tags |-> 0]] /\ now = 0
    /\ hits = 0 /\ misses = 0 /\ evictions = 0

Access(s, t) ==
    /\ now' = now + 1
    /\ lastUse' = [lastUse EXCEPT ![s] = [@ EXCEPT ![t] = now + 1]]
    /\ hits'      = IF Cached(s, t) THEN hits + 1 ELSE hits
    /\ misses'    = IF Cached(s, t) THEN misses ELSE misses + 1
    /\ evictions' = IF ~Cached(s, t) /\ Full(s) THEN evictions + 1 ELSE evictions
    /\ UNCHANGED limit

Next == \E s \in Sets, t \in Tags : Access(s, t)

Spec == Init /\ [][Next]_vars
=============================================================================
