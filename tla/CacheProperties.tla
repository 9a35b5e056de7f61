-------------------------- MODULE CacheProperties --------------------------
(***************************************************************************)
(* What is checked of CacheSim: the shape and the order of its lists, its   *)
(* counters, and that it counts what LRU counts.  Two history variables    *)
(* record when each block was used last; they restrict nothing.            *)
(***************************************************************************)
EXTENDS CacheSim

VARIABLES
    lastUse,    \* set -> tag -> number of the access that used the block last
    now         \* accesses so far

hvars == <<limit, pc, set, input_t, passes, curr, next, prev, tag, lines, len,
           hits, misses, evictions, entries, lastUse, now>>

HInit == Init /\ lastUse = [s \in Sets |-> [t \in Tags |-> 0]] /\ now = 0

Recorded ==
    /\ now' = now + 1
    /\ lastUse' = [lastUse EXCEPT ![set] = [@ EXCEPT ![input_t] = now + 1]]

HNext ==
    \/ (Hit \/ Miss) /\ Recorded
    \/ (ReadEntry \/ Advance \/ Finish) /\ UNCHANGED <<lastUse, now>>

HSpec     == HInit /\ [][HNext]_hvars
HFairSpec == HSpec /\ WF_hvars(HNext /\ pc = "search")

-----------------------------------------------------------------------------

(* Type invariant.                                                         *)
CacheTypeOK ==
    /\ limit \in Nat /\ pc \in {"entry", "search", "done"}
    /\ set \in Sets /\ input_t \in Tags /\ passes \in 0..2
    /\ curr \in Node
    /\ next \in [Sets -> [Node -> Node \cup {"NULL"}]]
    /\ prev \in [Sets -> [Node -> Node \cup {"NULL"}]]
    /\ tag \in [Sets -> [Node -> Tags]]
    /\ lines \in [Sets -> SUBSET Addr] /\ len \in [Sets -> Nat]
    /\ hits \in Nat /\ misses \in Nat /\ evictions \in Nat /\ entries \in Nat
    /\ lastUse \in [Sets -> [Tags -> Nat]] /\ now \in Nat
    /\ pc = "search" => passes \in 1..2

(* When a node was used last: the dummies are before and after all lines.  *)
Ages(tg, use, time) ==
    [n \in Node |-> CASE n = "head" -> 0
                      [] n = "tail" -> time + 1
                      [] OTHER      -> use[tg[n]]]

Age(s) == Ages(tag[s], lastUse[s], now)

(* A list linked both ways between the dummies, through the nodes L.       *)
Linked(nx, pv, L) ==
    /\ nx["tail"] = "NULL" /\ pv["head"] = "NULL"
    /\ \A n \in L \cup {"head"} : nx[n] \in L \cup {"tail"} /\ pv[nx[n]] = n
    /\ \A n \in L \cup {"tail"} : pv[n] \in L \cup {"head"} /\ nx[pv[n]] = n

(* A node is older than its successor, and no node is between the two.     *)
Chronological(nx, L, age) ==
    \A n \in L \cup {"head"} :
        /\ age[n] < age[nx[n]]
        /\ \A m \in L : age[m] <= age[n] \/ age[m] >= age[nx[n]]

(* No two nodes of L have one tag, every node's block was used, and a used *)
(* block without a node in L is older than them all, L being full.         *)
MostRecent(tg, L, use, full) ==
    /\ \A m, n \in L : tg[m] = tg[n] => m = n
    /\ \A n \in L : use[tg[n]] > 0
    /\ \A t \in Tags : use[t] > 0 /\ (\A n \in L : tg[n] # t) =>
                         full /\ \A n \in L : use[t] < use[tg[n]]

(* The list of a set is doubly linked, ends in the dummies and holds every *)
(* allocated line: none leaks, none is freed while linked.                 *)
ListLinked == \A s \in Sets : Linked(next[s], prev[s], lines[s])

(* TraverseList keeps the lines of a set in the order of their last use.   *)
OldestFirst == \A s \in Sets : Chronological(next[s], lines[s], Age(s))

(* The lines of a set are those of the blocks used last, one for each.     *)
LinesAreRecent ==
    \A s \in Sets : MostRecent(tag[s], lines[s], lastUse[s], len[s] = limit)

(* len is the number of lines, and never exceeds the limit.                *)
LenCounts ==
    \A s \in Sets : IsFiniteSet(lines[s]) /\ len[s] = Cardinality(lines[s]) /\ len[s] <= limit

(* The search is at a line, if there is one, and the block it looks for is *)
(* not in a line it has passed: none is freed under it, none is skipped.   *)
SearchMissesNothing ==
    pc = "search" =>
        /\ curr \in lines[set] \/ (curr = "tail" /\ lines[set] = {})
        /\ \A n \in lines[set] :
              tag[set][n] = input_t => Age(set)[n] >= Age(set)[curr]

(* The history: no use is in the future, no two blocks of a set were used  *)
(* by one access.                                                          *)
UsesDiffer(use, time) ==
    /\ \A t \in Tags : use[t] <= time
    /\ \A t, u \in Tags : use[t] = use[u] /\ use[t] > 0 => t = u

(* The inductive invariant.                                                *)
CacheInductive ==
    /\ CacheTypeOK /\ ListLinked /\ OldestFirst /\ LinesAreRecent /\ LenCounts
    /\ SearchMissesNothing /\ \A s \in Sets : UsesDiffer(lastUse[s], now)

-----------------------------------------------------------------------------
Cache == INSTANCE LRU

(* csim counts the hits, misses and evictions of an LRU cache.             *)
ImplementsLRU == Cache!Spec

(* A search ends: the list has no cycle.                                   *)
SearchEnds == pc = "search" ~> pc = "entry"
=============================================================================
