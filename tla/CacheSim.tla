------------------------------ MODULE CacheSim ------------------------------
(***************************************************************************)
(* The cache simulator csim.c: main's loop over the entries of the trace,  *)
(* and TraverseList, which searches a set's list of lines and splices it.  *)
(* Each set is a doubly linked list between two dummy nodes, oldest line   *)
(* first.  The pointer assignments are made in the order of the code.      *)
(*                                                                         *)
(* An entry is a set, a tag and a method; the trace file's text and the    *)
(* split of addresses by masks are left out.                               *)
(***************************************************************************)
EXTENDS Naturals, FiniteSetsExt

CONSTANTS
    Sets,        \* the set indices
    Tags,        \* the tags
    Addr,        \* the addresses malloc can return for the lines of one set
    MaxLines,    \* bound on the lines per set
    MaxEntries   \* bound on the entries of the trace

ASSUME TagsAssumption == 0 \in Tags /\ IsFiniteSet(Tags)
ASSUME AddrAssumption == "head" \notin Addr /\ "tail" \notin Addr /\ "NULL" \notin Addr
ASSUME MaxLinesAssumption == MaxLines \in Nat

VARIABLES
    limit,       \* E: lines per set
    pc,          \* "entry", "search" or "done"
    set,         \* the set being accessed
    input_t,     \* the tag being looked for
    passes,      \* calls of TraverseList the entry still needs
    curr,        \* TraverseList's pointer
    next, prev,  \* the links of the nodes of each set
    tag,         \* the tags of the nodes of each set
    lines,       \* the nodes of each set that are allocated
    len,         \* lines in each set
    hits, misses, evictions,
    entries      \* entries read

entryVars == <<set, input_t, passes>>
listVars  == <<next, prev, tag, lines, len>>
countVars == <<hits, misses, evictions>>
vars == <<limit, pc, set, input_t, passes, curr, next, prev, tag, lines, len,
          hits, misses, evictions, entries>>

-----------------------------------------------------------------------------

Node == Addr \cup {"head", "tail"}

(* Dummies have v = 0 and tag = 0, lines have v = 1.                       *)
v(n) == IF n \in Addr THEN 1 ELSE 0

(* Faulty: the valid bit is not looked at. *)
Matches_IgnoresValid(n) == tag[set][n] = input_t

Matches(n) == tag[set][n] = input_t /\ v(n) = 1

(* Faulty: the search stops one node early. *)
HasSuccessor_StopsEarly(n) ==
    /\ next[set][n] # "NULL" /\ next[set][next[set][n]] # "NULL"
    /\ next[set][next[set][next[set][n]]] # "NULL"

(* The search loop's condition: n is not the last node before dumb_tail.   *)
HasSuccessor(n) == next[set][n] # "NULL" /\ next[set][next[set][n]] # "NULL"

(* Faulty: the line keeps its old successor. *)
MovedToTail_KeepsNext(nx, pv, c) ==
    LET nx1 == [nx  EXCEPT ![pv[c]] = nx[c]]
        pv1 == [pv  EXCEPT ![nx1[c]] = pv[c]]
        nx2 == [nx1 EXCEPT ![pv1["tail"]] = c]
        pv2 == [pv1 EXCEPT ![c] = pv1["tail"]]
        pv3 == [pv2 EXCEPT !["tail"] = c]
    IN  <<nx2, pv3>>

(* Faulty: dumb_tail->prev is assigned before it is used. *)
MovedToTail_TailFirst(nx, pv, c) ==
    LET nx1 == [nx  EXCEPT ![pv[c]] = nx[c]]
        pv1 == [pv  EXCEPT ![nx1[c]] = pv[c]]
        pv2 == [pv1 EXCEPT !["tail"] = c]
        nx2 == [nx1 EXCEPT ![pv2["tail"]] = c]
        pv3 == [pv2 EXCEPT ![c] = pv2["tail"]]
        nx3 == [nx2 EXCEPT ![c] = "tail"]
    IN  <<nx3, pv3>>

(* A hit's line is taken out of the list and put in front of dumb_tail.    *)
MovedToTail(nx, pv, c) ==
    LET nx1 == [nx  EXCEPT ![pv[c]] = nx[c]]
        pv1 == [pv  EXCEPT ![nx1[c]] = pv[c]]
        nx2 == [nx1 EXCEPT ![pv1["tail"]] = c]
        pv2 == [pv1 EXCEPT ![c] = pv1["tail"]]
        nx3 == [nx2 EXCEPT ![c] = "tail"]
        pv3 == [pv2 EXCEPT !["tail"] = c]
    IN  <<nx3, pv3>>

(* A new line is put in front of dumb_tail.                                *)
Appended(nx, pv, n) ==
    LET pv1 == [pv  EXCEPT ![n] = pv["tail"]]
        nx1 == [nx  EXCEPT ![pv1["tail"]] = n]
        nx2 == [nx1 EXCEPT ![n] = "tail"]
        pv2 == [pv1 EXCEPT !["tail"] = n]
    IN  <<nx2, pv2>>

(* The line after dumb_head, the oldest, is taken out.                     *)
HeadPopped(nx, pv) ==
    LET head == nx["head"]
        nx1  == [nx EXCEPT !["head"] = nx[head]]
        pv1  == [pv EXCEPT ![nx1[head]] = "head"]
    IN  <<nx1, pv1>>

Link(s, links) ==
    /\ next' = [next EXCEPT ![s] = links[1]]
    /\ prev' = [prev EXCEPT ![s] = links[2]]

-----------------------------------------------------------------------------
(* main: the next entry, and the calls of TraverseList it makes.           *)

(* An entry with method M is looked up twice, any other one once.          *)
ReadEntry ==
    /\ pc = "entry" /\ entries < MaxEntries
    /\ set' \in Sets /\ input_t' \in Tags
    /\ \E method \in {"L", "S", "M"} : passes' = IF method = "M" THEN 2 ELSE 1
    /\ curr' = next[set']["head"]
    /\ pc' = "search" /\ entries' = entries + 1
    /\ UNCHANGED <<limit, listVars, countVars>>

(* main's switch on the result: 1 is a hit, 2 a miss, 3 a miss that evicts.*)
Count(res) ==
    /\ hits'      = IF res = 1 THEN hits + 1 ELSE hits
    /\ misses'    = IF res \in {2, 3} THEN misses + 1 ELSE misses
    /\ evictions' = IF res = 3 THEN evictions + 1 ELSE evictions

(* Faulty: the second call goes on from the node where the first one ended.*)
NextPass_KeepsCurr ==
    /\ passes' = passes - 1
    /\ pc' = IF passes = 1 THEN "entry" ELSE "search"
    /\ UNCHANGED <<curr, set, input_t>>

(* TraverseList returns: the entry's second call, or the next entry.       *)
NextPass ==
    /\ passes' = passes - 1
    /\ pc' = IF passes = 1 THEN "entry" ELSE "search"
    /\ curr' = next'[set]["head"]
    /\ UNCHANGED <<set, input_t>>

-----------------------------------------------------------------------------
(* TraverseList.                                                           *)

Advance ==
    /\ pc = "search" /\ HasSuccessor(curr) /\ ~Matches(curr)
    /\ curr' = next[set][curr]
    /\ UNCHANGED <<limit, pc, entries, entryVars, listVars, countVars>>

(* Faulty: a hit leaves the line where it is (first in, first out). *)
Hit_KeepsOrder ==
    /\ pc = "search" /\ Matches(curr)
    /\ UNCHANGED <<next, prev>>
    /\ Count(1)
    /\ NextPass
    /\ UNCHANGED <<limit, tag, lines, len, entries>>

Hit ==
    /\ pc = "search" /\ Matches(curr)
    /\ Link(set, MovedToTail(next[set], prev[set], curr))
    /\ Count(1)
    /\ NextPass
    /\ UNCHANGED <<limit, tag, lines, len, entries>>

(* A new line is appended; when the set is full its oldest line is popped  *)
(* and freed.                                                              *)
Miss ==
    /\ pc = "search" /\ ~Matches(curr) /\ ~HasSuccessor(curr)
    /\ \E n \in Addr \ lines[set] :
         LET links == Appended(next[set], prev[set], n)
         IN  /\ tag' = [tag EXCEPT ![set] = [@ EXCEPT ![n] = input_t]]
             /\ \/ /\ len[set] < limit
                   /\ Link(set, links) /\ lines' = [lines EXCEPT ![set] = @ \cup {n}]
                   /\ len' = [len EXCEPT ![set] = @ + 1]
                   /\ Count(2)
                \/ /\ len[set] >= limit
                   /\ Link(set, HeadPopped(links[1], links[2]))
                   /\ lines' = [lines EXCEPT ![set] = (@ \cup {n}) \ {links[1]["head"]}]
                   /\ len' = len
                   /\ Count(3)
    /\ NextPass
    /\ UNCHANGED <<limit, entries>>

(* The end of the trace: the summary is printed. *)
Finish ==
    /\ pc \in {"entry", "done"} /\ pc' = "done"
    /\ UNCHANGED <<limit, curr, entries, entryVars, listVars, countVars>>

-----------------------------------------------------------------------------

(* InitCache, after main has read its arguments.                           *)
Init ==
    /\ limit \in 0..MaxLines
    /\ pc = "entry" /\ set \in Sets /\ input_t = 0 /\ passes = 0 /\ curr = "head"
    /\ next = [s \in Sets |-> [n \in Node |-> IF n = "head" THEN "tail" ELSE "NULL"]]
    /\ prev = [s \in Sets |-> [n \in Node |-> IF n = "tail" THEN "head" ELSE "NULL"]]
    /\ tag  = [s \in Sets |-> [n \in Node |-> 0]]
    /\ lines = [s \in Sets |-> {}] /\ len = [s \in Sets |-> 0]
    /\ hits = 0 /\ misses = 0 /\ evictions = 0 /\ entries = 0

TraverseList == Advance \/ Hit \/ Miss

Next == ReadEntry \/ TraverseList \/ Finish

Spec == Init /\ [][Next]_vars
=============================================================================
