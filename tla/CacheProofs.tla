---------------------------- MODULE CacheProofs ----------------------------
(***************************************************************************)
(* Proofs about the cache simulator, for every number of sets and lines:   *)
(* its lists stay linked and in order of last use, no block is missed by a *)
(* search, and what it counts is what LRU counts.                          *)
(***************************************************************************)
EXTENDS CacheProperties, FiniteSetTheorems, TLAPS

-----------------------------------------------------------------------------
(* The list operations.                                                    *)

(* Links of a set's nodes. *)
Links == [Node -> Node \cup {"NULL"}]

(* The dummies are no lines. *)
LEMMA Dummies ==
    /\ "head" \notin Addr /\ "tail" \notin Addr /\ "NULL" \notin Addr /\ "NULL" \notin Node
    /\ "head" \in Node /\ "tail" \in Node /\ "head" # "tail" /\ Addr \subseteq Node
BY AddrAssumption DEF Node

(* The list starts at its oldest line, and ends at once when it has none.  *)
LEMMA ListStart ==
    ASSUME NEW nx \in Links, NEW pv \in Links, NEW L \in SUBSET Addr, NEW age \in [Node -> Nat],
           Linked(nx, pv, L), Chronological(nx, L, age), age["head"] = 0,
           \A n \in L : age[n] > 0 /\ age[n] < age["tail"]
    PROVE  /\ nx["head"] \in L \/ (nx["head"] = "tail" /\ L = {})
           /\ \A n \in L : age[n] >= age[nx["head"]]
<1>1. nx["head"] \in L \cup {"tail"}
  BY DEF Linked
<1>2. \A n \in L : age[n] <= age["head"] \/ age[n] >= age[nx["head"]]
  BY DEF Chronological
<1>3. \A n \in L : age[n] >= age[nx["head"]]
  BY <1>1, <1>2, Dummies DEF Node
<1>4. ASSUME nx["head"] = "tail" PROVE L = {}
  BY <1>3, <1>4, Dummies DEF Node
<1> QED BY <1>1, <1>3, <1>4

(* A list stays in order when only the tail gets later. *)
LEMMA TailLater ==
    ASSUME NEW nx \in Links, NEW pv \in Links, NEW L \in SUBSET Addr,
           NEW age \in [Node -> Nat], NEW late \in [Node -> Nat],
           Linked(nx, pv, L), Chronological(nx, L, age),
           \A n \in L : age[n] < age["tail"],
           \A n \in L \cup {"head"} : late[n] = age[n],
           late["tail"] >= age["tail"]
    PROVE  Chronological(nx, L, late)
<1> SUFFICES ASSUME NEW n \in L \cup {"head"}
             PROVE  /\ late[n] < late[nx[n]]
                    /\ \A m \in L : late[m] <= late[n] \/ late[m] >= late[nx[n]]
  BY DEF Chronological
<1>1. nx[n] \in L \cup {"tail"} /\ n \in Node /\ nx[n] \in Node
  BY Dummies DEF Linked, Node
<1>2. age[n] < age[nx[n]] /\ \A m \in L : age[m] <= age[n] \/ age[m] >= age[nx[n]]
  BY DEF Chronological
<1>3. CASE nx[n] = "tail"
  BY <1>1, <1>2, <1>3, Dummies
<1>4. CASE nx[n] \in L
  BY <1>1, <1>2, <1>4, Dummies
<1> QED BY <1>1, <1>3, <1>4

(* Appended links the new node, as the youngest. *)
LEMMA AppendedLinks ==
    ASSUME NEW nx \in Links, NEW pv \in Links, NEW L \in SUBSET Addr, NEW c \in Addr \ L,
           Linked(nx, pv, L),
           NEW nx2, NEW pv2, nx2 = Appended(nx, pv, c)[1], pv2 = Appended(nx, pv, c)[2]
    PROVE  nx2 \in Links /\ pv2 \in Links /\ Linked(nx2, pv2, L \cup {c})
<1> DEFINE last == pv["tail"]
<1>1. last \in L \cup {"head"} /\ last # c /\ nx[last] = "tail" /\ c # "tail" /\ last \in Node /\ c \in Node
  BY Dummies DEF Linked, Node
<1>2. nx2 = [x \in Node |-> IF x = c THEN "tail" ELSE IF x = last THEN c ELSE nx[x]]
  BY <1>1, Dummies DEF Appended, Links
<1>3. pv2 = [x \in Node |-> IF x = "tail" THEN c ELSE IF x = c THEN last ELSE pv[x]]
  BY <1>1, Dummies DEF Appended, Links
<1>4. nx2 \in Links /\ pv2 \in Links
  BY <1>1, <1>2, <1>3, Dummies DEF Links
<1>5. ASSUME NEW n \in L \cup {c, "head"}
      PROVE  nx2[n] \in L \cup {c, "tail"} /\ pv2[nx2[n]] = n
  <2>1. n \in Node BY <1>1, Dummies
  <2>2. CASE n = c BY <1>1, <1>2, <1>3, <2>2, Dummies
  <2>3. CASE n = last BY <1>1, <1>2, <1>3, <2>3, Dummies
  <2>4. CASE n # c /\ n # last
    <3>1. nx2[n] = nx[n] BY <1>2, <2>1, <2>4
    <3>2. nx[n] \in L \cup {"tail"} /\ pv[nx[n]] = n BY <2>4 DEF Linked
    <3>3. nx[n] # "tail" BY <2>4, <3>2
    <3>4. nx[n] # c /\ nx[n] \in Node BY <3>2, Dummies
    <3> QED BY <1>3, <3>1, <3>2, <3>3, <3>4
  <2> QED BY <2>2, <2>3, <2>4
<1>6. ASSUME NEW n \in L \cup {c, "tail"}
      PROVE  pv2[n] \in L \cup {c, "head"} /\ nx2[pv2[n]] = n
  <2>1. n \in Node BY <1>1, Dummies
  <2>2. CASE n = c BY <1>1, <1>2, <1>3, <2>2, Dummies
  <2>3. CASE n = "tail" BY <1>1, <1>2, <1>3, <2>3, Dummies
  <2>4. CASE n # c /\ n # "tail"
    <3>1. pv2[n] = pv[n] BY <1>3, <2>1, <2>4
    <3>2. pv[n] \in L \cup {"head"} /\ nx[pv[n]] = n BY <2>4 DEF Linked
    <3>3. pv[n] # last BY <1>1, <2>4, <3>2
    <3>4. pv[n] # c /\ pv[n] \in Node BY <3>2, Dummies
    <3> QED BY <1>2, <3>1, <3>2, <3>3, <3>4
  <2> QED BY <2>2, <2>3, <2>4
<1>7. nx2["tail"] = "NULL" /\ pv2["head"] = "NULL"
  BY <1>1, <1>2, <1>3, Dummies DEF Linked
<1> QED BY <1>4, <1>5, <1>6, <1>7 DEF Linked

(* Appended keeps the order. *)
LEMMA AppendedOrder ==
    ASSUME NEW nx \in Links, NEW pv \in Links, NEW L \in SUBSET Addr, NEW c \in Addr \ L,
           NEW age \in [Node -> Nat], NEW late \in [Node -> Nat],
           Linked(nx, pv, L), Chronological(nx, L, age),
           \A n \in L : age[n] < age["tail"],
           age["head"] < age["tail"],
           \A n \in L \cup {"head"} : late[n] = age[n],
           late[c] = age["tail"], late["tail"] > late[c],
           NEW nx2, nx2 = Appended(nx, pv, c)[1]
    PROVE  Chronological(nx2, L \cup {c}, late)
<1> DEFINE last == pv["tail"]
<1>1. last \in L \cup {"head"} /\ last # c /\ nx[last] = "tail" /\ c # "tail" /\ last \in Node /\ c \in Node
  BY Dummies DEF Linked, Node
<1>0. nx2 = [x \in Node |-> IF x = c THEN "tail" ELSE IF x = last THEN c ELSE nx[x]]
  BY <1>1, Dummies DEF Appended, Links
<1> SUFFICES ASSUME NEW n \in L \cup {c, "head"}
             PROVE  /\ late[n] < late[nx2[n]]
                    /\ \A m \in L \cup {c} : late[m] <= late[n] \/ late[m] >= late[nx2[n]]
  BY DEF Chronological
<1>2. n \in Node /\ \A m \in L \cup {c} : m \in Node /\ late[m] \in Nat
  BY <1>1, Dummies
<1>3. CASE n = c
  <2>1. nx2[n] = "tail" BY <1>0, <1>2, <1>3
  <2>2. \A m \in L \cup {c} : late[m] <= late[c] BY <1>1, <1>2, Dummies
  <2> QED BY <1>3, <2>1, <2>2
<1>4. CASE n = last
  <2>1. nx2[n] = c BY <1>0, <1>1, <1>4
  <2>2. \A m \in L : age[m] <= age[last] \/ age[m] >= age["tail"] BY <1>1 DEF Chronological
  <2>3. age[last] < age["tail"] BY <1>1
  <2>4. late[n] = age[n] /\ late[n] < late[c] BY <1>1, <1>4, <2>3
  <2>5. \A m \in L : late[m] = age[m] BY <1>1
  <2>6. \A m \in L : late[m] <= late[n] \/ late[m] >= late[c] BY <1>4, <2>2, <2>4, <2>5
  <2> QED BY <1>2, <2>1, <2>4, <2>6, Dummies
<1>5. CASE n # c /\ n # last
  <2>1. nx2[n] = nx[n] BY <1>0, <1>2, <1>5
  <2>2. nx[n] \in L \cup {"tail"} /\ pv[nx[n]] = n BY <1>5 DEF Linked
  <2>3. nx[n] \in L BY <1>5, <2>2
  <2>4. /\ age[n] < age[nx[n]]
        /\ \A m \in L : age[m] <= age[n] \/ age[m] >= age[nx[n]] BY <1>5 DEF Chronological
  <2>5. late[n] = age[n] /\ late[nx[n]] = age[nx[n]] BY <1>5, <2>3
  <2>6. \A m \in L : late[m] = age[m] BY <1>1
  <2>7. late[c] >= late[nx[n]] BY <2>3, <2>5, Dummies
  <2>8. \A m \in L : late[m] <= late[n] \/ late[m] >= late[nx[n]] BY <2>4, <2>5, <2>6
  <2> QED BY <2>1, <2>4, <2>5, <2>7, <2>8
<1> QED BY <1>3, <1>4, <1>5
(* MovedToTail, in one step. *)
LEMMA MovedToTailIs ==
    ASSUME NEW nx \in Links, NEW pv \in Links, NEW L \in SUBSET Addr, NEW c \in L,
           Linked(nx, pv, L), nx[c] # c,
           NEW nx2, NEW pv2, nx2 = MovedToTail(nx, pv, c)[1], pv2 = MovedToTail(nx, pv, c)[2],
           NEW last, last = IF nx[c] = "tail" THEN pv[c] ELSE pv["tail"]
    PROVE  /\ nx2 = [x \in Node |-> IF x = c THEN "tail" ELSE IF x = last THEN c
                                    ELSE IF x = pv[c] THEN nx[c] ELSE nx[x]]
           /\ pv2 = [x \in Node |-> IF x = "tail" THEN c ELSE IF x = c THEN last
                                    ELSE IF x = nx[c] THEN pv[c] ELSE pv[x]]
<1> DEFINE p == pv[c]
           q == nx[c]
<1>1. /\ p \in L \cup {"head"} /\ nx[p] = c /\ q \in L \cup {"tail"} /\ pv[q] = c
      /\ p # c /\ q # c /\ c # "tail" /\ c # "head" /\ c \in Node /\ p \in Node /\ q \in Node
  BY Dummies DEF Linked, Node
<1>2. /\ pv["tail"] \in L \cup {"head"} /\ nx[pv["tail"]] = "tail" /\ pv["tail"] \in Node
      /\ (q # "tail" => pv["tail"] # c)
  BY <1>1, Dummies DEF Linked, Node
<1>3. last \in Node /\ last # c /\ last # "tail"
  BY <1>1, <1>2, Dummies
<1> DEFINE nx1 == [nx EXCEPT ![p] = q]
           pv1 == [pv EXCEPT ![nx1[c]] = p]
<1>4. /\ nx2 = [[nx1 EXCEPT ![pv1["tail"]] = c] EXCEPT ![c] = "tail"]
      /\ pv2 = [[pv1 EXCEPT ![c] = pv1["tail"]] EXCEPT !["tail"] = c]
  BY DEF MovedToTail
<1>5. nx1[c] = q /\ nx1 = [x \in Node |-> IF x = p THEN q ELSE nx[x]]
  BY <1>1 DEF Links
<1>7. /\ pv1["tail"] = last /\ pv1 = [x \in Node |-> IF x = q THEN p ELSE pv[x]]
  BY <1>1, <1>5, Dummies DEF Links
<1> HIDE DEF nx1, pv1
<1>8. /\ nx2 = [[nx1 EXCEPT ![last] = c] EXCEPT ![c] = "tail"]
      /\ pv2 = [[pv1 EXCEPT ![c] = last] EXCEPT !["tail"] = c]
  BY <1>4, <1>7
<1>9. nx2 = [x \in Node |-> IF x = c THEN "tail" ELSE IF x = last THEN c
                           ELSE IF x = p THEN q ELSE nx[x]]
  BY <1>1, <1>3, <1>5, <1>8
<1>10. pv2 = [x \in Node |-> IF x = "tail" THEN c ELSE IF x = c THEN last
                            ELSE IF x = q THEN p ELSE pv[x]]
  BY <1>1, <1>3, <1>7, <1>8, Dummies
<1> QED BY <1>9, <1>10

(* MovedToTail keeps the list linked. *)
LEMMA MovedToTailLinks ==
    ASSUME NEW nx \in Links, NEW pv \in Links, NEW L \in SUBSET Addr, NEW c \in L,
           Linked(nx, pv, L), nx[c] # c,
           NEW nx2, NEW pv2, nx2 = MovedToTail(nx, pv, c)[1], pv2 = MovedToTail(nx, pv, c)[2]
    PROVE  nx2 \in Links /\ pv2 \in Links /\ Linked(nx2, pv2, L)
<1> DEFINE p == pv[c]
           q == nx[c]
<1>1. /\ p \in L \cup {"head"} /\ nx[p] = c /\ q \in L \cup {"tail"} /\ pv[q] = c
      /\ p # c /\ q # c /\ c # "tail" /\ c # "head" /\ c \in Node /\ p \in Node /\ q \in Node
  BY Dummies DEF Linked, Node
<1>2. PICK last : last = IF q = "tail" THEN p ELSE pv["tail"]
  OBVIOUS
<1>3. last \in L \cup {"head"} /\ last # c /\ last # "tail" /\ last \in Node
  BY <1>1, <1>2, Dummies DEF Linked, Node
<1>4. nx2 = [x \in Node |-> IF x = c THEN "tail" ELSE IF x = last THEN c
                           ELSE IF x = p THEN q ELSE nx[x]]
  BY <1>2, MovedToTailIs
<1>5. pv2 = [x \in Node |-> IF x = "tail" THEN c ELSE IF x = c THEN last
                           ELSE IF x = q THEN p ELSE pv[x]]
  BY <1>2, MovedToTailIs
<1>6. nx2 \in Links /\ pv2 \in Links
  BY <1>1, <1>3, <1>4, <1>5, Dummies DEF Links
<1>7. ASSUME NEW n \in L \cup {"head"}
      PROVE  nx2[n] \in L \cup {"tail"} /\ pv2[nx2[n]] = n
  <2>1. n \in Node /\ nx[n] \in L \cup {"tail"} /\ pv[nx[n]] = n BY Dummies DEF Linked
  <2>2. CASE n = c BY <1>1, <1>4, <1>5, <2>2, Dummies
  <2>3. CASE n = last BY <1>1, <1>3, <1>4, <1>5, <2>3, Dummies
  <2>4. CASE n = p /\ n # last
    <3>1. q # "tail" BY <1>2, <2>4
    <3>2. nx2[n] = q BY <1>1, <1>4, <2>4
    <3> QED BY <1>1, <1>5, <2>4, <3>1, <3>2
  <2>5. CASE n # c /\ n # last /\ n # p
    <3>1. nx2[n] = nx[n] BY <1>4, <2>1, <2>5
    <3>2. nx[n] # c /\ nx[n] # q BY <1>1, <2>1, <2>5
    <3>3. nx[n] # "tail" BY <1>2, <2>1, <2>5, <3>2
    <3>4. nx[n] \in Node BY <2>1, Dummies
    <3> QED BY <1>5, <2>1, <3>1, <3>2, <3>3, <3>4
  <2> QED BY <2>2, <2>3, <2>4, <2>5
<1>8. ASSUME NEW n \in L \cup {"tail"}
      PROVE  pv2[n] \in L \cup {"head"} /\ nx2[pv2[n]] = n
  <2>1. n \in Node /\ pv[n] \in L \cup {"head"} /\ nx[pv[n]] = n BY Dummies DEF Linked
  <2>2. CASE n = "tail" BY <1>1, <1>4, <1>5, <2>2, Dummies
  <2>3. CASE n = c BY <1>1, <1>3, <1>4, <1>5, <2>3, Dummies
  <2>4. CASE n = q /\ n # "tail"
    <3>1. pv2[n] = p BY <1>1, <1>5, <2>4
    <3>2. p # last
      <4>1. last = pv["tail"] BY <1>2, <2>4
      <4>2. nx[last] = "tail" BY <4>1 DEF Linked
      <4> QED BY <1>1, <4>2
    <3> QED BY <1>1, <1>4, <2>4, <3>1, <3>2
  <2>5. CASE n # "tail" /\ n # c /\ n # q
    <3>1. pv2[n] = pv[n] BY <1>5, <2>1, <2>5
    <3>2. pv[n] # c /\ pv[n] # p BY <1>1, <2>1, <2>5
    <3>3. pv[n] # last
      <4>1. CASE q = "tail" BY <1>2, <3>2, <4>1
      <4>2. CASE q # "tail"
        <5>1. last = pv["tail"] BY <1>2, <4>2
        <5>2. nx[last] = "tail" BY <5>1 DEF Linked
        <5> QED BY <2>1, <2>5, <5>2
      <4> QED BY <4>1, <4>2
    <3>4. pv[n] \in Node BY <2>1, Dummies
    <3> QED BY <1>4, <2>1, <3>1, <3>2, <3>3, <3>4
  <2> QED BY <2>2, <2>3, <2>4, <2>5
<1>9. nx2["tail"] = "NULL" /\ pv2["head"] = "NULL"
  <2>1. nx["tail"] = "NULL" /\ pv["head"] = "NULL" BY DEF Linked
  <2>2. p # "tail" /\ q # "head" BY <1>1, Dummies
  <2> QED BY <1>1, <1>3, <1>4, <1>5, <2>1, <2>2, Dummies
<1> QED BY <1>6, <1>7, <1>8, <1>9 DEF Linked

(* MovedToTail keeps the order, when the node is the last one used. *)
LEMMA MovedToTailOrder ==
    ASSUME NEW nx \in Links, NEW pv \in Links, NEW L \in SUBSET Addr, NEW c \in L,
           NEW age \in [Node -> Nat], NEW late \in [Node -> Nat],
           Linked(nx, pv, L), Chronological(nx, L, age),
           \A n \in L : age[n] < age["tail"],
           \A m, n \in L : age[m] = age[n] => m = n,
           age["head"] < age["tail"],
           \A n \in (L \ {c}) \cup {"head"} : late[n] = age[n],
           late[c] = age["tail"], late["tail"] > late[c],
           NEW nx2, nx2 = MovedToTail(nx, pv, c)[1]
    PROVE  Chronological(nx2, L, late)
<1> DEFINE p == pv[c]
           q == nx[c]
<1>0. nx[c] # c /\ age[c] < age[q]
  BY Dummies DEF Chronological, Linked
<1>1. /\ p \in L \cup {"head"} /\ nx[p] = c /\ q \in L \cup {"tail"} /\ pv[q] = c
      /\ p # c /\ q # c /\ c # "tail" /\ c # "head" /\ c \in Node /\ p \in Node /\ q \in Node
  BY <1>0, Dummies DEF Linked, Node
<1>2. PICK last : last = IF q = "tail" THEN p ELSE pv["tail"]
  OBVIOUS
<1>3. last \in L \cup {"head"} /\ last # c /\ last # "tail" /\ last \in Node
  BY <1>1, <1>2, Dummies DEF Linked, Node
<1>a. PICK pv2 : pv2 = MovedToTail(nx, pv, c)[2]
  OBVIOUS
<1>4. nx2 = [x \in Node |-> IF x = c THEN "tail" ELSE IF x = last THEN c
                           ELSE IF x = p THEN q ELSE nx[x]]
  BY <1>0, <1>2, <1>a, MovedToTailIs
<1>5. \A n \in L \cup {"head", "tail"} : n \in Node /\ age[n] \in Nat /\ late[n] \in Nat
  BY Dummies
<1>6. \A n \in (L \ {c}) \cup {"head"} : late[n] < late[c]
  BY <1>1, <1>5, Dummies
<1>7. \A m \in L : age[m] <= age[p] \/ age[m] >= age[c]
  BY <1>1 DEF Chronological
<1>8. \A m \in L : age[m] <= age[c] \/ age[m] >= age[q]
  BY <1>1 DEF Chronological
<1>9. age[p] < age[c]
  BY <1>1 DEF Chronological
<1> SUFFICES ASSUME NEW n \in L \cup {"head"}
             PROVE  /\ late[n] < late[nx2[n]]
                    /\ \A m \in L : late[m] <= late[n] \/ late[m] >= late[nx2[n]]
  BY DEF Chronological
<1>10. CASE n = c
  <2>1. nx2[n] = "tail" BY <1>1, <1>4, <1>10
  <2>2. \A m \in L : late[m] <= late[c] BY <1>5, <1>6
  <2> QED BY <1>10, <2>1, <2>2
<1>11. CASE n = last
  <2>1. nx2[n] = c BY <1>3, <1>4, <1>11
  <2>2. late[n] = age[n] /\ late[n] < late[c] BY <1>3, <1>6, <1>11
  <2>3. \A m \in L \ {c} : age[m] <= age[last]
    <3>1. CASE q = "tail"
      <4>1. last = p BY <1>2, <3>1
      <4>2. \A m \in L : age[m] <= age[c] BY <1>5, <1>8, <3>1
      <4>3. \A m \in L : age[m] = age[c] => m = c
        OBVIOUS
      <4> QED BY <1>5, <1>7, <4>1, <4>2, <4>3
    <3>2. CASE q # "tail"
      <4>1. last = pv["tail"] /\ nx[last] = "tail" BY <1>2, <3>2 DEF Linked
      <4>2. \A m \in L : age[m] <= age[last] \/ age[m] >= age["tail"]
        BY <1>3, <4>1 DEF Chronological
      <4> QED BY <1>5, <4>2
    <3> QED BY <3>1, <3>2
  <2>4. \A m \in L \ {c} : late[m] <= late[n] BY <1>11, <2>2, <2>3
  <2> QED BY <1>5, <2>1, <2>2, <2>4
<1>12. CASE n = p /\ n # last
  <2>1. nx2[n] = q /\ q # "tail" /\ q \in L BY <1>1, <1>2, <1>4, <1>12
  <2>2. late[n] = age[n] /\ late[q] = age[q] /\ age[p] < age[q]
    BY <1>0, <1>1, <1>5, <1>9, <1>12, <2>1
  <2>3. \A m \in L \ {c} : age[m] <= age[p] \/ age[m] >= age[q]
    <3> SUFFICES ASSUME NEW m \in L \ {c}, age[m] > age[p], age[m] < age[q] PROVE FALSE
      BY <1>1, <1>5
    <3>1. age[m] = age[c] BY <1>1, <1>5, <1>7, <1>8
    <3> QED BY <3>1
  <2>4. \A m \in L \ {c} : late[m] <= late[n] \/ late[m] >= late[q] BY <1>12, <2>2, <2>3
  <2>5. late[c] >= late[q] BY <1>5, <1>6, <2>1
  <2> QED BY <2>1, <2>2, <2>4, <2>5, <1>12
<1>13. CASE n # c /\ n # last /\ n # p
  <2>1. n \in Node /\ nx2[n] = nx[n] BY <1>4, <1>5, <1>13
  <2>2. nx[n] \in L \cup {"tail"} /\ pv[nx[n]] = n BY DEF Linked
  <2>3. nx[n] # c /\ nx[n] # "tail" BY <1>1, <1>2, <1>13, <2>2
  <2>4. /\ age[n] < age[nx[n]]
        /\ \A m \in L : age[m] <= age[n] \/ age[m] >= age[nx[n]] BY DEF Chronological
  <2>5. late[n] = age[n] /\ late[nx[n]] = age[nx[n]] BY <1>13, <2>2, <2>3
  <2>6. \A m \in L \ {c} : late[m] = age[m] OBVIOUS
  <2>7. late[c] >= late[nx[n]] BY <1>5, <1>6, <2>2, <2>3
  <2> QED BY <2>1, <2>4, <2>5, <2>6, <2>7
<1> QED BY <1>10, <1>11, <1>12, <1>13

(* HeadPopped takes the oldest node out. *)
LEMMA HeadPoppedLinks ==
    ASSUME NEW nx \in Links, NEW pv \in Links, NEW L \in SUBSET Addr, NEW age \in [Node -> Nat],
           Linked(nx, pv, L), Chronological(nx, L, age), nx["head"] \in L,
           \A m, n \in L : age[m] = age[n] => m = n,
           NEW nx2, NEW pv2, nx2 = HeadPopped(nx, pv)[1], pv2 = HeadPopped(nx, pv)[2]
    PROVE  /\ nx2 \in Links /\ pv2 \in Links /\ Linked(nx2, pv2, L \ {nx["head"]})
           /\ Chronological(nx2, L \ {nx["head"]}, age)
<1> DEFINE h == nx["head"]
           k == nx[h]
<1>0. \A n \in L \cup {"head", "tail"} : n \in Node /\ age[n] \in Nat
  BY Dummies
<1>1. /\ h \in Node /\ h # "head" /\ h # "tail" /\ pv[h] = "head"
      /\ k \in L \cup {"tail"} /\ pv[k] = h /\ k \in Node /\ k # "head"
      /\ age["head"] < age[h] /\ age[h] < age[k]
  BY <1>0, Dummies DEF Linked, Chronological
<1>2. k # h
  BY <1>0, <1>1
<1>3. nx2 = [x \in Node |-> IF x = "head" THEN k ELSE nx[x]]
  BY <1>1, Dummies DEF HeadPopped, Links
<1>4. pv2 = [x \in Node |-> IF x = k THEN "head" ELSE pv[x]]
  BY <1>1, <1>2, Dummies DEF HeadPopped, Links
<1>5. nx2 \in Links /\ pv2 \in Links
  BY <1>1, <1>3, <1>4, Dummies DEF Links
<1>6. ASSUME NEW n \in (L \ {h}) \cup {"head"}
      PROVE  nx2[n] \in (L \ {h}) \cup {"tail"} /\ pv2[nx2[n]] = n
  <2>1. CASE n = "head" BY <1>1, <1>2, <1>3, <1>4, <2>1, Dummies
  <2>2. CASE n # "head"
    <3>1. nx2[n] = nx[n] BY <1>0, <1>3, <2>2
    <3>2. nx[n] \in L \cup {"tail"} /\ pv[nx[n]] = n BY <2>2 DEF Linked
    <3>3. nx[n] # h /\ nx[n] # k BY <1>1, <2>2, <3>2
    <3>4. nx[n] \in Node BY <1>0, <3>2
    <3> QED BY <1>4, <3>1, <3>2, <3>3, <3>4
  <2> QED BY <2>1, <2>2
<1>7. ASSUME NEW n \in (L \ {h}) \cup {"tail"}
      PROVE  pv2[n] \in (L \ {h}) \cup {"head"} /\ nx2[pv2[n]] = n
  <2>1. CASE n = k BY <1>1, <1>2, <1>3, <1>4, <2>1, Dummies
  <2>2. CASE n # k
    <3>1. pv2[n] = pv[n] BY <1>0, <1>4, <2>2
    <3>2. pv[n] \in L \cup {"head"} /\ nx[pv[n]] = n BY DEF Linked
    <3>3. pv[n] # h /\ pv[n] # "head" BY <1>1, <2>2, <3>2
    <3>4. pv[n] \in Node BY <1>0, <3>2
    <3> QED BY <1>3, <3>1, <3>2, <3>3, <3>4
  <2> QED BY <2>1, <2>2
<1>8. nx2["tail"] = "NULL" /\ pv2["head"] = "NULL"
  BY <1>0, <1>1, <1>3, <1>4, Dummies DEF Linked
<1>9. ASSUME NEW n \in (L \ {h}) \cup {"head"}
      PROVE  /\ age[n] < age[nx2[n]]
             /\ \A m \in L \ {h} : age[m] <= age[n] \/ age[m] >= age[nx2[n]]
  <2>1. CASE n = "head"
    <3>1. nx2[n] = k BY <1>0, <1>3, <2>1
    <3>2. \A m \in L : age[m] <= age["head"] \/ age[m] >= age[h] BY DEF Chronological
    <3>3. \A m \in L : age[m] <= age[h] \/ age[m] >= age[k] BY DEF Chronological
    <3>4. \A m \in L \ {h} : age[m] # age[h] BY <1>1
    <3> QED BY <1>0, <1>1, <2>1, <3>1, <3>2, <3>3, <3>4
  <2>2. CASE n # "head"
    <3>1. nx2[n] = nx[n] BY <1>0, <1>3, <2>2
    <3> QED BY <2>2, <3>1 DEF Chronological
  <2> QED BY <2>1, <2>2
<1>10. Chronological(nx2, L \ {h}, age)
  BY <1>9 DEF Chronological
<1> QED BY <1>5, <1>6, <1>7, <1>8, <1>10 DEF Linked
-----------------------------------------------------------------------------
(* One set.                                                                *)

(* What the invariant says of a set. *)
SetOK(nx, pv, tg, L, ln, use, time, lim) ==
    /\ nx \in Links /\ pv \in Links /\ tg \in [Node -> Tags] /\ L \in SUBSET Addr
    /\ use \in [Tags -> Nat] /\ time \in Nat /\ lim \in Nat
    /\ Linked(nx, pv, L) /\ Chronological(nx, L, Ages(tg, use, time))
    /\ MostRecent(tg, L, use, ln = lim)
    /\ IsFiniteSet(L) /\ ln = Cardinality(L) /\ ln <= lim
    /\ UsesDiffer(use, time)

(* Ages of the nodes of a set. *)
LEMMA AgesAre ==
    ASSUME NEW tg \in [Node -> Tags], NEW use \in [Tags -> Nat], NEW time \in Nat,
           NEW L \in SUBSET Addr, NEW full, UsesDiffer(use, time),
           MostRecent(tg, L, use, full), NEW age, age = Ages(tg, use, time)
    PROVE  /\ age \in [Node -> Nat] /\ age["head"] = 0 /\ age["tail"] = time + 1
           /\ \A n \in L : age[n] = use[tg[n]] /\ age[n] > 0 /\ age[n] < age["tail"]
           /\ \A m, n \in L : age[m] = age[n] => m = n
<1>1. age = [n \in Node |-> IF n = "head" THEN 0 ELSE IF n = "tail" THEN time + 1 ELSE use[tg[n]]]
  BY Dummies DEF Ages
<1>2. age \in [Node -> Nat] /\ age["head"] = 0 /\ age["tail"] = time + 1
  BY <1>1, Dummies
<1>3. \A n \in L : n \in Node /\ n # "head" /\ n # "tail" /\ tg[n] \in Tags
  BY Dummies
<1>4. \A n \in L : age[n] = use[tg[n]]
  BY <1>1, <1>3
<1>5. \A n \in L : age[n] > 0 /\ age[n] < age["tail"]
  BY <1>2, <1>3, <1>4 DEF UsesDiffer, MostRecent
<1>6. \A m, n \in L : age[m] = age[n] => m = n
  BY <1>3, <1>4, <1>5 DEF UsesDiffer, MostRecent
<1> QED BY <1>2, <1>4, <1>5, <1>6

(* A search starts at the oldest line. *)
LEMMA SetStart ==
    ASSUME NEW nx, NEW pv, NEW tg, NEW L, NEW ln, NEW use, NEW time, NEW lim,
           SetOK(nx, pv, tg, L, ln, use, time, lim),
           NEW age, age = Ages(tg, use, time)
    PROVE  /\ nx["head"] \in L \/ (nx["head"] = "tail" /\ L = {})
           /\ \A n \in L : age[n] >= age[nx["head"]]
<1>1. /\ age \in [Node -> Nat] /\ age["head"] = 0 /\ age["tail"] = time + 1
      /\ \A n \in L : age[n] > 0 /\ age[n] < age["tail"]
  BY AgesAre DEF SetOK
<1> QED BY <1>1, ListStart DEF SetOK

(* An access of another set. *)
LEMMA SetIdle ==
    ASSUME NEW nx, NEW pv, NEW tg, NEW L, NEW ln, NEW use, NEW time, NEW lim,
           SetOK(nx, pv, tg, L, ln, use, time, lim)
    PROVE  SetOK(nx, pv, tg, L, ln, use, time + 1, lim)
<1>1. PICK age : age = Ages(tg, use, time)
  OBVIOUS
<1>2. PICK late : late = Ages(tg, use, time + 1)
  OBVIOUS
<1>3. UsesDiffer(use, time + 1) /\ time + 1 \in Nat
  BY DEF SetOK, UsesDiffer
<1>4. /\ age \in [Node -> Nat] /\ age["head"] = 0 /\ age["tail"] = time + 1
      /\ \A n \in L : age[n] = use[tg[n]] /\ age[n] < age["tail"]
  BY <1>1, AgesAre DEF SetOK
<1>5. /\ late \in [Node -> Nat] /\ late["head"] = 0 /\ late["tail"] = time + 1 + 1
      /\ \A n \in L : late[n] = use[tg[n]]
  BY <1>2, <1>3, AgesAre DEF SetOK
<1>6. time \in Nat
  BY DEF SetOK
<1>7. late["tail"] >= age["tail"]
  BY <1>4, <1>5, <1>6
<1>8. Chronological(nx, L, late)
  BY <1>1, <1>4, <1>5, <1>7, TailLater DEF SetOK
<1> QED BY <1>2, <1>3, <1>8 DEF SetOK

(* A hit. *)
LEMMA SetHit ==
    ASSUME NEW nx, NEW pv, NEW tg, NEW L, NEW ln, NEW use, NEW time, NEW lim,
           SetOK(nx, pv, tg, L, ln, use, time, lim),
           NEW c \in L, NEW use2, use2 = [use EXCEPT ![tg[c]] = time + 1],
           NEW nx2, NEW pv2, nx2 = MovedToTail(nx, pv, c)[1], pv2 = MovedToTail(nx, pv, c)[2]
    PROVE  SetOK(nx2, pv2, tg, L, ln, use2, time + 1, lim)
<1>1. PICK age : age = Ages(tg, use, time)
  OBVIOUS
<1>2. PICK late : late = Ages(tg, use2, time + 1)
  OBVIOUS
<1>3. /\ nx \in Links /\ pv \in Links /\ L \in SUBSET Addr /\ Linked(nx, pv, L)
      /\ Chronological(nx, L, age) /\ time \in Nat /\ time + 1 \in Nat /\ tg \in [Node -> Tags] /\ use \in [Tags -> Nat]
      /\ \A m, n \in L : tg[m] = tg[n] => m = n
      /\ \A n \in L : use[tg[n]] > 0
  BY <1>1 DEF SetOK, MostRecent
<1>4. /\ age \in [Node -> Nat] /\ age["head"] = 0 /\ age["tail"] = time + 1
      /\ \A n \in L : age[n] = use[tg[n]] /\ age[n] < age["tail"]
      /\ \A m, n \in L : age[m] = age[n] => m = n
  BY <1>1, <1>3, AgesAre DEF SetOK
<1>5. \A n \in L : n \in Node /\ tg[n] \in Tags
  BY <1>3, Dummies
<1>6. use2 \in [Tags -> Nat] /\ \A t \in Tags : use2[t] = IF t = tg[c] THEN time + 1 ELSE use[t]
  BY <1>3, <1>5
<1>7. UsesDiffer(use2, time + 1)
  BY <1>3, <1>6 DEF SetOK, UsesDiffer
<1>8. MostRecent(tg, L, use2, ln = lim)
  <2>1. \A n \in L : use2[tg[n]] >= use[tg[n]]
    BY <1>3, <1>5, <1>6 DEF SetOK, UsesDiffer
  <2>2. ASSUME NEW t \in Tags, use2[t] > 0, \A n \in L : tg[n] # t
        PROVE  ln = lim /\ \A n \in L : use2[t] < use2[tg[n]]
    <3>1. use2[t] = use[t] BY <1>6, <2>2
    <3>2. ln = lim /\ \A n \in L : use[t] < use[tg[n]] BY <2>2, <3>1 DEF SetOK, MostRecent
    <3> QED BY <1>3, <1>5, <1>6, <2>1, <3>1, <3>2
  <2>3. \A n \in L : use2[tg[n]] > 0 BY <1>3, <1>5, <1>6
  <2> QED BY <1>3, <2>2, <2>3 DEF MostRecent
<1>9. /\ late \in [Node -> Nat] /\ late["head"] = 0 /\ late["tail"] = time + 1 + 1
      /\ \A n \in L : late[n] = use2[tg[n]]
  <2>1. late = [n \in Node |-> IF n = "head" THEN 0 ELSE IF n = "tail" THEN time + 1 + 1
                              ELSE use2[tg[n]]]
    BY <1>2, Dummies DEF Ages
  <2>2. \A n \in L : n # "head" /\ n # "tail" BY <1>3, Dummies
  <2> QED BY <1>3, <1>5, <1>6, <2>1, <2>2, Dummies
<1>10. /\ late[c] = age["tail"] /\ late["tail"] > late[c] /\ age["head"] < age["tail"]
       /\ \A n \in (L \ {c}) \cup {"head"} : late[n] = age[n]
  BY <1>3, <1>4, <1>5, <1>6, <1>9
<1>11. Chronological(nx2, L, late)
  BY <1>3, <1>4, <1>9, <1>10, MovedToTailOrder
<1>12. nx[c] # c
  BY <1>3, <1>4, <1>5 DEF Chronological
<1>13. nx2 \in Links /\ pv2 \in Links /\ Linked(nx2, pv2, L)
  BY <1>3, <1>12, MovedToTailLinks
<1> QED BY <1>2, <1>3, <1>6, <1>7, <1>8, <1>11, <1>13 DEF SetOK
(* Node c becomes the line of block x. *)
NewLine(nx, pv, tg, L, use, time, x, c, nx2, pv2, tg2, use2) ==
    /\ x \in Tags /\ \A n \in L : tg[n] # x
    /\ c \in Addr \ L
    /\ nx2 = Appended(nx, pv, c)[1] /\ pv2 = Appended(nx, pv, c)[2]
    /\ tg2 = [tg EXCEPT ![c] = x] /\ use2 = [use EXCEPT ![x] = time + 1]

(* The list that has grown: M are its nodes. *)
Grown(nx, pv, tg, M, use, time, age) ==
    /\ nx \in Links /\ pv \in Links /\ tg \in [Node -> Tags] /\ use \in [Tags -> Nat]
    /\ Linked(nx, pv, M) /\ Chronological(nx, M, age)
    /\ UsesDiffer(use, time)
    /\ age \in [Node -> Nat] /\ age["head"] = 0
    /\ \A n \in M : age[n] = use[tg[n]] /\ age[n] > 0
    /\ \A m, n \in M : age[m] = age[n] => m = n
    /\ \A m, n \in M : tg[m] = tg[n] => m = n

(* A new line is appended: the list, before the set is cut back. *)
LEMMA SetGrown ==
    ASSUME NEW nx, NEW pv, NEW tg, NEW L, NEW ln, NEW use, NEW time, NEW lim,
           SetOK(nx, pv, tg, L, ln, use, time, lim),
           NEW x, NEW c, NEW nx2, NEW pv2, NEW tg2, NEW use2,
           NewLine(nx, pv, tg, L, use, time, x, c, nx2, pv2, tg2, use2)
    PROVE  Grown(nx2, pv2, tg2, L \cup {c}, use2, time + 1, Ages(tg2, use2, time + 1))
<1>a. PICK late : late = Ages(tg2, use2, time + 1)
  OBVIOUS
<1>0. /\ x \in Tags /\ \A n \in L : tg[n] # x
      /\ c \in Addr \ L
      /\ nx2 = Appended(nx, pv, c)[1] /\ pv2 = Appended(nx, pv, c)[2]
      /\ tg2 = [tg EXCEPT ![c] = x] /\ use2 = [use EXCEPT ![x] = time + 1]
  BY DEF NewLine
<1>1. PICK age : age = Ages(tg, use, time)
  OBVIOUS
<1>2. /\ nx \in Links /\ pv \in Links /\ L \in SUBSET Addr /\ Linked(nx, pv, L)
      /\ Chronological(nx, L, age) /\ time \in Nat /\ time + 1 \in Nat
      /\ tg \in [Node -> Tags] /\ use \in [Tags -> Nat]
      /\ UsesDiffer(use, time) /\ MostRecent(tg, L, use, ln = lim)
  BY <1>1 DEF SetOK
<1>3. /\ age \in [Node -> Nat] /\ age["head"] = 0 /\ age["tail"] = time + 1
      /\ \A n \in L : age[n] = use[tg[n]] /\ age[n] < age["tail"]
  BY <1>1, <1>2, AgesAre
<1>4. \A n \in L \cup {c} : n \in Node /\ n # "head" /\ n # "tail"
  BY <1>0, <1>2, Dummies
<1>5. /\ tg2 \in [Node -> Tags] /\ tg2[c] = x /\ \A n \in L : tg2[n] = tg[n]
      /\ use2 \in [Tags -> Nat] /\ use2[x] = time + 1 /\ \A t \in Tags : t # x => use2[t] = use[t]
  BY <1>0, <1>2, <1>4
<1>6. UsesDiffer(use2, time + 1)
  BY <1>0, <1>2, <1>5 DEF UsesDiffer
<1>7. L \cup {c} \in SUBSET Addr
  BY <1>0, <1>2
<1>8. \A m, n \in L \cup {c} : tg2[m] = tg2[n] => m = n
  BY <1>0, <1>2, <1>5 DEF MostRecent
<1>9. \A n \in L : use2[tg2[n]] = use[tg[n]] /\ use2[tg2[n]] > 0
  BY <1>0, <1>2, <1>4, <1>5 DEF MostRecent
<1>10. \A n \in L \cup {c} : use2[tg2[n]] > 0
  BY <1>0, <1>2, <1>5, <1>9
<1>12. late = [n \in Node |-> IF n = "head" THEN 0 ELSE IF n = "tail" THEN time + 1 + 1
                              ELSE use2[tg2[n]]]
  BY <1>a, Dummies DEF Ages
<1>13. /\ late \in [Node -> Nat] /\ late["head"] = 0 /\ late["tail"] = time + 1 + 1
       /\ \A n \in L \cup {c} : late[n] = use2[tg2[n]]
  BY <1>0, <1>2, <1>4, <1>5, <1>12, Dummies
<1>14. /\ late[c] = age["tail"] /\ late["tail"] > late[c] /\ age["head"] < age["tail"]
       /\ \A n \in L \cup {"head"} : late[n] = age[n]
  BY <1>0, <1>2, <1>3, <1>5, <1>9, <1>13
<1>15. Chronological(nx2, L \cup {c}, late)
  BY <1>0, <1>2, <1>3, <1>13, <1>14, AppendedOrder
<1>16. nx2 \in Links /\ pv2 \in Links /\ Linked(nx2, pv2, L \cup {c})
  BY <1>0, <1>2, AppendedLinks
<1>17. \A m, n \in L \cup {c} : late[m] = late[n] => m = n
  <2>1. \A n \in L \cup {c} : tg2[n] \in Tags BY <1>0, <1>4, <1>5
  <2> QED BY <1>0, <1>6, <1>8, <1>10, <1>13, <2>1 DEF UsesDiffer
<1> QED BY <1>a, <1>5, <1>6, <1>8, <1>10, <1>13, <1>15, <1>16, <1>17 DEF Grown

(* A miss that only appends. *)
LEMMA SetAppend ==
    ASSUME NEW nx, NEW pv, NEW tg, NEW L, NEW ln, NEW use, NEW time, NEW lim,
           SetOK(nx, pv, tg, L, ln, use, time, lim), ln < lim,
           NEW x, NEW c, NEW nx2, NEW pv2, NEW tg2, NEW use2,
           NewLine(nx, pv, tg, L, use, time, x, c, nx2, pv2, tg2, use2)
    PROVE  SetOK(nx2, pv2, tg2, L \cup {c}, ln + 1, use2, time + 1, lim)
<1>0. /\ x \in Tags /\ c \in Addr \ L /\ \A n \in L : tg[n] # x
      /\ tg2 = [tg EXCEPT ![c] = x] /\ use2 = [use EXCEPT ![x] = time + 1]
  BY DEF NewLine
<1>1. PICK late : late = Ages(tg2, use2, time + 1)
  OBVIOUS
<1>c. Grown(nx2, pv2, tg2, L \cup {c}, use2, time + 1, late)
  BY <1>1, SetGrown
<1>2. /\ nx2 \in Links /\ pv2 \in Links /\ tg2 \in [Node -> Tags] /\ use2 \in [Tags -> Nat]
      /\ Linked(nx2, pv2, L \cup {c}) /\ Chronological(nx2, L \cup {c}, late)
      /\ UsesDiffer(use2, time + 1)
      /\ \A n \in L \cup {c} : late[n] = use2[tg2[n]] /\ late[n] > 0
      /\ \A m, n \in L \cup {c} : tg2[m] = tg2[n] => m = n
  BY <1>c DEF Grown
<1>3. /\ L \in SUBSET Addr /\ time \in Nat /\ lim \in Nat /\ IsFiniteSet(L) /\ ln = Cardinality(L)
      /\ tg \in [Node -> Tags] /\ use \in [Tags -> Nat] /\ MostRecent(tg, L, use, ln = lim)
  BY DEF SetOK
<1>4. IsFiniteSet(L \cup {c}) /\ Cardinality(L \cup {c}) = ln + 1 /\ ln \in Nat
  BY <1>0, <1>3, FS_AddElement, FS_CardinalityType
<1>5. ASSUME NEW t \in Tags, use2[t] > 0, \A n \in L \cup {c} : tg2[n] # t
      PROVE  FALSE
  <2>1. t # x /\ \A n \in L : tg[n] # t BY <1>0, <1>3, <1>5, Dummies
  <2>2. use[t] > 0 BY <1>0, <1>3, <1>5, <2>1
  <2>3. ln = lim BY <1>0, <1>3, <2>1, <2>2 DEF MostRecent
  <2> QED BY <1>0, <1>3, <1>4, <2>3
<1>6. \A n \in L \cup {c} : use2[tg2[n]] > 0
  BY <1>2
<1>7. MostRecent(tg2, L \cup {c}, use2, ln + 1 = lim)
  BY <1>2, <1>5, <1>6 DEF MostRecent
<1>8. L \cup {c} \in SUBSET Addr /\ time + 1 \in Nat /\ ln + 1 <= lim
  BY <1>0, <1>3, <1>4
<1> QED BY <1>1, <1>2, <1>3, <1>4, <1>7, <1>8 DEF SetOK

(* A miss that evicts. *)
LEMMA SetEvict ==
    ASSUME NEW nx, NEW pv, NEW tg, NEW L, NEW ln, NEW use, NEW time, NEW lim,
           SetOK(nx, pv, tg, L, ln, use, time, lim), ln >= lim,
           NEW x, NEW c, NEW nx2, NEW pv2, NEW tg2, NEW use2,
           NewLine(nx, pv, tg, L, use, time, x, c, nx2, pv2, tg2, use2),
           NEW nx3, NEW pv3, nx3 = HeadPopped(nx2, pv2)[1], pv3 = HeadPopped(nx2, pv2)[2]
    PROVE  SetOK(nx3, pv3, tg2, (L \cup {c}) \ {nx2["head"]}, ln, use2, time + 1, lim)
<1>0. /\ x \in Tags /\ c \in Addr \ L /\ \A n \in L : tg[n] # x
      /\ tg2 = [tg EXCEPT ![c] = x] /\ use2 = [use EXCEPT ![x] = time + 1]
  BY DEF NewLine
<1>1. PICK late : late = Ages(tg2, use2, time + 1)
  OBVIOUS
<1>a. PICK M : M = L \cup {c}
  OBVIOUS
<1>b. PICK h : h = nx2["head"]
  OBVIOUS
<1>c. Grown(nx2, pv2, tg2, M, use2, time + 1, late)
  BY <1>1, <1>a, SetGrown
<1>2. /\ nx2 \in Links /\ pv2 \in Links /\ tg2 \in [Node -> Tags] /\ use2 \in [Tags -> Nat]
      /\ Linked(nx2, pv2, M) /\ Chronological(nx2, M, late)
      /\ UsesDiffer(use2, time + 1)
      /\ late \in [Node -> Nat] /\ late["head"] = 0
      /\ \A n \in M : late[n] = use2[tg2[n]] /\ late[n] > 0
      /\ \A m, n \in M : late[m] = late[n] => m = n
      /\ \A m, n \in M : tg2[m] = tg2[n] => m = n
  BY <1>c DEF Grown
<1>3. /\ L \in SUBSET Addr /\ time \in Nat /\ time + 1 \in Nat /\ lim \in Nat
      /\ IsFiniteSet(L) /\ ln = Cardinality(L) /\ ln <= lim
      /\ tg \in [Node -> Tags] /\ use \in [Tags -> Nat] /\ MostRecent(tg, L, use, ln = lim)
      /\ UsesDiffer(use, time)
  BY DEF SetOK
<1>4. IsFiniteSet(M) /\ Cardinality(M) = ln + 1 /\ ln \in Nat /\ ln = lim
  BY <1>0, <1>a, <1>3, FS_AddElement, FS_CardinalityType
<1>5. M \in SUBSET Addr /\ \A n \in M : n \in Node /\ tg2[n] \in Tags
  BY <1>0, <1>a, <1>2, <1>3, Dummies
<1>6. late["tail"] = time + 1 + 1 /\ \A n \in M : late[n] < late["tail"]
  <2>1. late["tail"] = time + 1 + 1 BY <1>1, Dummies DEF Ages
  <2> QED BY <1>0, <1>a, <1>2, <1>3, <1>5, <2>1 DEF UsesDiffer
<1>7. h \in M /\ \A n \in M : late[n] >= late[h]
  <2>1. Linked(nx2, pv2, M) /\ Chronological(nx2, M, late) BY <1>2
  <2>2. \A n \in M : late[n] > 0 /\ late[n] < late["tail"] BY <1>2, <1>6
  <2>3. nx2 \in Links /\ pv2 \in Links /\ late \in [Node -> Nat] /\ late["head"] = 0 BY <1>2
  <2>4. h \in M \/ (h = "tail" /\ M = {}) BY <1>5, <1>b, <2>1, <2>2, <2>3, ListStart
  <2>5. \A n \in M : late[n] >= late[h] BY <1>5, <1>b, <2>1, <2>2, <2>3, ListStart
  <2> QED BY <1>a, <2>4, <2>5
<1>8. /\ nx3 \in Links /\ pv3 \in Links /\ Linked(nx3, pv3, M \ {h})
      /\ Chronological(nx3, M \ {h}, late)
  <2>1. Linked(nx2, pv2, M) /\ Chronological(nx2, M, late) BY <1>2
  <2>2. \A m, n \in M : late[m] = late[n] => m = n BY <1>2
  <2>3. nx2 \in Links /\ pv2 \in Links /\ late \in [Node -> Nat] BY <1>2
  <2>4. nx3 = HeadPopped(nx2, pv2)[1] /\ pv3 = HeadPopped(nx2, pv2)[2] /\ nx2["head"] \in M
    BY <1>7, <1>b
  <2> QED BY <1>5, <1>b, <2>1, <2>2, <2>3, <2>4, HeadPoppedLinks
<1>9. IsFiniteSet(M \ {h}) /\ Cardinality(M \ {h}) = ln
  BY <1>4, <1>7, FS_RemoveElement
<1>10. ASSUME NEW t \in Tags, use2[t] > 0, \A n \in M \ {h} : tg2[n] # t
       PROVE  \A n \in M \ {h} : use2[t] < use2[tg2[n]]
  <2>1. CASE t = tg2[h]
    <3>1. \A n \in M \ {h} : late[n] # late[h] BY <1>2, <1>7
    <3>2. \A n \in M : late[n] \in Nat BY <1>2, <1>5
    <3> QED BY <1>2, <1>7, <2>1, <3>1, <3>2
  <2>2. CASE t # tg2[h]
    <3>1. \A n \in M : tg2[n] # t BY <1>10, <2>2
    <3>2. t # x /\ \A n \in L : tg[n] # t /\ tg2[n] = tg[n] BY <1>0, <1>a, <1>3, <3>1, Dummies
    <3>3. use2[t] = use[t] /\ use2[x] = time + 1 BY <1>0, <1>a, <1>3, <3>2
    <3>4. \A n \in L : use[t] < use[tg[n]] BY <1>0, <1>a, <1>3, <1>10, <3>2, <3>3 DEF MostRecent
    <3>5. \A n \in L : use2[tg2[n]] = use[tg[n]] BY <1>0, <1>a, <1>3, <1>5, <3>2
    <3>6. use2[t] < use2[tg2[c]] BY <1>0, <1>a, <1>3, <3>3, Dummies DEF UsesDiffer
    <3>7. \A n \in M : n = c \/ n \in L BY <1>a
    <3> QED BY <3>3, <3>4, <3>5, <3>6, <3>7
  <2> QED BY <2>1, <2>2
<1>11. MostRecent(tg2, M \ {h}, use2, ln = lim)
  <2>1. \A n \in M \ {h} : use2[tg2[n]] > 0 BY <1>2
  <2> QED BY <1>2, <1>4, <1>10, <2>1 DEF MostRecent
<1>12. M \ {h} \in SUBSET Addr
  BY <1>5
<1> QED BY <1>a, <1>b, <1>1, <1>2, <1>3, <1>4, <1>8, <1>9, <1>11, <1>12 DEF SetOK
-----------------------------------------------------------------------------
(* What the counters rely on.                                              *)

(* A block with a line is in the cache of LRU. *)
LEMMA HitIsCached ==
    ASSUME NEW nx, NEW pv, NEW tg, NEW L, NEW ln, NEW use, NEW time, NEW lim,
           SetOK(nx, pv, tg, L, ln, use, time, lim), NEW c \in L,
           NEW U \in SUBSET Tags, \A u \in Tags : u \in U <=> use[u] > use[tg[c]]
    PROVE  use[tg[c]] > 0 /\ Cardinality(U) < lim
<1>1. /\ L \in SUBSET Addr /\ IsFiniteSet(L) /\ ln = Cardinality(L) /\ ln <= lim /\ lim \in Nat
      /\ tg \in [Node -> Tags] /\ use \in [Tags -> Nat] /\ MostRecent(tg, L, use, ln = lim)
  BY DEF SetOK
<1>2. use[tg[c]] > 0 /\ tg[c] \in Tags
  BY <1>1, Dummies DEF MostRecent
<1> DEFINE f == [u \in U |-> CHOOSE n \in L : tg[n] = u]
<1>3. ASSUME NEW u \in U PROVE f[u] \in L \ {c} /\ tg[f[u]] = u
  <2>1. u \in Tags /\ use[u] > use[tg[c]] /\ use[u] > 0 BY <1>1, <1>2
  <2>2. ASSUME \A n \in L : tg[n] # u PROVE FALSE
    <3>1. use[u] < use[tg[c]] BY <1>1, <2>1, <2>2 DEF MostRecent
    <3> QED BY <1>1, <1>2, <2>1, <3>1
  <2>3. f[u] \in L /\ tg[f[u]] = u BY <2>2
  <2>4. f[u] # c BY <1>1, <1>2, <2>1, <2>3
  <2> QED BY <2>3, <2>4
<1>4. f \in Injection(U, L \ {c})
  <2>1. f \in [U -> L \ {c}] BY <1>3
  <2>2. \A a, b \in U : f[a] = f[b] => a = b BY <1>3
  <2> QED BY <2>1, <2>2 DEF Injection, IsInjective
<1>5. IsFiniteSet(L \ {c}) /\ Cardinality(L \ {c}) = ln - 1 /\ ln \in Nat
  BY <1>1, FS_RemoveElement, FS_CardinalityType
<1>6. Cardinality(U) <= ln - 1 /\ IsFiniteSet(U)
  BY <1>4, <1>5, FS_Injection
<1>7. Cardinality(U) \in Nat
  BY <1>6, FS_CardinalityType
<1> QED BY <1>1, <1>2, <1>5, <1>6, <1>7

(* The tags of the lines, as an injection. *)
LEMMA TagsInject ==
    ASSUME NEW nx, NEW pv, NEW tg, NEW L, NEW ln, NEW use, NEW time, NEW lim,
           SetOK(nx, pv, tg, L, ln, use, time, lim),
           NEW U \in SUBSET Tags, \A n \in L : tg[n] \in U
    PROVE  Cardinality(U) >= ln /\ Cardinality(U) \in Nat /\ ln \in Nat
<1>1. /\ L \in SUBSET Addr /\ IsFiniteSet(L) /\ ln = Cardinality(L)
      /\ tg \in [Node -> Tags] /\ MostRecent(tg, L, use, ln = lim)
  BY DEF SetOK
<1> DEFINE f == [n \in L |-> tg[n]]
<1>2. f \in Injection(L, U)
  <2>1. f \in [L -> U] OBVIOUS
  <2>2. \A a, b \in L : f[a] = f[b] => a = b BY <1>1 DEF MostRecent
  <2> QED BY <2>1, <2>2 DEF Injection, IsInjective
<1>3. IsFiniteSet(U)
  BY TagsAssumption, FS_Subset
<1>4. Cardinality(L) <= Cardinality(U)
  BY <1>2, <1>3, FS_Injection
<1> QED BY <1>1, <1>3, <1>4, FS_CardinalityType

(* A block without a line is not. *)
LEMMA MissIsNotCached ==
    ASSUME NEW nx, NEW pv, NEW tg, NEW L, NEW ln, NEW use, NEW time, NEW lim,
           SetOK(nx, pv, tg, L, ln, use, time, lim),
           NEW x \in Tags, \A n \in L : tg[n] # x,
           NEW U \in SUBSET Tags, \A u \in Tags : u \in U <=> use[u] > use[x]
    PROVE  ~(use[x] > 0 /\ Cardinality(U) < lim)
<1> SUFFICES ASSUME use[x] > 0 PROVE ~(Cardinality(U) < lim)
  OBVIOUS
<1>1. /\ L \in SUBSET Addr /\ lim \in Nat
      /\ tg \in [Node -> Tags] /\ use \in [Tags -> Nat] /\ MostRecent(tg, L, use, ln = lim)
  BY DEF SetOK
<1>2. ln = lim /\ \A n \in L : use[x] < use[tg[n]]
  BY <1>1 DEF MostRecent
<1>3. \A n \in L : tg[n] \in U
  BY <1>1, <1>2, Dummies
<1>4. Cardinality(U) >= ln /\ Cardinality(U) \in Nat
  BY <1>3, TagsInject
<1> QED BY <1>1, <1>2, <1>4

(* A set is full when LRU says so. *)
LEMMA FullIsFull ==
    ASSUME NEW nx, NEW pv, NEW tg, NEW L, NEW ln, NEW use, NEW time, NEW lim,
           SetOK(nx, pv, tg, L, ln, use, time, lim),
           NEW U \in SUBSET Tags, \A u \in Tags : u \in U <=> use[u] > 0
    PROVE  Cardinality(U) >= lim <=> ln >= lim
<1>1. /\ L \in SUBSET Addr /\ lim \in Nat /\ IsFiniteSet(L) /\ ln = Cardinality(L) /\ ln <= lim
      /\ tg \in [Node -> Tags] /\ use \in [Tags -> Nat] /\ MostRecent(tg, L, use, ln = lim)
  BY DEF SetOK
<1>2. \A n \in L : tg[n] \in U
  BY <1>1, Dummies DEF MostRecent
<1>3. Cardinality(U) >= ln /\ Cardinality(U) \in Nat /\ ln \in Nat
  BY <1>2, TagsInject
<1>4. ASSUME ln < lim PROVE Cardinality(U) <= ln
  <2> DEFINE f == [u \in U |-> CHOOSE n \in L : tg[n] = u]
  <2>1. ASSUME NEW u \in U PROVE f[u] \in L /\ tg[f[u]] = u
    <3>1. \E n \in L : tg[n] = u BY <1>1, <1>3, <1>4 DEF MostRecent
    <3> QED BY <3>1
  <2>2. f \in [U -> L] BY <2>1
  <2>3. \A a, b \in U : f[a] = f[b] => a = b BY <2>1
  <2>4. f \in Injection(U, L) BY <2>2, <2>3 DEF Injection, IsInjective
  <2> QED BY <1>1, <2>4, FS_Injection
<1> QED BY <1>1, <1>3, <1>4

(* The search. *)
LEMMA SearchGoesOn ==
    ASSUME NEW nx, NEW pv, NEW tg, NEW L, NEW ln, NEW use, NEW time, NEW lim,
           SetOK(nx, pv, tg, L, ln, use, time, lim),
           NEW age, age = Ages(tg, use, time), NEW x, NEW c,
           c \in L \/ (c = "tail" /\ L = {}),
           \A n \in L : tg[n] = x => age[n] >= age[c],
           nx[c] # "NULL", nx[nx[c]] # "NULL", c \in L => tg[c] # x
    PROVE  nx[c] \in L /\ \A n \in L : tg[n] = x => age[n] >= age[nx[c]]
<1>1. /\ nx \in Links /\ L \in SUBSET Addr /\ Linked(nx, pv, L) /\ Chronological(nx, L, age)
      /\ tg \in [Node -> Tags] /\ use \in [Tags -> Nat] /\ time \in Nat
      /\ UsesDiffer(use, time) /\ MostRecent(tg, L, use, ln = lim)
  BY DEF SetOK
<1>2. /\ age \in [Node -> Nat]
      /\ \A m, n \in L : age[m] = age[n] => m = n
  BY <1>1, AgesAre
<1>3. c \in L /\ nx[c] \in L
  BY <1>1 DEF Linked
<1>4. \A m \in L : age[m] <= age[c] \/ age[m] >= age[nx[c]]
  BY <1>1, <1>3 DEF Chronological
<1>5. \A m \in L : age[m] \in Nat
  BY <1>1, <1>2, Dummies
<1>6. ASSUME NEW n \in L, tg[n] = x PROVE age[n] >= age[nx[c]]
  <2>1. age[n] >= age[c] /\ n # c BY <1>3, <1>6
  <2>2. age[n] # age[c] BY <1>2, <1>3, <2>1
  <2> QED BY <1>3, <1>4, <1>5, <2>1, <2>2
<1> QED BY <1>3, <1>6

(* The end of a search that fails. *)
LEMMA SearchFails ==
    ASSUME NEW nx, NEW pv, NEW tg, NEW L, NEW ln, NEW use, NEW time, NEW lim,
           SetOK(nx, pv, tg, L, ln, use, time, lim),
           NEW age, age = Ages(tg, use, time), NEW x, NEW c,
           c \in L \/ (c = "tail" /\ L = {}),
           \A n \in L : tg[n] = x => age[n] >= age[c],
           nx[c] = "NULL" \/ nx[nx[c]] = "NULL", c \in L => tg[c] # x
    PROVE  \A n \in L : tg[n] # x
<1>1. /\ nx \in Links /\ L \in SUBSET Addr /\ Linked(nx, pv, L) /\ Chronological(nx, L, age)
      /\ tg \in [Node -> Tags] /\ use \in [Tags -> Nat] /\ time \in Nat
      /\ UsesDiffer(use, time) /\ MostRecent(tg, L, use, ln = lim)
  BY DEF SetOK
<1>2. /\ age \in [Node -> Nat] /\ age["tail"] = time + 1
      /\ \A m, n \in L : age[m] = age[n] => m = n
      /\ \A n \in L : age[n] < age["tail"]
  BY <1>1, AgesAre
<1>3. SUFFICES ASSUME NEW n \in L, tg[n] = x, c \in L PROVE FALSE
  OBVIOUS
<1>4. \A m \in L \cup {"tail"} : m \in Node /\ m # "NULL" /\ age[m] \in Nat
  BY <1>1, <1>2, Dummies
<1>5. nx[c] = "tail"
  <2>1. nx[c] \in L \cup {"tail"} BY <1>1, <1>3 DEF Linked
  <2>2. nx[c] \in L => nx[nx[c]] \in L \cup {"tail"} BY <1>1 DEF Linked
  <2> QED BY <1>4, <2>1, <2>2
<1>6. \A m \in L : age[m] <= age[c] \/ age[m] >= age["tail"]
  BY <1>1, <1>3, <1>5 DEF Chronological
<1>7. age[n] >= age[c] /\ n # c
  BY <1>3
<1> QED BY <1>2, <1>3, <1>4, <1>6, <1>7
-----------------------------------------------------------------------------
(* The steps.                                                              *)

(* Every set is in order. *)
AllSetsOK == \A s \in Sets : SetOK(next[s], prev[s], tag[s], lines[s], len[s], lastUse[s], now, limit)

(* What the invariant says of the search. *)
SearchOK ==
    pc = "search" =>
        /\ passes \in 1..2
        /\ curr \in lines[set] \/ (curr = "tail" /\ lines[set] = {})
        /\ \A n \in lines[set] : tag[set][n] = input_t => Age(set)[n] >= Age(set)[curr]

(* The types of what is not in a set. *)
RestOK ==
    /\ limit \in Nat /\ pc \in {"entry", "search", "done"}
    /\ set \in Sets /\ input_t \in Tags /\ passes \in 0..2 /\ curr \in Node
    /\ next \in [Sets -> Links] /\ prev \in [Sets -> Links]
    /\ tag \in [Sets -> [Node -> Tags]]
    /\ lines \in [Sets -> SUBSET Addr] /\ len \in [Sets -> Nat]
    /\ hits \in Nat /\ misses \in Nat /\ evictions \in Nat /\ entries \in Nat
    /\ lastUse \in [Sets -> [Tags -> Nat]] /\ now \in Nat

(* The inductive invariant, rearranged. *)
LEMMA InductiveIs == CacheInductive <=> RestOK /\ AllSetsOK /\ SearchOK
<1>1. CacheInductive => RestOK /\ AllSetsOK /\ SearchOK
  <2> SUFFICES ASSUME CacheInductive PROVE RestOK /\ AllSetsOK /\ SearchOK
    OBVIOUS
  <2>1. RestOK BY DEF CacheInductive, CacheTypeOK, RestOK, Links
  <2>2. SearchOK BY DEF CacheInductive, CacheTypeOK, SearchMissesNothing, SearchOK
  <2>3. AllSetsOK
    BY <2>1 DEF CacheInductive, RestOK, AllSetsOK, SetOK, ListLinked, OldestFirst, Age,
                LinesAreRecent, LenCounts
  <2> QED BY <2>1, <2>2, <2>3
<1>2. RestOK /\ AllSetsOK /\ SearchOK => CacheInductive
  <2> SUFFICES ASSUME RestOK, AllSetsOK, SearchOK PROVE CacheInductive
    OBVIOUS
  <2>1. CacheTypeOK BY DEF RestOK, SearchOK, CacheTypeOK, Links
  <2>2. SearchMissesNothing BY DEF SearchOK, SearchMissesNothing
  <2>3. ListLinked /\ OldestFirst /\ LinesAreRecent /\ LenCounts
        /\ \A s \in Sets : UsesDiffer(lastUse[s], now)
    BY DEF AllSetsOK, SetOK, ListLinked, OldestFirst, Age, LinesAreRecent, LenCounts
  <2> QED BY <2>1, <2>2, <2>3 DEF CacheInductive
<1> QED BY <1>1, <1>2
(* After a call of TraverseList, and before the first, the search starts.  *)
LEMMA SearchStarts ==
    ASSUME AllSetsOK', set' \in Sets, curr' = next'[set']["head"],
           pc' = "search" => passes' \in 1..2
    PROVE  SearchOK'
<1>1. SetOK(next'[set'], prev'[set'], tag'[set'], lines'[set'], len'[set'], lastUse'[set'], now', limit')
  BY DEF AllSetsOK
<1>2. PICK age : age = Ages(tag'[set'], lastUse'[set'], now')
  OBVIOUS
<1>3. /\ curr' \in lines'[set'] \/ (curr' = "tail" /\ lines'[set'] = {})
      /\ \A n \in lines'[set'] : age[n] >= age[curr']
  BY <1>1, <1>2, SetStart
<1> QED BY <1>2, <1>3 DEF SearchOK, Age

(* What a hit changes. *)
LEMMA HitChanges ==
    ASSUME CacheInductive, Hit, Recorded
    PROVE  /\ curr \in lines[set] /\ tag[set][curr] = input_t
           /\ \E nx2, pv2, use2 :
                 /\ nx2 = MovedToTail(next[set], prev[set], curr)[1]
                 /\ pv2 = MovedToTail(next[set], prev[set], curr)[2]
                 /\ use2 = [lastUse[set] EXCEPT ![tag[set][curr]] = now + 1]
                 /\ SetOK(nx2, pv2, tag[set], lines[set], len[set], use2, now + 1, limit)
                 /\ next' = [next EXCEPT ![set] = nx2] /\ prev' = [prev EXCEPT ![set] = pv2]
                 /\ lastUse' = [lastUse EXCEPT ![set] = use2] /\ now' = now + 1
<1>1. RestOK /\ AllSetsOK /\ SearchOK
  BY InductiveIs
<1>2. curr \in lines[set] /\ tag[set][curr] = input_t
  BY <1>1, Dummies DEF Hit, Matches, v, SearchOK
<1>3. SetOK(next[set], prev[set], tag[set], lines[set], len[set], lastUse[set], now, limit)
  BY <1>1 DEF RestOK, AllSetsOK
<1>4. PICK nx2 : nx2 = MovedToTail(next[set], prev[set], curr)[1]
  OBVIOUS
<1>5. PICK pv2 : pv2 = MovedToTail(next[set], prev[set], curr)[2]
  OBVIOUS
<1>6. PICK use2 : use2 = [lastUse[set] EXCEPT ![tag[set][curr]] = now + 1]
  OBVIOUS
<1>7. SetOK(nx2, pv2, tag[set], lines[set], len[set], use2, now + 1, limit)
  BY <1>2, <1>3, <1>4, <1>5, <1>6, SetHit
<1>8. next' = [next EXCEPT ![set] = nx2] /\ prev' = [prev EXCEPT ![set] = pv2]
  BY <1>4, <1>5 DEF Hit, Link
<1>9. lastUse' = [lastUse EXCEPT ![set] = use2] /\ now' = now + 1
  BY <1>2, <1>6 DEF Recorded
<1> QED BY <1>2, <1>4, <1>5, <1>6, <1>7, <1>8, <1>9

(* A hit keeps the invariant. *)
LEMMA HitInductive ==
    ASSUME CacheInductive, Hit, Recorded
    PROVE  CacheInductive'
<1>1. RestOK /\ AllSetsOK /\ SearchOK
  BY InductiveIs
<1>2. PICK nx2, pv2, use2 :
         /\ SetOK(nx2, pv2, tag[set], lines[set], len[set], use2, now + 1, limit)
         /\ next' = [next EXCEPT ![set] = nx2] /\ prev' = [prev EXCEPT ![set] = pv2]
         /\ lastUse' = [lastUse EXCEPT ![set] = use2] /\ now' = now + 1
  BY HitChanges
<1>3. /\ set' = set /\ input_t' = input_t /\ tag' = tag /\ lines' = lines /\ len' = len
      /\ limit' = limit /\ entries' = entries
      /\ hits' \in Nat /\ misses' \in Nat /\ evictions' \in Nat
      /\ passes' \in 0..2 /\ pc' \in {"entry", "search"} /\ (pc' = "search" => passes' \in 1..2)
      /\ curr' = next'[set]["head"]
  BY <1>1 DEF Hit, NextPass, Count, RestOK, SearchOK
<1>4. AllSetsOK'
  <2> SUFFICES ASSUME NEW s \in Sets
               PROVE  SetOK(next'[s], prev'[s], tag'[s], lines'[s], len'[s], lastUse'[s], now', limit')
    BY DEF AllSetsOK
  <2>1. CASE s = set
    BY <1>1, <1>2, <1>3, <2>1 DEF RestOK
  <2>2. CASE s # set
    <3>1. next'[s] = next[s] /\ prev'[s] = prev[s] /\ lastUse'[s] = lastUse[s]
      BY <1>1, <1>2, <2>2 DEF RestOK
    <3>2. SetOK(next[s], prev[s], tag[s], lines[s], len[s], lastUse[s], now, limit)
      BY <1>1 DEF AllSetsOK
    <3>3. SetOK(next[s], prev[s], tag[s], lines[s], len[s], lastUse[s], now + 1, limit)
      BY <3>2, SetIdle
    <3> QED BY <1>2, <1>3, <3>1, <3>3
  <2> QED BY <2>1, <2>2
<1>5. SearchOK'
  BY <1>1, <1>3, <1>4, SearchStarts DEF RestOK
<1>6. RestOK'
  <2>1. nx2 \in Links /\ pv2 \in Links /\ use2 \in [Tags -> Nat]
    BY <1>2 DEF SetOK
  <2>2. curr' \in Node
    <3>1. nx2["head"] \in lines[set] \cup {"tail"} BY <1>2 DEF SetOK, Linked
    <3> QED BY <1>1, <1>2, <1>3, <3>1, Dummies DEF RestOK
  <2> QED BY <1>1, <1>2, <1>3, <2>1, <2>2 DEF RestOK
<1> QED BY <1>4, <1>5, <1>6, InductiveIs, PTL
(* What a miss changes: nx2 is the list that has grown, nx3 the new list.  *)
LEMMA MissChanges ==
    ASSUME CacheInductive, Miss, Recorded
    PROVE  /\ input_t \in Tags /\ \A n \in lines[set] : tag[set][n] # input_t
           /\ \E nx3, pv3, tg2, use2, L3, ln3 :
                 /\ SetOK(nx3, pv3, tg2, L3, ln3, use2, now + 1, limit)
                 /\ next' = [next EXCEPT ![set] = nx3] /\ prev' = [prev EXCEPT ![set] = pv3]
                 /\ tag' = [tag EXCEPT ![set] = tg2] /\ lines' = [lines EXCEPT ![set] = L3]
                 /\ len' = [len EXCEPT ![set] = ln3]
                 /\ lastUse' = [lastUse EXCEPT ![set] = use2] /\ now' = now + 1
           /\ hits' = hits /\ misses' = misses + 1
           /\ evictions' = IF len[set] >= limit THEN evictions + 1 ELSE evictions
<1>1. RestOK /\ AllSetsOK /\ SearchOK
  BY InductiveIs
<1>2. SetOK(next[set], prev[set], tag[set], lines[set], len[set], lastUse[set], now, limit)
  BY <1>1 DEF RestOK, AllSetsOK
<1>3. \A n \in lines[set] : tag[set][n] # input_t
  <2>1. PICK age : age = Ages(tag[set], lastUse[set], now)
    OBVIOUS
  <2>2. /\ curr \in lines[set] \/ (curr = "tail" /\ lines[set] = {})
        /\ \A n \in lines[set] : tag[set][n] = input_t => age[n] >= age[curr]
    BY <1>1, <2>1 DEF Miss, SearchOK, Age
  <2>3. next[set][curr] = "NULL" \/ next[set][next[set][curr]] = "NULL"
    BY DEF Miss, HasSuccessor
  <2>4. curr \in lines[set] => tag[set][curr] # input_t
    BY <1>1 DEF Miss, Matches, v, RestOK
  <2> QED BY <1>2, <2>1, <2>2, <2>3, <2>4, SearchFails
<1>4. PICK c \in Addr \ lines[set] :
         LET links == Appended(next[set], prev[set], c)
         IN  /\ tag' = [tag EXCEPT ![set] = [@ EXCEPT ![c] = input_t]]
             /\ \/ /\ len[set] < limit
                   /\ Link(set, links) /\ lines' = [lines EXCEPT ![set] = @ \cup {c}]
                   /\ len' = [len EXCEPT ![set] = @ + 1]
                   /\ Count(2)
                \/ /\ len[set] >= limit
                   /\ Link(set, HeadPopped(links[1], links[2]))
                   /\ lines' = [lines EXCEPT ![set] = (@ \cup {c}) \ {links[1]["head"]}]
                   /\ len' = len
                   /\ Count(3)
  BY DEF Miss
<1>5. PICK nx2 : nx2 = Appended(next[set], prev[set], c)[1]
  OBVIOUS
<1>6. PICK pv2 : pv2 = Appended(next[set], prev[set], c)[2]
  OBVIOUS
<1>7. PICK tg2 : tg2 = [tag[set] EXCEPT ![c] = input_t]
  OBVIOUS
<1>8. PICK use2 : use2 = [lastUse[set] EXCEPT ![input_t] = now + 1]
  OBVIOUS
<1>9. /\ tag' = [tag EXCEPT ![set] = tg2] /\ lastUse' = [lastUse EXCEPT ![set] = use2]
      /\ now' = now + 1 /\ input_t \in Tags
  BY <1>1, <1>4, <1>7, <1>8 DEF Recorded, RestOK
<1>10. NewLine(next[set], prev[set], tag[set], lines[set], lastUse[set], now,
               input_t, c, nx2, pv2, tg2, use2)
  BY <1>3, <1>4, <1>5, <1>6, <1>7, <1>8, <1>9 DEF NewLine
<1>11. len[set] \in Nat /\ limit \in Nat /\ hits \in Nat /\ misses \in Nat /\ evictions \in Nat
  BY <1>1 DEF RestOK
<1>12. CASE len[set] < limit
  <2>1. /\ Link(set, Appended(next[set], prev[set], c)) /\ Count(2)
        /\ lines' = [lines EXCEPT ![set] = lines[set] \cup {c}]
        /\ len' = [len EXCEPT ![set] = len[set] + 1]
    BY <1>4, <1>11, <1>12
  <2>2. next' = [next EXCEPT ![set] = nx2] /\ prev' = [prev EXCEPT ![set] = pv2]
    BY <1>5, <1>6, <2>1 DEF Link
  <2>3. SetOK(nx2, pv2, tg2, lines[set] \cup {c}, len[set] + 1, use2, now + 1, limit)
    BY <1>2, <1>10, <1>12, SetAppend
  <2>4. hits' = hits /\ misses' = misses + 1 /\ evictions' = evictions
    BY <2>1 DEF Count
  <2>5. PICK L3, ln3 : L3 = lines[set] \cup {c} /\ ln3 = len[set] + 1
    OBVIOUS
  <2>6. /\ SetOK(nx2, pv2, tg2, L3, ln3, use2, now + 1, limit)
        /\ next' = [next EXCEPT ![set] = nx2] /\ prev' = [prev EXCEPT ![set] = pv2]
        /\ tag' = [tag EXCEPT ![set] = tg2] /\ lines' = [lines EXCEPT ![set] = L3]
        /\ len' = [len EXCEPT ![set] = ln3]
        /\ lastUse' = [lastUse EXCEPT ![set] = use2] /\ now' = now + 1
    BY <1>9, <2>1, <2>2, <2>3, <2>5
  <2>7. evictions' = IF len[set] >= limit THEN evictions + 1 ELSE evictions
    BY <1>11, <1>12, <2>4
  <2> QED BY <1>3, <1>9, <2>4, <2>6, <2>7
<1>13. CASE len[set] >= limit
  <2>1. /\ Link(set, HeadPopped(nx2, pv2)) /\ Count(3)
        /\ lines' = [lines EXCEPT ![set] = (lines[set] \cup {c}) \ {nx2["head"]}]
        /\ len' = len
    BY <1>4, <1>5, <1>6, <1>11, <1>13
  <2>2. PICK nx3 : nx3 = HeadPopped(nx2, pv2)[1]
    OBVIOUS
  <2>3. PICK pv3 : pv3 = HeadPopped(nx2, pv2)[2]
    OBVIOUS
  <2>4. next' = [next EXCEPT ![set] = nx3] /\ prev' = [prev EXCEPT ![set] = pv3]
    BY <2>1, <2>2, <2>3 DEF Link
  <2>5. SetOK(nx3, pv3, tg2, (lines[set] \cup {c}) \ {nx2["head"]}, len[set], use2, now + 1, limit)
    BY <1>2, <1>10, <1>13, <2>2, <2>3, SetEvict
  <2>6. len' = [len EXCEPT ![set] = len[set]]
    BY <1>1, <2>1 DEF RestOK
  <2>7. hits' = hits /\ misses' = misses + 1 /\ evictions' = evictions + 1
    BY <2>1 DEF Count
  <2>8. PICK L3 : L3 = (lines[set] \cup {c}) \ {nx2["head"]}
    OBVIOUS
  <2>9. /\ SetOK(nx3, pv3, tg2, L3, len[set], use2, now + 1, limit)
        /\ next' = [next EXCEPT ![set] = nx3] /\ prev' = [prev EXCEPT ![set] = pv3]
        /\ tag' = [tag EXCEPT ![set] = tg2] /\ lines' = [lines EXCEPT ![set] = L3]
        /\ len' = [len EXCEPT ![set] = len[set]]
        /\ lastUse' = [lastUse EXCEPT ![set] = use2] /\ now' = now + 1
    BY <1>9, <2>1, <2>4, <2>5, <2>6, <2>8
  <2> QED BY <1>3, <1>9, <1>13, <2>7, <2>9
<1>14. len[set] < limit \/ len[set] >= limit
  BY <1>11
<1> QED BY <1>12, <1>13, <1>14

(* A miss keeps the invariant. *)
LEMMA MissInductive ==
    ASSUME CacheInductive, Miss, Recorded
    PROVE  CacheInductive'
<1>1. RestOK /\ AllSetsOK /\ SearchOK
  BY InductiveIs
<1>2. PICK nx3, pv3, tg2, use2, L3, ln3 :
         /\ SetOK(nx3, pv3, tg2, L3, ln3, use2, now + 1, limit)
         /\ next' = [next EXCEPT ![set] = nx3] /\ prev' = [prev EXCEPT ![set] = pv3]
         /\ tag' = [tag EXCEPT ![set] = tg2] /\ lines' = [lines EXCEPT ![set] = L3]
         /\ len' = [len EXCEPT ![set] = ln3]
         /\ lastUse' = [lastUse EXCEPT ![set] = use2] /\ now' = now + 1
  BY MissChanges
<1>3. /\ set' = set /\ input_t' = input_t /\ limit' = limit /\ entries' = entries
      /\ passes' \in 0..2 /\ pc' \in {"entry", "search"} /\ (pc' = "search" => passes' \in 1..2)
      /\ curr' = next'[set]["head"]
  BY <1>1 DEF Miss, NextPass, RestOK, SearchOK
<1>4. hits' \in Nat /\ misses' \in Nat /\ evictions' \in Nat
  BY <1>1, MissChanges DEF RestOK
<1>5. AllSetsOK'
  <2> SUFFICES ASSUME NEW s \in Sets
               PROVE  SetOK(next'[s], prev'[s], tag'[s], lines'[s], len'[s], lastUse'[s], now', limit')
    BY DEF AllSetsOK
  <2>1. CASE s = set
    BY <1>1, <1>2, <1>3, <2>1 DEF RestOK
  <2>2. CASE s # set
    <3>1. /\ next'[s] = next[s] /\ prev'[s] = prev[s] /\ lastUse'[s] = lastUse[s]
          /\ tag'[s] = tag[s] /\ lines'[s] = lines[s] /\ len'[s] = len[s]
      BY <1>1, <1>2, <2>2 DEF RestOK
    <3>2. SetOK(next[s], prev[s], tag[s], lines[s], len[s], lastUse[s], now, limit)
      BY <1>1 DEF AllSetsOK
    <3>3. SetOK(next[s], prev[s], tag[s], lines[s], len[s], lastUse[s], now + 1, limit)
      BY <3>2, SetIdle
    <3> QED BY <1>2, <1>3, <3>1, <3>3
  <2> QED BY <2>1, <2>2
<1>6. SearchOK'
  BY <1>1, <1>3, <1>5, SearchStarts DEF RestOK
<1>7. RestOK'
  <2>1. /\ nx3 \in Links /\ pv3 \in Links /\ use2 \in [Tags -> Nat] /\ tg2 \in [Node -> Tags]
        /\ L3 \in SUBSET Addr /\ ln3 \in Nat
    BY <1>2, FS_CardinalityType DEF SetOK
  <2>2. curr' \in Node
    <3>1. nx3["head"] \in L3 \cup {"tail"} BY <1>2 DEF SetOK, Linked
    <3> QED BY <1>1, <1>2, <1>3, <2>1, <3>1, Dummies DEF RestOK
  <2> QED BY <1>1, <1>2, <1>3, <1>4, <2>1, <2>2 DEF RestOK
<1> QED BY <1>5, <1>6, <1>7, InductiveIs, PTL

(* The other steps keep the invariant. *)
LEMMA OtherInductive ==
    ASSUME CacheInductive, ReadEntry \/ Advance \/ Finish \/ UNCHANGED vars,
           UNCHANGED <<lastUse, now>>
    PROVE  CacheInductive'
<1>1. RestOK /\ AllSetsOK /\ SearchOK
  BY InductiveIs
<1>2. UNCHANGED <<limit, next, prev, tag, lines, len, hits, misses, evictions, lastUse, now>>
  BY DEF ReadEntry, Advance, Finish, vars, listVars, countVars, entryVars
<1>3. AllSetsOK'
  BY <1>1, <1>2 DEF AllSetsOK
<1>4. RestOK' /\ SearchOK'
  <2>1. CASE ReadEntry
    <3>1. /\ set' \in Sets /\ input_t' \in Tags /\ passes' \in 1..2 /\ curr' = next'[set']["head"]
          /\ pc' = "search" /\ entries' = entries + 1
      BY <1>2, <2>1 DEF ReadEntry
    <3>2. SearchOK' BY <1>3, <3>1, SearchStarts
    <3>3. curr' \in Node
      BY <1>1, <1>2, <3>1, <3>2, Dummies DEF SearchOK, RestOK
    <3> QED BY <1>1, <1>2, <3>1, <3>2, <3>3 DEF RestOK
  <2>2. CASE Advance
    <3>1. /\ UNCHANGED <<pc, set, input_t, passes, entries>> /\ pc = "search"
          /\ curr' = next[set][curr]
      BY <2>2 DEF Advance, entryVars
    <3>2. PICK age : age = Ages(tag[set], lastUse[set], now)
      OBVIOUS
    <3>3. /\ curr \in lines[set] \/ (curr = "tail" /\ lines[set] = {})
          /\ \A n \in lines[set] : tag[set][n] = input_t => age[n] >= age[curr]
      BY <1>1, <3>1, <3>2 DEF SearchOK, Age
    <3>4. curr \in lines[set] => tag[set][curr] # input_t
      BY <1>1, <2>2 DEF Advance, Matches, v, RestOK
    <3>5. next[set][curr] # "NULL" /\ next[set][next[set][curr]] # "NULL"
      BY <2>2 DEF Advance, HasSuccessor
    <3>6. SetOK(next[set], prev[set], tag[set], lines[set], len[set], lastUse[set], now, limit)
      BY <1>1 DEF RestOK, AllSetsOK
    <3>7. /\ next[set][curr] \in lines[set]
          /\ \A n \in lines[set] : tag[set][n] = input_t => age[n] >= age[next[set][curr]]
      BY <3>2, <3>3, <3>4, <3>5, <3>6, SearchGoesOn
    <3>8. SearchOK' BY <1>1, <1>2, <3>1, <3>2, <3>7 DEF SearchOK, Age
    <3>9. curr' \in Node BY <1>1, <3>1, <3>7, Dummies DEF RestOK
    <3> QED BY <1>1, <1>2, <3>1, <3>8, <3>9 DEF RestOK
  <2>3. CASE Finish
    BY <1>1, <1>2, <2>3 DEF Finish, entryVars, RestOK, SearchOK
  <2>4. CASE UNCHANGED vars
    BY <1>1, <1>2, <2>4 DEF vars, RestOK, SearchOK, Age
  <2> QED BY <2>1, <2>2, <2>3, <2>4
<1> QED BY <1>3, <1>4, InductiveIs, PTL

(* The invariant holds when the cache has been set up. *)
LEMMA InitInductive == HInit => CacheInductive
<1> SUFFICES ASSUME HInit PROVE CacheInductive
  OBVIOUS
<1>1. RestOK
  BY Dummies, TagsAssumption, MaxLinesAssumption DEF HInit, Init, RestOK, Links
<1>2. SearchOK
  BY DEF HInit, Init, SearchOK
<1>3. AllSetsOK
  <2> SUFFICES ASSUME NEW s \in Sets
               PROVE  SetOK(next[s], prev[s], tag[s], lines[s], len[s], lastUse[s], now, limit)
    BY DEF AllSetsOK
  <2>1. /\ next[s] = [n \in Node |-> IF n = "head" THEN "tail" ELSE "NULL"]
        /\ prev[s] = [n \in Node |-> IF n = "tail" THEN "head" ELSE "NULL"]
        /\ lines[s] = {} /\ len[s] = 0 /\ now = 0 /\ \A t \in Tags : lastUse[s][t] = 0
    BY DEF HInit, Init
  <2>2. Linked(next[s], prev[s], lines[s])
    BY <2>1, Dummies DEF Linked
  <2>3. MostRecent(tag[s], lines[s], lastUse[s], len[s] = limit) /\ UsesDiffer(lastUse[s], now)
    BY <2>1 DEF MostRecent, UsesDiffer
  <2>4. Chronological(next[s], lines[s], Ages(tag[s], lastUse[s], now))
    <3>1. PICK age : age = Ages(tag[s], lastUse[s], now)
      OBVIOUS
    <3>2. age["head"] = 0 /\ age["tail"] = 1
      BY <2>1, <3>1, Dummies DEF Ages
    <3>3. Chronological(next[s], lines[s], age)
      BY <2>1, <3>2, Dummies DEF Chronological
    <3> QED BY <3>1, <3>3
  <2>5. IsFiniteSet(lines[s]) /\ len[s] = Cardinality(lines[s])
    BY <2>1, FS_EmptySet
  <2>6. /\ next[s] \in Links /\ prev[s] \in Links /\ tag[s] \in [Node -> Tags]
        /\ lines[s] \in SUBSET Addr /\ lastUse[s] \in [Tags -> Nat] /\ now \in Nat
        /\ limit \in Nat /\ len[s] <= limit
    <3>1. s \in Sets OBVIOUS
    <3>2. limit \in Nat /\ now \in Nat BY <1>1 DEF RestOK
    <3>3. /\ next[s] \in Links /\ prev[s] \in Links /\ tag[s] \in [Node -> Tags]
          /\ lines[s] \in SUBSET Addr /\ lastUse[s] \in [Tags -> Nat]
      BY <1>1, <3>1 DEF RestOK
    <3> QED BY <2>1, <3>2, <3>3
  <2> QED BY <2>2, <2>3, <2>4, <2>5, <2>6 DEF SetOK
<1> QED BY <1>1, <1>2, <1>3, InductiveIs

-----------------------------------------------------------------------------

(* The lists, the counters and the search of csim.c are in order after     *)
(* every step, for any number of sets, tags and lines.                     *)
THEOREM CacheInductiveCorrect == HSpec => []CacheInductive
<1>1. HInit => CacheInductive
  BY InitInductive
<1>2. CacheInductive /\ [HNext]_hvars => CacheInductive'
  <2> SUFFICES ASSUME CacheInductive, [HNext]_hvars PROVE CacheInductive'
    OBVIOUS
  <2>1. CASE Hit /\ Recorded BY <2>1, HitInductive
  <2>2. CASE Miss /\ Recorded BY <2>2, MissInductive
  <2>3. CASE (ReadEntry \/ Advance \/ Finish) /\ UNCHANGED <<lastUse, now>>
    BY <2>3, OtherInductive
  <2>4. CASE UNCHANGED hvars
    BY <2>4, OtherInductive DEF hvars, vars
  <2> QED BY <2>1, <2>2, <2>3, <2>4 DEF HNext
<1> QED BY <1>1, <1>2, PTL DEF HSpec

(* The lists of TraverseList stay linked, and no line leaks or is used     *)
(* after it was freed.                                                     *)
THEOREM ListLinkedCorrect == HSpec => []ListLinked
<1>1. CacheInductive => ListLinked
  BY DEF CacheInductive
<1> QED BY <1>1, CacheInductiveCorrect, PTL

(* TraverseList keeps its lines in the order of their last use.            *)
THEOREM OldestFirstCorrect == HSpec => []OldestFirst
<1>1. CacheInductive => OldestFirst
  BY DEF CacheInductive
<1> QED BY <1>1, CacheInductiveCorrect, PTL

(* TraverseList and main: a set's lines are those of the blocks used last,  *)
(* each in one line.                                                       *)
THEOREM LinesAreRecentCorrect == HSpec => []LinesAreRecent
<1>1. CacheInductive => LinesAreRecent
  BY DEF CacheInductive
<1> QED BY <1>1, CacheInductiveCorrect, PTL

(* No search passes the line it looks for.                                 *)
THEOREM SearchCorrect == HSpec => []SearchMissesNothing
<1>1. CacheInductive => SearchMissesNothing
  BY DEF CacheInductive
<1> QED BY <1>1, CacheInductiveCorrect, PTL

(* LRU counts as this module does. *)
LEMMA SameCardinality == ASSUME NEW U PROVE Cache!Cardinality(U) = Cardinality(U)
BY Zenon DEF Cache!Cardinality, Cardinality

(* A hit and a miss of csim.c are the accesses of LRU.                     *)
LEMMA AccessIsLRU ==
    ASSUME CacheInductive, Hit \/ Miss, Recorded
    PROVE  Cache!Access(set, input_t) /\ set \in Sets /\ input_t \in Tags
<1>1. RestOK /\ AllSetsOK /\ SearchOK
  BY InductiveIs
<1>2. set \in Sets /\ input_t \in Tags /\ now' = now + 1
      /\ lastUse' = [lastUse EXCEPT ![set] = [@ EXCEPT ![input_t] = now + 1]]
  BY <1>1 DEF RestOK, Recorded
<1>3. SetOK(next[set], prev[set], tag[set], lines[set], len[set], lastUse[set], now, limit)
  BY <1>1, <1>2 DEF AllSetsOK
<1>4. CASE Hit
  <2>1. curr \in lines[set] /\ tag[set][curr] = input_t
    BY <1>4, HitChanges
  <2>2. Cache!Cached(set, input_t)
    <3>1. PICK U : U = Cache!UsedSince(set, input_t) OBVIOUS
    <3>2. U \in SUBSET Tags /\ \A u \in Tags : u \in U <=> lastUse[set][u] > lastUse[set][input_t]
      BY <3>1 DEF Cache!UsedSince
    <3>3. lastUse[set][input_t] > 0 /\ Cardinality(U) < limit
      BY <1>3, <2>1, <3>2, HitIsCached
    <3> QED BY <3>1, <3>3, SameCardinality DEF Cache!Cached
  <2>3. limit' = limit /\ hits' = hits + 1 /\ misses' = misses /\ evictions' = evictions
    BY <1>4 DEF Hit, Count
  <2> QED BY <1>2, <2>2, <2>3 DEF Cache!Access
<1>5. CASE Miss
  <2>1. /\ \A n \in lines[set] : tag[set][n] # input_t
        /\ hits' = hits /\ misses' = misses + 1
        /\ evictions' = IF len[set] >= limit THEN evictions + 1 ELSE evictions
    BY <1>5, MissChanges
  <2>2. ~Cache!Cached(set, input_t)
    <3>1. PICK U : U = Cache!UsedSince(set, input_t) OBVIOUS
    <3>2. U \in SUBSET Tags /\ \A u \in Tags : u \in U <=> lastUse[set][u] > lastUse[set][input_t]
      BY <3>1 DEF Cache!UsedSince
    <3>3. ~(lastUse[set][input_t] > 0 /\ Cardinality(U) < limit)
      BY <1>2, <1>3, <2>1, <3>2, MissIsNotCached
    <3> QED BY <3>1, <3>3, SameCardinality DEF Cache!Cached
  <2>3. Cache!Full(set) <=> len[set] >= limit
    <3>1. PICK U : U = Cache!Used(set) OBVIOUS
    <3>2. U \in SUBSET Tags /\ \A u \in Tags : u \in U <=> lastUse[set][u] > 0
      BY <3>1 DEF Cache!Used
    <3>3. Cardinality(U) >= limit <=> len[set] >= limit
      BY <1>3, <3>2, FullIsFull
    <3> QED BY <3>1, <3>3, SameCardinality DEF Cache!Full
  <2>4. limit' = limit
    BY <1>5 DEF Miss
  <2> QED BY <1>2, <2>1, <2>2, <2>3, <2>4 DEF Cache!Access
<1> QED BY <1>4, <1>5

(* csim.c counts the hits, misses and evictions of an LRU cache.           *)
THEOREM CacheImplementsLRU == HSpec => ImplementsLRU
<1>1. HInit => Cache!Init
  BY MaxLinesAssumption DEF HInit, Init, Cache!Init
<1>2. CacheInductive /\ [HNext]_hvars => [Cache!Next]_Cache!vars
  <2> SUFFICES ASSUME CacheInductive, [HNext]_hvars PROVE [Cache!Next]_Cache!vars
    OBVIOUS
  <2>1. CASE (Hit \/ Miss) /\ Recorded
    BY <2>1, AccessIsLRU DEF Cache!Next
  <2>2. CASE (ReadEntry \/ Advance \/ Finish) /\ UNCHANGED <<lastUse, now>>
    BY <2>2 DEF ReadEntry, Advance, Finish, countVars, Cache!vars
  <2>3. CASE UNCHANGED hvars
    BY <2>3 DEF hvars, Cache!vars
  <2> QED BY <2>1, <2>2, <2>3 DEF HNext
<1> QED BY <1>1, <1>2, CacheInductiveCorrect, PTL DEF HSpec, ImplementsLRU, Cache!Spec
=============================================================================
