----------------------------- MODULE RioProofs -----------------------------
(***************************************************************************)
(* Proofs about Rio, for every size of its buffer and of the kernel's, and *)
(* every mix of calls: no byte is lost, no buffer overflows, and its calls *)
(* return what ByteStream says.                                            *)
(***************************************************************************)
EXTENDS RioProperties, SequenceTheorems, TLAPS

-----------------------------------------------------------------------------
(* Taking a sequence apart. *)

LEMMA TakeDrop ==
    ASSUME NEW s \in Seq(Chars), NEW n \in 0 .. Len(s)
    PROVE  /\ Take(s, n) \in Seq(Chars) /\ Len(Take(s, n)) = n
           /\ Drop(s, n) \in Seq(Chars) /\ Len(Drop(s, n)) = Len(s) - n
           /\ Take(s, n) \o Drop(s, n) = s
<1>1. /\ Take(s, n) \in Seq(Chars) /\ Len(Take(s, n)) = n
      /\ Drop(s, n) \in Seq(Chars) /\ Len(Drop(s, n)) = Len(s) - n
      /\ \A i \in 1 .. n : Take(s, n)[i] = s[i]
      /\ \A i \in 1 .. Len(s) - n : Drop(s, n)[i] = s[n + i]
  BY DEF Take, Drop
<1>2. /\ Take(s, n) \o Drop(s, n) \in Seq(Chars)
      /\ Len(Take(s, n) \o Drop(s, n)) = Len(s)
      /\ \A i \in 1 .. Len(s) : (Take(s, n) \o Drop(s, n))[i] =
            IF i <= n THEN Take(s, n)[i] ELSE Drop(s, n)[i - n]
  BY <1>1, ConcatProperties
<1>3. \A i \in 1 .. Len(s) : (Take(s, n) \o Drop(s, n))[i] = s[i]
  BY <1>1, <1>2
<1> QED BY <1>1, <1>2, <1>3, SeqEqual

LEMMA TakeDropOfConcat ==
    ASSUME NEW s \in Seq(Chars), NEW t \in Seq(Chars)
    PROVE  Take(s \o t, Len(s)) = s /\ Drop(s \o t, Len(s)) = t
<1>1. /\ s \o t \in Seq(Chars) /\ Len(s \o t) = Len(s) + Len(t)
      /\ \A i \in 1 .. Len(s) : (s \o t)[i] = s[i]
      /\ \A i \in 1 .. Len(t) : (s \o t)[Len(s) + i] = t[i]
  BY ConcatProperties
<1>2. /\ Take(s \o t, Len(s)) \in Seq(Chars) /\ Len(Take(s \o t, Len(s))) = Len(s)
      /\ \A i \in 1 .. Len(s) : Take(s \o t, Len(s))[i] = s[i]
  BY <1>1 DEF Take
<1>3. /\ Drop(s \o t, Len(s)) \in Seq(Chars) /\ Len(Drop(s \o t, Len(s))) = Len(t)
      /\ \A i \in 1 .. Len(t) : Drop(s \o t, Len(s))[i] = t[i]
  BY <1>1 DEF Drop
<1> QED BY <1>2, <1>3, SeqEqual

LEMMA Associative ==
    ASSUME NEW s \in Seq(Chars), NEW t \in Seq(Chars), NEW u \in Seq(Chars)
    PROVE  (s \o t) \o u = s \o (t \o u)
BY ConcatAssociative

(* A byte moves from the front of t to the end of s. *)
LEMMA MoveOneByte ==
    ASSUME NEW s \in Seq(Chars), NEW t \in Seq(Chars), t # <<>>
    PROVE  /\ Append(s, Head(t)) \in Seq(Chars) /\ Tail(t) \in Seq(Chars)
           /\ Len(Append(s, Head(t))) = Len(s) + 1 /\ Len(Tail(t)) = Len(t) - 1
           /\ Append(s, Head(t)) \o Tail(t) = s \o t
<1>1. /\ Append(s, Head(t)) \in Seq(Chars) /\ Tail(t) \in Seq(Chars)
      /\ Len(Append(s, Head(t))) = Len(s) + 1 /\ Len(Tail(t)) = Len(t) - 1
      /\ \A i \in 1 .. Len(t) - 1 : Tail(t)[i] = t[i + 1]
      /\ Append(s, Head(t))[Len(s) + 1] = t[1]
      /\ \A i \in 1 .. Len(s) : Append(s, Head(t))[i] = s[i]
      /\ Len(t) >= 1
  OBVIOUS
<1> DEFINE u == Append(s, Head(t))   v == Tail(t)
<1>2. /\ u \o v \in Seq(Chars) /\ Len(u \o v) = Len(u) + Len(v)
      /\ \A i \in 1 .. Len(u) + Len(v) : (u \o v)[i] = IF i <= Len(u) THEN u[i] ELSE v[i - Len(u)]
  BY <1>1, ConcatProperties
<1>3. /\ s \o t \in Seq(Chars) /\ Len(s \o t) = Len(s) + Len(t)
      /\ \A i \in 1 .. Len(s) + Len(t) : (s \o t)[i] = IF i <= Len(s) THEN s[i] ELSE t[i - Len(s)]
  BY ConcatProperties
<1>4. \A i \in 1 .. Len(u \o v) : (u \o v)[i] = (s \o t)[i]
  BY <1>1, <1>2, <1>3
<1> QED BY <1>1, <1>2, <1>3, <1>4, SeqEqual

LEMMA MoveOne ==
    ASSUME NEW s \in Seq(Chars), NEW t \in Seq(Chars), NEW u \in Seq(Chars), t # <<>>
    PROVE  Append(s, Head(t)) \o (Tail(t) \o u) = s \o (t \o u)
<1> DEFINE A == Append(s, Head(t))   T == Tail(t)
<1>1. A \in Seq(Chars) /\ T \in Seq(Chars) /\ A \o T = s \o t
  BY MoveOneByte
<1> HIDE DEF A, T
<1>2. (A \o T) \o u = A \o (T \o u)
  <2>1. A \in Seq(Chars) /\ T \in Seq(Chars)
    BY <1>1
  <2> QED BY <2>1, Associative, ZenonT(40)
<1>3. (s \o t) \o u = s \o (t \o u)
  BY Associative
<1> QED BY <1>1, <1>2, <1>3 DEF A, T

(* n bytes move from the front of t to the end of s. *)
LEMMA MoveMany ==
    ASSUME NEW s \in Seq(Chars), NEW t \in Seq(Chars), NEW u \in Seq(Chars), NEW n \in 0 .. Len(t)
    PROVE  /\ s \o Take(t, n) \in Seq(Chars) /\ Len(s \o Take(t, n)) = Len(s) + n
           /\ (s \o Take(t, n)) \o (Drop(t, n) \o u) = s \o (t \o u)
<1> DEFINE T == Take(t, n)   D == Drop(t, n)   Du == D \o u
<1>1. T \in Seq(Chars) /\ Len(T) = n /\ D \in Seq(Chars) /\ T \o D = t
  BY TakeDrop
<1> HIDE DEF T, D
<1>2. s \o T \in Seq(Chars) /\ Len(s \o T) = Len(s) + n /\ Du \in Seq(Chars)
  BY <1>1, ConcatProperties
<1>3. T \o Du = t \o u
  <2>1. T \in Seq(Chars) /\ D \in Seq(Chars)
    BY <1>1
  <2>2. (T \o D) \o u = T \o Du
    BY <2>1, Associative, ZenonT(40)
  <2> QED BY <1>1, <2>2
<1> HIDE DEF Du
<1>4. T \in Seq(Chars) /\ Du \in Seq(Chars)
  BY <1>1, <1>2
<1>5. (s \o T) \o Du = s \o (T \o Du)
  BY <1>4, Associative, ZenonT(40)
<1> QED BY <1>1, <1>2, <1>3, <1>5 DEF T, D, Du

-----------------------------------------------------------------------------
(* The inductive invariant. *)

(* What is on its way to a call that has copied nothing. *)
Behind == rio_buf \o (wire \o (bufp \o unsent))

RioTypeOK ==
    /\ bufp \in Seq(Chars) /\ unsent \in Seq(Chars) /\ closed \in BOOLEAN
    /\ wire \in Seq(Chars) /\ rio_buf \in Seq(Chars) /\ usrbuf \in Seq(Chars)
    /\ call \in {"none", "readlineb", "readnb"} /\ len \in Lengths
    /\ got \in Seq(Chars) /\ unread \in Seq(Chars)

(* A call that goes on has room for more, and a line no newline yet.       *)
CallGoesOn ==
    /\ call = "readnb" => Len(usrbuf) < len
    /\ call = "readlineb" => /\ Len(usrbuf) + 1 < len \/ (len = 1 /\ usrbuf = <<>>)
                             /\ \A i \in 1 .. Len(usrbuf) : usrbuf[i] # "nl"

RioInductive ==
    /\ RioTypeOK
    /\ Len(rio_buf) <= BufSize /\ Len(wire) <= Capacity
    /\ closed => bufp = <<>> /\ unsent = <<>>
    /\ CallGoesOn
    /\ unread = Copied \o Behind

(* The order in which the parts are joined makes no difference.            *)
LEMMA Joined ==
    ASSUME RioTypeOK
    PROVE  /\ Copied \in Seq(Chars) /\ Behind \in Seq(Chars)
           /\ Copied \o rio_buf \o wire \o bufp \o unsent = Copied \o Behind
<1> DEFINE c == Copied   cr == c \o rio_buf   crw == cr \o wire
           bu == bufp \o unsent   wbu == wire \o bu
<1>1. c \in Seq(Chars)
  BY EmptySeq DEF RioTypeOK, Copied
<1> HIDE DEF c
<1>2. rio_buf \in Seq(Chars)
  BY DEF RioTypeOK
<1>3. wire \in Seq(Chars)
  BY DEF RioTypeOK
<1>4. bufp \in Seq(Chars) /\ unsent \in Seq(Chars)
  BY DEF RioTypeOK
<1>5. bu \in Seq(Chars)
  BY <1>4, ConcatProperties
<1>6. cr \in Seq(Chars)
  BY <1>1, <1>2, ConcatProperties
<1> HIDE DEF cr
<1>7. crw \in Seq(Chars)
  BY <1>3, <1>6, ConcatProperties
<1> HIDE DEF crw
<1>8. (crw \o bufp) \o unsent = crw \o bu
  BY <1>4, <1>7, Associative
<1> HIDE DEF bu
<1>9. crw \o bu = cr \o wbu
  BY <1>3, <1>5, <1>6, Associative DEF crw
<1>10. wbu \in Seq(Chars)
  BY <1>3, <1>5, ConcatProperties
<1> HIDE DEF wbu
<1>11. cr \o wbu = c \o (rio_buf \o wbu)
  BY <1>1, <1>2, <1>10, Associative DEF cr
<1>12. rio_buf \o wbu \in Seq(Chars)
  BY <1>2, <1>10, ConcatProperties
<1> QED BY <1>1, <1>8, <1>9, <1>11, <1>12 DEF c, cr, crw, bu, wbu, Behind

(* A step of the writer passes bytes on and nothing else. *)
LEMMA WriterStep ==
    ASSUME RioInductive, Writer, unread' = unread
    PROVE  RioInductive'
<1> USE DEF RioTypeOK
<1>1. call' = call /\ usrbuf' = usrbuf /\ len' = len /\ got' = got /\ rio_buf' = rio_buf
  BY DEF Writer, Write, WriteCall, CloseWriter
<1>2. /\ RioTypeOK' /\ Len(wire') <= Capacity
      /\ closed' => bufp' = <<>> /\ unsent' = <<>>
      /\ wire' \o (bufp' \o unsent') = wire \o (bufp \o unsent)
  <2>1. CASE Write
    <3>1. PICK n \in 1 .. Least(Len(bufp), Capacity - Len(wire)) :
            wire' = wire \o Take(bufp, n) /\ bufp' = Drop(bufp, n)
      BY <2>1 DEF Write
    <3>2. n \in 0 .. Len(bufp) /\ Len(wire) + n <= Capacity /\ bufp # <<>>
      BY <2>1, CapacityAssumption DEF Least, Write, RioInductive
    <3>3. bufp \in Seq(Chars) /\ unsent \in Seq(Chars) /\ wire \in Seq(Chars)
      BY DEF RioInductive
    <3>4. Drop(bufp, n) \in Seq(Chars)
      BY <3>3, <3>2, TakeDrop
    <3>5. /\ wire' \in Seq(Chars) /\ Len(wire') = Len(wire) + n
          /\ wire' \o (bufp' \o unsent) = wire \o (bufp \o unsent)
          /\ bufp' \in Seq(Chars)
      BY <3>1, <3>2, <3>3, <3>4, MoveMany
    <3> QED BY <1>1, <2>1, <3>2, <3>5 DEF Write, RioInductive
  <2>2. CASE WriteCall
    <3>1. PICK n \in 1 .. Len(unsent) : bufp' = Take(unsent, n) /\ unsent' = Drop(unsent, n)
      BY <2>2 DEF WriteCall
    <3>2. /\ bufp' \in Seq(Chars) /\ unsent' \in Seq(Chars) /\ bufp' \o unsent' = unsent
          /\ bufp \o unsent = unsent /\ unsent # <<>>
      <4>1. unsent \in Seq(Chars) /\ n \in 0 .. Len(unsent) /\ bufp = <<>>
        BY <2>2 DEF WriteCall, RioInductive
      <4>2. unsent # <<>> /\ <<>> \o unsent = unsent
        BY <4>1, <3>1, EmptySeq, ConcatEmptySeq
      <4> QED BY <3>1, <4>1, <4>2, TakeDrop
    <3> QED BY <1>1, <2>2, <3>2 DEF WriteCall, RioInductive
  <2>3. CASE CloseWriter
    BY <1>1, <2>3 DEF CloseWriter, RioInductive
  <2> QED BY <2>1, <2>2, <2>3 DEF Writer
<1> QED BY <1>1, <1>2 DEF RioInductive, CallGoesOn, Copied, Behind

(* A call begins with nothing copied. *)
LEMMA CallStep ==
    ASSUME RioInductive, Call, unread' = unread
    PROVE  RioInductive'
<1>1. /\ Copied' = Copied /\ Behind' = Behind
      /\ bufp' = bufp /\ unsent' = unsent /\ closed' = closed /\ wire' = wire
      /\ rio_buf' = rio_buf /\ got' = got
  BY DEF Call, Copied, Behind, writerVars
<1>2. /\ usrbuf' = <<>> /\ usrbuf' \in Seq(Chars) /\ Len(usrbuf') = 0
      /\ len' \in Lengths /\ len' >= 1 /\ len' \in Nat
      /\ call' \in {"none", "readlineb", "readnb"}
  BY LengthsAssumption, EmptySeq DEF Call
<1>3. RioTypeOK'
  BY <1>1, <1>2 DEF RioTypeOK, RioInductive
<1>4. CallGoesOn'
  <2>1. len' # 1 => Len(usrbuf') + 1 < len'
    <3>1. len' \in Nat /\ len' >= 1 /\ Len(usrbuf') = 0
      BY <1>2
    <3> QED BY <3>1
  <2>2. Len(usrbuf') < len' /\ 1 .. Len(usrbuf') = {}
    BY <1>2
  <2> QED BY <1>2, <2>1, <2>2 DEF CallGoesOn
<1> QED BY <1>1, <1>3, <1>4 DEF RioInductive

-----------------------------------------------------------------------------
(* The steps of a call that has begun. *)

(* Nothing that is behind the buffer's bytes changes unless it is refilled. *)
Coming == wire \o (bufp \o unsent)

LEMMA ComingType ==
    ASSUME RioTypeOK
    PROVE  Coming \in Seq(Chars) /\ bufp \o unsent \in Seq(Chars)
<1> DEFINE bu == bufp \o unsent
<1>1. bu \in Seq(Chars)
  BY ConcatProperties DEF RioTypeOK
<1> HIDE DEF bu
<1>2. wire \o bu \in Seq(Chars)
  BY <1>1, ConcatProperties DEF RioTypeOK
<1> QED BY <1>1, <1>2 DEF bu, Coming

(* What a step of a call leaves: the bytes copied so far and those on      *)
(* their way are what was not returned before.                             *)
ReadKeeps ==
    /\ usrbuf' \in Seq(Chars) /\ rio_buf' \in Seq(Chars) /\ wire' \in Seq(Chars)
    /\ Len(rio_buf') <= BufSize /\ Len(wire') <= Capacity
    /\ usrbuf' \o Behind' = usrbuf \o Behind
    /\ bufp' = bufp /\ unsent' = unsent /\ closed' = closed /\ len' = len
    /\ (call' = call /\ got' = got /\ CallGoesOn') \/ (call' = "none" /\ got' = usrbuf')

LEMMA RefillKeeps ==
    ASSUME RioInductive, Refill
    PROVE  ReadKeeps
<1>1. PICK n \in 1 .. Least(Len(wire), BufSize) : rio_buf' = Take(wire, n) /\ wire' = Drop(wire, n)
  BY DEF Refill
<1>2. wire \in Seq(Chars) /\ Len(wire) <= Capacity /\ bufp \o unsent \in Seq(Chars)
  BY ComingType DEF RioInductive, RioTypeOK
<1>3. n \in 0 .. Len(wire) /\ n <= BufSize
  BY <1>2, BufSizeAssumption DEF Least
<1>4. /\ rio_buf' \in Seq(Chars) /\ Len(rio_buf') = n
      /\ wire' \in Seq(Chars) /\ Len(wire') = Len(wire) - n
  BY <1>1, <1>2, <1>3, TakeDrop
<1>5. /\ UNCHANGED <<bufp, unsent, closed, call, len, usrbuf, got>>
      /\ rio_buf = <<>>
  BY DEF Refill, writerVars
<1>6. Behind' = Behind
  <2>1. <<>> \o Take(wire, n) = Take(wire, n)
    BY <1>1, <1>4, ConcatEmptySeq
  <2>2. <<>> \in Seq(Chars)
    BY EmptySeq
  <2>3. (<<>> \o Take(wire, n)) \o (Drop(wire, n) \o (bufp \o unsent)) = <<>> \o (wire \o (bufp \o unsent))
    <3> DEFINE bu == bufp \o unsent
    <3>1. bu \in Seq(Chars)
      BY <1>2
    <3> HIDE DEF bu
    <3>2. (<<>> \o Take(wire, n)) \o (Drop(wire, n) \o bu) = <<>> \o (wire \o bu)
      BY <1>2, <1>3, <2>2, <3>1, MoveMany
    <3> QED BY <3>2 DEF bu
  <2> QED BY <1>1, <1>5, <2>1, <2>3 DEF Behind
<1>7. CallGoesOn'
  BY <1>5 DEF RioInductive, CallGoesOn
<1>8. usrbuf \in Seq(Chars)
  BY DEF RioInductive, RioTypeOK
<1>9. Len(rio_buf') <= BufSize /\ Len(wire') <= Capacity
  BY <1>2, <1>3, <1>4, CapacityAssumption
<1>10. usrbuf' \o Behind' = usrbuf \o Behind
  BY <1>5, <1>6
<1>11. (call' = call /\ got' = got /\ CallGoesOn') \/ (call' = "none" /\ got' = usrbuf')
  BY <1>5, <1>7
<1>12. usrbuf' \in Seq(Chars) /\ rio_buf' \in Seq(Chars) /\ wire' \in Seq(Chars)
  BY <1>4, <1>5, <1>8
<1>13. bufp' = bufp /\ unsent' = unsent /\ closed' = closed /\ len' = len
  BY <1>5
<1> QED BY <1>9, <1>10, <1>11, <1>12, <1>13, Zenon DEF ReadKeeps

LEMMA CopyToLineKeeps ==
    ASSUME RioInductive, CopyToLine
    PROVE  ReadKeeps /\ usrbuf' = Append(usrbuf, Head(rio_buf)) /\ Len(usrbuf') = Len(usrbuf) + 1
<1>1. /\ usrbuf \in Seq(Chars) /\ rio_buf \in Seq(Chars) /\ Len(rio_buf) <= BufSize
      /\ wire \in Seq(Chars) /\ Len(wire) <= Capacity
  BY DEF RioInductive, RioTypeOK
<1>2. /\ UNCHANGED <<bufp, unsent, closed, wire, len>> /\ rio_buf # <<>>
      /\ rio_buf' = Tail(rio_buf) /\ usrbuf' = Append(usrbuf, Head(rio_buf))
  BY DEF CopyToLine, writerVars
<1>3. /\ usrbuf' \in Seq(Chars) /\ rio_buf' \in Seq(Chars)
      /\ Len(usrbuf') = Len(usrbuf) + 1 /\ Len(rio_buf') = Len(rio_buf) - 1
  BY <1>1, <1>2, MoveOneByte
<1>4. usrbuf' \o Behind' = usrbuf \o Behind
  <2>1. Coming' = Coming /\ Coming \in Seq(Chars)
    BY <1>2, ComingType DEF Coming, RioInductive
  <2>2. usrbuf' \o (rio_buf' \o Coming) = usrbuf \o (rio_buf \o Coming)
    BY <1>1, <1>2, <2>1, MoveOne
  <2> QED BY <2>1, <2>2 DEF Behind, Coming
<1>5. Len(rio_buf') <= BufSize
  BY <1>1, <1>3, BufSizeAssumption
<1>6. CASE LineEnds(usrbuf')
  BY <1>1, <1>2, <1>3, <1>4, <1>5, <1>6 DEF CopyToLine, Returns, ReadKeeps
<1>7. CASE ~LineEnds(usrbuf')
  <2>1. call' = call /\ got' = got /\ call = "readlineb" /\ len > 1
    BY <1>7 DEF CopyToLine
  <2>2. /\ len \in Nat /\ Len(usrbuf) + 1 < len
        /\ \A i \in 1 .. Len(usrbuf) : usrbuf[i] # "nl"
    BY <2>1, LengthsAssumption DEF RioInductive, RioTypeOK, CallGoesOn
  <2>3. usrbuf'[Len(usrbuf) + 1] # "nl" /\ Len(usrbuf) + 1 # len - 1
    BY <1>3, <1>7 DEF LineEnds
  <2>4. \A i \in 1 .. Len(usrbuf) : usrbuf'[i] = usrbuf[i]
    BY <1>1, <1>2
  <2>5. Len(usrbuf) \in Nat
    BY <1>1
  <2>6. Len(usrbuf') + 1 < len' /\ \A i \in 1 .. Len(usrbuf') : usrbuf'[i] # "nl"
    BY <1>2, <1>3, <2>2, <2>3, <2>4, <2>5
  <2>7. CallGoesOn'
    BY <2>1, <2>6 DEF CallGoesOn
  <2>8. wire' \in Seq(Chars) /\ Len(wire') <= Capacity
    BY <1>1, <1>2
  <2>9. (call' = call /\ got' = got /\ CallGoesOn') \/ (call' = "none" /\ got' = usrbuf')
    BY <2>1, <2>7
  <2>10. bufp' = bufp /\ unsent' = unsent /\ closed' = closed /\ len' = len
    BY <1>2
  <2>11. ReadKeeps
    BY <1>3, <1>4, <1>5, <2>8, <2>9, <2>10, Zenon DEF ReadKeeps
  <2> QED BY <1>2, <1>3, <2>11
<1> QED BY <1>6, <1>7

LEMMA NoRoomKeeps ==
    ASSUME RioInductive, NoRoom
    PROVE  ReadKeeps /\ usrbuf = <<>> /\ usrbuf' = <<>>
<1>1. /\ UNCHANGED <<bufp, unsent, closed, wire, rio_buf, len, usrbuf>>
      /\ len = 1 /\ call = "readlineb" /\ call' = "none" /\ got' = <<>>
  BY DEF NoRoom, Returns, writerVars
<1>2. usrbuf \in Seq(Chars) /\ (Len(usrbuf) + 1 < len \/ usrbuf = <<>>)
  BY <1>1 DEF RioInductive, RioTypeOK, CallGoesOn
<1>3. usrbuf = <<>>
  BY <1>1, <1>2
<1>4. /\ usrbuf \in Seq(Chars) /\ rio_buf \in Seq(Chars) /\ wire \in Seq(Chars)
      /\ Len(rio_buf) <= BufSize /\ Len(wire) <= Capacity
  BY DEF RioInductive, RioTypeOK
<1>5. usrbuf' \o Behind' = usrbuf \o Behind
  BY <1>1 DEF Behind
<1> QED BY <1>1, <1>3, <1>4, <1>5 DEF ReadKeeps

LEMMA CopyToUserKeeps ==
    ASSUME RioInductive, CopyToUser
    PROVE  ReadKeeps /\ Len(usrbuf') <= len
<1> DEFINE n == Least(len - Len(usrbuf), Len(rio_buf))
<1>1. /\ usrbuf \in Seq(Chars) /\ rio_buf \in Seq(Chars) /\ Len(rio_buf) <= BufSize
      /\ wire \in Seq(Chars) /\ Len(wire) <= Capacity
  BY DEF RioInductive, RioTypeOK
<1>2. /\ UNCHANGED <<bufp, unsent, closed, wire, len>> /\ call = "readnb"
      /\ rio_buf' = Drop(rio_buf, n) /\ usrbuf' = usrbuf \o Take(rio_buf, n)
  BY DEF CopyToUser, writerVars
<1>3. n \in 0 .. Len(rio_buf) /\ Len(usrbuf) + n <= len
  <2>1. len \in Nat /\ Len(usrbuf) < len
    BY <1>2, LengthsAssumption DEF RioInductive, RioTypeOK, CallGoesOn
  <2>2. Len(usrbuf) \in Nat /\ Len(rio_buf) \in Nat
    BY <1>1
  <2> QED BY <2>1, <2>2 DEF Least
<1> HIDE DEF n
<1>4. /\ usrbuf' \in Seq(Chars) /\ Len(usrbuf') = Len(usrbuf) + n
      /\ rio_buf' \in Seq(Chars) /\ Len(rio_buf') = Len(rio_buf) - n
  <2>1. Take(rio_buf, n) \in Seq(Chars) /\ Len(Take(rio_buf, n)) = n
    BY <1>1, <1>3, TakeDrop
  <2>2. Drop(rio_buf, n) \in Seq(Chars) /\ Len(Drop(rio_buf, n)) = Len(rio_buf) - n
    BY <1>1, <1>3, TakeDrop
  <2> QED BY <1>1, <1>2, <2>1, <2>2, ConcatProperties
<1>5. usrbuf' \o Behind' = usrbuf \o Behind
  <2>1. Coming' = Coming /\ Coming \in Seq(Chars)
    BY <1>2, ComingType DEF Coming, RioInductive
  <2> DEFINE c == Coming
  <2>2. usrbuf' \o (rio_buf' \o Coming) = usrbuf \o (rio_buf \o Coming)
    <3>1. c \in Seq(Chars)
      BY <2>1
    <3> HIDE DEF c
    <3>2. (usrbuf \o Take(rio_buf, n)) \o (Drop(rio_buf, n) \o c) = usrbuf \o (rio_buf \o c)
      BY <1>1, <1>3, <3>1, MoveMany, ZenonT(40)
    <3> QED BY <1>2, <3>2 DEF c
  <2> QED BY <2>1, <2>2 DEF Behind, Coming
<1>6. Len(rio_buf') <= BufSize /\ Len(usrbuf') <= len
  <2>1. Len(usrbuf) \in Nat /\ Len(rio_buf) \in Nat /\ len \in Nat
    BY <1>1, LengthsAssumption DEF RioInductive, RioTypeOK
  <2> QED BY <1>1, <1>3, <1>4, <2>1, BufSizeAssumption
<1>7. (call' = call /\ got' = got /\ CallGoesOn') \/ (call' = "none" /\ got' = usrbuf')
  <2>1. CASE Len(usrbuf') = len
    BY <2>1 DEF CopyToUser, Returns
  <2>2. CASE Len(usrbuf') # len
    <3>1. call' = call /\ got' = got
      BY <2>2 DEF CopyToUser
    <3>2. Len(usrbuf') < len'
      <4>1. Len(usrbuf') \in Nat /\ len \in Nat
        BY <1>4, LengthsAssumption DEF RioInductive, RioTypeOK
      <4> QED BY <1>2, <1>6, <2>2, <4>1
    <3> QED BY <1>2, <3>1, <3>2 DEF CallGoesOn
  <2> QED BY <2>1, <2>2
<1>8. wire' \in Seq(Chars) /\ Len(wire') <= Capacity
  BY <1>1, <1>2
<1>9. bufp' = bufp /\ unsent' = unsent /\ closed' = closed /\ len' = len
  BY <1>2
<1>10. ReadKeeps
  BY <1>4, <1>5, <1>6, <1>7, <1>8, <1>9, Zenon DEF ReadKeeps
<1> QED BY <1>6, <1>10

LEMMA ReadEOFKeeps ==
    ASSUME RioInductive, ReadEOF
    PROVE  ReadKeeps /\ usrbuf' = usrbuf /\ call' = "none" /\ Behind = <<>>
<1>1. /\ UNCHANGED <<bufp, unsent, closed, wire, rio_buf, len, usrbuf>>
      /\ call' = "none" /\ got' = usrbuf
  BY DEF ReadEOF, Returns, writerVars
<1>2. /\ usrbuf \in Seq(Chars) /\ rio_buf \in Seq(Chars) /\ wire \in Seq(Chars)
      /\ Len(rio_buf) <= BufSize /\ Len(wire) <= Capacity
  BY DEF RioInductive, RioTypeOK
<1>3. usrbuf' \o Behind' = usrbuf \o Behind
  BY <1>1 DEF Behind
<1>4. rio_buf = <<>> /\ wire = <<>> /\ bufp = <<>> /\ unsent = <<>>
  BY DEF ReadEOF, AtEOF, RioInductive
<1>5. <<>> \o <<>> = <<>>
  BY EmptySeq, ConcatEmptySeq
<1>6. Behind = <<>>
  BY <1>4, <1>5 DEF Behind
<1> QED BY <1>1, <1>2, <1>3, <1>6 DEF ReadKeeps

(* A step of a call keeps the invariant. *)
LEMMA ReadStep ==
    ASSUME RioInductive, Reads,
           unread' = IF Returned THEN Drop(unread, Len(got')) ELSE unread
    PROVE  /\ RioInductive' /\ ReadKeeps /\ unread = usrbuf' \o Behind'
           /\ Returned => got' = usrbuf' /\ Len(got') <= Len(unread) /\ unread' = Behind'
<1>1. ReadKeeps
  BY RefillKeeps, CopyToLineKeeps, NoRoomKeeps, CopyToUserKeeps, ReadEOFKeeps DEF Reads
<1>2. call # "none"
  BY DEF Reads, Refill, CopyToLine, NoRoom, CopyToUser, ReadEOF
<1>3. unread = usrbuf' \o Behind'
  BY <1>1, <1>2 DEF RioInductive, Copied, ReadKeeps
<1>4. usrbuf' \in Seq(Chars) /\ Behind' \in Seq(Chars)
  <2>1. (bufp \o unsent)' \in Seq(Chars)
    BY <1>1, ComingType DEF ReadKeeps, RioInductive
  <2> DEFINE bu == bufp' \o unsent'
  <2>2. bu \in Seq(Chars)
    BY <2>1
  <2> HIDE DEF bu
  <2> DEFINE wbu == wire' \o bu
  <2>3. wbu \in Seq(Chars)
    BY <1>1, <2>2, ConcatProperties DEF ReadKeeps
  <2> HIDE DEF wbu
  <2>4. rio_buf' \o wbu \in Seq(Chars)
    BY <1>1, <2>3, ConcatProperties DEF ReadKeeps
  <2> QED BY <1>1, <2>4 DEF ReadKeeps, Behind, bu, wbu
<1>5. /\ Drop(unread, Len(usrbuf')) = Behind' /\ Len(usrbuf') <= Len(unread)
      /\ unread \in Seq(Chars)
  BY <1>3, <1>4, TakeDropOfConcat, ConcatProperties
<1>6. RioTypeOK' /\ Len(rio_buf') <= BufSize /\ Len(wire') <= Capacity
      /\ (closed' => bufp' = <<>> /\ unsent' = <<>>)
  <2>1. /\ bufp \in Seq(Chars) /\ unsent \in Seq(Chars) /\ closed \in BOOLEAN
        /\ call \in {"none", "readlineb", "readnb"} /\ len \in Lengths /\ got \in Seq(Chars)
        /\ (closed => bufp = <<>> /\ unsent = <<>>)
    BY DEF RioInductive, RioTypeOK
  <2>2. unread' \in Seq(Chars)
    <3>1. Returned => got' = usrbuf'
      BY <1>1, <1>2 DEF Returned, ReadKeeps
    <3> QED BY <1>4, <1>5, <3>1
  <2> QED BY <1>1, <2>1, <2>2 DEF ReadKeeps, RioTypeOK
<1>7. CASE Returned
  <2>1. call' = "none" /\ got' = usrbuf'
    BY <1>1, <1>2, <1>7 DEF Returned, ReadKeeps
  <2>2. unread' = Behind'
    BY <1>5, <1>7, <2>1
  <2>3. Copied' = <<>> /\ CallGoesOn' /\ <<>> \o Behind' = Behind'
    BY <1>4, <2>1, ConcatEmptySeq DEF Copied, CallGoesOn
  <2> QED BY <1>1, <1>3, <1>5, <1>6, <2>1, <2>2, <2>3 DEF RioInductive
<1>8. CASE ~Returned
  <2>1. call' # "none"
    BY <1>2, <1>8 DEF Returned
  <2>2. Copied' = usrbuf' /\ CallGoesOn' /\ unread' = unread
    BY <1>1, <1>8, <2>1 DEF Copied, ReadKeeps
  <2> QED BY <1>1, <1>3, <1>6, <1>8, <2>2 DEF RioInductive
<1> QED BY <1>7, <1>8

-----------------------------------------------------------------------------
(* The theorems. *)

LEMMA InitInductive == RInit => RioInductive
<1> SUFFICES ASSUME RInit PROVE RioInductive
  OBVIOUS
<1>1. /\ unread = unsent /\ unsent \in Seq(Chars) /\ bufp = <<>> /\ wire = <<>> /\ rio_buf = <<>>
      /\ usrbuf = <<>> /\ got = <<>> /\ call = "none" /\ closed = FALSE /\ len \in Lengths
  BY StreamsAssumption DEF RInit, Init
<1>2. <<>> \in Seq(Chars) /\ Len(<<>>) = 0 /\ <<>> \o unsent = unsent
  BY <1>1, EmptySeq, ConcatEmptySeq
<1>3. RioTypeOK /\ CallGoesOn
  BY <1>1, <1>2 DEF RioTypeOK, CallGoesOn
<1>4. Behind = unsent /\ Copied = <<>>
  BY <1>1, <1>2 DEF Behind, Copied
<1> QED BY <1>1, <1>2, <1>3, <1>4, BufSizeAssumption, CapacityAssumption DEF RioInductive

LEMMA Outside ==
    ASSUME Writer \/ Call, unread' = IF Returned THEN Drop(unread, Len(got')) ELSE unread
    PROVE  ~Returned /\ unread' = unread /\ got' = got
BY DEF Writer, Write, WriteCall, CloseWriter, Call, Returned

LEMMA NextInductive == RioInductive /\ [RNext]_rvars => RioInductive'
<1> SUFFICES ASSUME RioInductive, [RNext]_rvars PROVE RioInductive'
  OBVIOUS
<1>1. CASE RNext
  BY <1>1, Outside, WriterStep, CallStep, ReadStep DEF RNext, Next
<1>2. CASE UNCHANGED rvars
  BY <1>2 DEF rvars, RioInductive, RioTypeOK, CallGoesOn, Copied, Behind
<1> QED BY <1>1, <1>2

LEMMA RioInvariant == RSpec => []RioInductive
BY InitInductive, NextInductive, PTL DEF RSpec

(* Nothing is lost between the writer and the callers: rio_writen,         *)
(* rio_read, rio_readlineb and rio_readnb, for every size of the buffers.  *)
THEOREM NothingIsLost == RSpec => []NothingLost
<1>1. RioInductive => NothingLost
  BY Joined DEF RioInductive, NothingLost
<1> QED BY <1>1, RioInvariant, PTL

(* No copy of rio_read or rio_readlineb goes past the end of its buffer.   *)
THEOREM NothingOverflows == RSpec => NoOverflow
<1> DEFINE Fits == /\ Len(rio_buf') <= BufSize
                   /\ call = "readlineb" => Len(usrbuf') < len
                   /\ call = "readnb" => Len(usrbuf') <= len
<1>1. RioInductive /\ RioInductive' /\ [RNext]_rvars => [Fits]_rvars
  <2> SUFFICES ASSUME RioInductive, RioInductive', RNext PROVE Fits
    OBVIOUS
  <2>1. Len(rio_buf') <= BufSize
    BY DEF RioInductive
  <2>2. /\ len \in Nat /\ len >= 1 /\ Len(usrbuf) \in Nat
        /\ call = "readlineb" => Len(usrbuf) < len
        /\ call = "readnb" => Len(usrbuf) < len
    <3>1. usrbuf \in Seq(Chars) /\ len \in Nat /\ len >= 1
      BY LengthsAssumption DEF RioInductive, RioTypeOK
    <3>2. usrbuf = <<>> => Len(usrbuf) = 0
      OBVIOUS
    <3> QED BY <3>1, <3>2 DEF RioInductive, CallGoesOn
  <2>3. CASE Writer
    BY <2>1, <2>2, <2>3 DEF Writer, Write, WriteCall, CloseWriter
  <2>4. CASE Call
    BY <2>1, <2>4 DEF Call
  <2>5. CASE Refill
    BY <2>1, <2>2, <2>5 DEF Refill
  <2>6. CASE CopyToLine
    <3>1. Len(usrbuf') = Len(usrbuf) + 1 /\ call = "readlineb" /\ len > 1
      BY <2>6, CopyToLineKeeps DEF CopyToLine
    <3>2. Len(usrbuf) + 1 < len
      BY <3>1, <2>2 DEF RioInductive, CallGoesOn
    <3> QED BY <2>1, <3>1, <3>2
  <2>7. CASE NoRoom
    BY <2>1, <2>2, <2>7 DEF NoRoom
  <2>8. CASE CopyToUser
    BY <2>1, <2>8, CopyToUserKeeps DEF CopyToUser
  <2>9. CASE ReadEOF
    BY <2>1, <2>2, <2>9 DEF ReadEOF
  <2> QED BY <2>3, <2>4, <2>5, <2>6, <2>7, <2>8, <2>9 DEF RNext, Next, Reads
<1> QED BY <1>1, RioInvariant, PTL DEF RSpec, NoOverflow

-----------------------------------------------------------------------------
(* The refinement of ByteStream. *)

LEMMA ReturnsNext ==
    ASSUME RioInductive, Reads, Returned,
           unread' = IF Returned THEN Drop(unread, Len(got')) ELSE unread
    PROVE  /\ Stream!Return(Len(usrbuf'))
           /\ Len(usrbuf') \in 0 .. Len(unread)
           /\ \A i \in 1 .. Len(usrbuf') : unread[i] = usrbuf'[i]
<1>1. /\ unread = usrbuf' \o Behind' /\ got' = usrbuf' /\ unread' = Behind' /\ ReadKeeps
      /\ RioInductive'
  BY ReadStep
<1>2. usrbuf' \in Seq(Chars) /\ Behind' \in Seq(Chars) /\ unread' \in Seq(Chars)
  BY <1>1 DEF RioInductive, RioTypeOK
<1>3. Take(unread, Len(usrbuf')) = usrbuf' /\ Drop(unread, Len(usrbuf')) = Behind'
  BY <1>1, <1>2, TakeDropOfConcat
<1>4. /\ Len(unread) = Len(usrbuf') + Len(Behind')
      /\ \A i \in 1 .. Len(usrbuf') : unread[i] = usrbuf'[i]
  BY <1>1, <1>2, ConcatProperties
<1>5. call' = "none" /\ len' = len
  BY <1>1 DEF Returned, ReadKeeps
<1> QED BY <1>1, <1>2, <1>3, <1>4, <1>5 DEF Take, Drop, Stream!Return

LEMMA LineReturns ==
    ASSUME RioInductive, CopyToLine, Returned,
           unread' = IF Returned THEN Drop(unread, Len(got')) ELSE unread
    PROVE  Stream!ReadLine
<1>1. /\ Stream!Return(Len(usrbuf')) /\ Len(usrbuf') \in 0 .. Len(unread)
      /\ \A i \in 1 .. Len(usrbuf') : unread[i] = usrbuf'[i]
  BY ReturnsNext DEF Reads
<1>2. /\ usrbuf' = Append(usrbuf, Head(rio_buf)) /\ Len(usrbuf') = Len(usrbuf) + 1
      /\ call = "readlineb" /\ len > 1
  BY CopyToLineKeeps DEF CopyToLine
<1>3. /\ usrbuf \in Seq(Chars) /\ Len(usrbuf) \in Nat /\ len \in Lengths /\ len \in Nat
  BY LengthsAssumption DEF RioInductive, RioTypeOK
<1>4. Len(usrbuf) + 1 < len /\ \A i \in 1 .. Len(usrbuf) : usrbuf[i] # "nl"
  BY <1>2, <1>3 DEF RioInductive, CallGoesOn
<1>5. \A i \in 1 .. Len(usrbuf) : usrbuf'[i] = usrbuf[i]
  BY <1>2, <1>3
<1>6. LineEnds(usrbuf')
  BY DEF CopyToLine, Returned
<1>7. Stream!Line(Len(usrbuf'), len)
  <2>1. Len(usrbuf') < len
    BY <1>2, <1>3, <1>4
  <2>2. \A i \in 1 .. Len(usrbuf') - 1 : unread[i] # "nl"
    BY <1>1, <1>2, <1>3, <1>4, <1>5
  <2>3. Len(usrbuf') = len - 1 \/ (Len(usrbuf') > 0 /\ unread[Len(usrbuf')] = "nl")
    BY <1>1, <1>2, <1>3, <1>6 DEF LineEnds
  <2> QED BY <2>1, <2>2, <2>3 DEF Stream!Line
<1> QED BY <1>1, <1>2, <1>7 DEF Stream!ReadLine

LEMMA NoRoomReturns ==
    ASSUME RioInductive, NoRoom, Returned,
           unread' = IF Returned THEN Drop(unread, Len(got')) ELSE unread
    PROVE  Stream!ReadLine
<1>1. Stream!Return(Len(usrbuf')) /\ Len(usrbuf') \in 0 .. Len(unread)
  BY ReturnsNext DEF Reads
<1>2. Len(usrbuf') = 0 /\ len = 1 /\ call = "readlineb"
  BY NoRoomKeeps, EmptySeq DEF NoRoom, RioInductive, RioTypeOK
<1>3. Stream!Line(Len(usrbuf'), len)
  BY <1>2 DEF Stream!Line
<1> QED BY <1>1, <1>2, <1>3 DEF Stream!ReadLine

LEMMA BlockReturns ==
    ASSUME RioInductive, CopyToUser, Returned,
           unread' = IF Returned THEN Drop(unread, Len(got')) ELSE unread
    PROVE  Stream!ReadN
<1>1. Stream!Return(Len(usrbuf')) /\ Len(usrbuf') \in 0 .. Len(unread)
  BY ReturnsNext DEF Reads
<1>2. Len(usrbuf') = len /\ call = "readnb"
  BY DEF CopyToUser, Returned
<1> QED BY <1>1, <1>2 DEF Stream!ReadN

LEMMA EOFReturns ==
    ASSUME RioInductive, ReadEOF, Returned,
           unread' = IF Returned THEN Drop(unread, Len(got')) ELSE unread
    PROVE  Stream!Next
<1>1. /\ Stream!Return(Len(usrbuf')) /\ Len(usrbuf') \in 0 .. Len(unread)
      /\ \A i \in 1 .. Len(usrbuf') : unread[i] = usrbuf'[i]
  BY ReturnsNext DEF Reads
<1>2. usrbuf' = usrbuf /\ usrbuf \in Seq(Chars) /\ len \in Lengths /\ len \in Nat
  BY ReadEOFKeeps, LengthsAssumption DEF RioInductive, RioTypeOK
<1>3. Len(unread) = Len(usrbuf')
  <2>1. unread = usrbuf \o <<>>
    BY ReadEOFKeeps DEF ReadEOF, RioInductive, Copied
  <2> QED BY <1>2, <2>1, ConcatEmptySeq
<1>4. CASE call = "readlineb"
  <2>1. /\ Len(usrbuf) + 1 < len \/ (len = 1 /\ usrbuf = <<>>)
        /\ \A i \in 1 .. Len(usrbuf) : usrbuf[i] # "nl"
    BY <1>4 DEF RioInductive, CallGoesOn
  <2>2. len > 1
    BY <1>4 DEF ReadEOF
  <2>3. Len(usrbuf) < len /\ Len(usrbuf) \in Nat
    BY <1>2, <2>1, <2>2
  <2>4. Stream!Line(Len(usrbuf'), len)
    BY <1>1, <1>2, <1>3, <2>1, <2>3 DEF Stream!Line
  <2> QED BY <1>1, <1>4, <2>4 DEF Stream!ReadLine, Stream!Next
<1>5. CASE call = "readnb"
  <2>1. Len(usrbuf) < len /\ Len(usrbuf) \in Nat
    BY <1>2, <1>5 DEF RioInductive, CallGoesOn
  <2>2. (IF len <= Len(unread) THEN len ELSE Len(unread)) = Len(usrbuf')
    BY <1>2, <1>3, <2>1
  <2> QED BY <1>1, <1>5, <2>2 DEF Stream!ReadN, Stream!Next
<1> QED BY <1>4, <1>5 DEF ReadEOF

LEMMA StreamStep == RioInductive /\ [RNext]_rvars => [Stream!Next]_(Stream!vars)
<1> SUFFICES ASSUME RioInductive, RNext PROVE Stream!Next \/ UNCHANGED Stream!vars
  BY DEF rvars, Stream!vars
<1>1. unread' = IF Returned THEN Drop(unread, Len(got')) ELSE unread
  BY DEF RNext
<1>2. CASE Writer
  <2>1. unread' = unread /\ got' = got
    BY <1>1, <1>2, Outside
  <2>2. call' = call /\ len' = len
    BY <1>2 DEF Writer, Write, WriteCall, CloseWriter
  <2> QED BY <2>1, <2>2 DEF Stream!vars
<1>3. CASE Call
  <2>1. unread' = unread /\ got' = got
    BY <1>1, <1>3, Outside
  <2> QED BY <1>3, <2>1 DEF Call, Stream!Call, Stream!Next
<1>4. CASE Reads
  <2>1. CASE Returned
    <3>1. ~Refill
      BY <2>1 DEF Refill, Returned
    <3> QED BY <1>1, <1>4, <2>1, <3>1, LineReturns, NoRoomReturns, BlockReturns, EOFReturns
            DEF Reads, Stream!Next
  <2>2. CASE ~Returned
    <3>1. call # "none"
      BY <1>4 DEF Reads, Refill, CopyToLine, NoRoom, CopyToUser, ReadEOF
    <3>2. call' # "none" /\ ReadKeeps
      BY <1>1, <1>4, <2>2, <3>1, ReadStep DEF Returned
    <3>3. call' = call
      BY <1>4, <3>2 DEF Reads, Refill, CopyToLine, NoRoom, CopyToUser, ReadEOF, Returns
    <3> QED BY <1>1, <2>2, <3>2, <3>3 DEF ReadKeeps, Stream!vars
  <2> QED BY <2>1, <2>2
<1> QED BY <1>2, <1>3, <1>4 DEF RNext, Next

(* csapp.c's calls, over any chunks, do what ByteStream's do: a call of    *)
(* rio_readlineb returns the next line, or the maxlen - 1 bytes of it that *)
(* it has room for, and one of rio_readnb the n bytes it asks for, less    *)
(* only at the end of the stream, for every size of the buffers.           *)
THEOREM RioIsByteStream == RSpec => ImplementsByteStream
<1>1. RInit => Stream!Init
  BY DEF RInit, Init, Stream!Init
<1>2. RioInductive /\ [RNext]_rvars => [Stream!Next]_(Stream!vars)
  BY StreamStep
<1> QED BY <1>1, <1>2, RioInvariant, PTL DEF RSpec, ImplementsByteStream, Stream!Spec

=============================================================================
