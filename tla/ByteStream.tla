----------------------------- MODULE ByteStream -----------------------------
(***************************************************************************)
(* What the robust I/O package promises: whatever the chunks in which the  *)
(* bytes of a connection are written, arrive and are read, a call of       *)
(* rio_readlineb returns the next line of the stream, as far as the call's *)
(* own maxlen has room for it, and one of rio_readnb the next n bytes.     *)
(***************************************************************************)
EXTENDS Naturals, Sequences

CONSTANTS
    Lengths,    \* the maxlen and n of the calls
    Streams     \* the streams, over "nl" and other bytes

VARIABLES
    rest,       \* the bytes not returned yet
    call,       \* the call to be answered: "none", "readlineb" or "readnb"
    len,        \* its maxlen or n
    got         \* what the last call returned

vars == <<rest, call, len, got>>

Call ==
    /\ call = "none" /\ call' \in {"readlineb", "readnb"} /\ len' \in Lengths
    /\ UNCHANGED <<rest, got>>

(* The call is answered with the next n bytes. *)
Return(n) ==
    /\ got' = SubSeq(rest, 1, n) /\ rest' = SubSeq(rest, n + 1, Len(rest))
    /\ call' = "none" /\ len' = len

(* The first n bytes are a line, or what maxlen has room for of one, with  *)
(* the terminating null, or the stream's last line without a newline.      *)
Line(n, maxlen) ==
    /\ n < maxlen
    /\ \A i \in 1 .. n - 1 : rest[i] # "nl"
    /\ n = maxlen - 1 \/ n = Len(rest) \/ (n > 0 /\ rest[n] = "nl")

ReadLine == call = "readlineb" /\ \E n \in 0 .. Len(rest) : Line(n, len) /\ Return(n)

(* As many bytes as were asked for, less only if the stream has no more.   *)
ReadN == call = "readnb" /\ Return(IF len <= Len(rest) THEN len ELSE Len(rest))

Init == rest \in Streams /\ call = "none" /\ len \in Lengths /\ got = <<>>

Next == Call \/ ReadLine \/ ReadN

Spec == Init /\ [][Next]_vars
=============================================================================
