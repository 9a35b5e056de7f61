-------------------------------- MODULE Rio --------------------------------
(***************************************************************************)
(* The robust I/O package of csapp.c over one connection: a writer calls   *)
(* rio_writen for one part of its bytes after the other and closes; a      *)
(* reader calls rio_readlineb and rio_readnb in any order.  The kernel     *)
(* takes and gives as many bytes of a write or a read as it likes, and     *)
(* signals interrupt both calls.                                           *)
(***************************************************************************)
EXTENDS Naturals, Sequences

CONSTANTS
    Chars,      \* the bytes there are; "nl" is a newline
    Streams,    \* the sequences of bytes a writer may write
    Lengths,    \* the reader's maxlen and n
    BufSize,    \* RIO_BUFSIZE
    Capacity    \* bytes the kernel holds

ASSUME StreamsAssumption == Streams \subseteq Seq(Chars)
ASSUME LengthsAssumption == Lengths \subseteq Nat \ {0}
ASSUME BufSizeAssumption == BufSize \in Nat \ {0}
ASSUME CapacityAssumption == Capacity \in Nat \ {0}

VARIABLES
    bufp,       \* rio_writen: what is left of the bytes it was called with
    unsent,     \* the bytes of the calls to come
    closed,     \* the writer has closed the connection
    wire,       \* the bytes the kernel holds
    rio_buf,    \* the bytes of the reader's buffer from rio_bufptr on
    call,       \* the reader's call: "none", "readlineb" or "readnb"
    len,        \* its maxlen or n
    usrbuf,     \* what it has copied
    got         \* what the last call returned

writerVars == <<bufp, unsent, closed>>
vars == <<bufp, unsent, closed, wire, rio_buf, call, len, usrbuf, got>>

Drop(s, n) == SubSeq(s, n + 1, Len(s))
Take(s, n) == SubSeq(s, 1, n)
Least(x, y) == IF x <= y THEN x ELSE y

-----------------------------------------------------------------------------
(* rio_writen. *)

(* Faulty: bufp stays where it is after a short count.                     *)
Write_KeepsPointer ==
    /\ bufp # <<>> /\ Len(wire) < Capacity
    /\ \E n \in 1 .. Least(Len(bufp), Capacity - Len(wire)) :
         /\ wire' = wire \o Take(bufp, n)
         /\ bufp' = Take(bufp, Len(bufp) - n)
    /\ UNCHANGED <<unsent, closed, rio_buf, call, len, usrbuf, got>>

(* write takes n bytes; interrupted by a signal it takes none and is       *)
(* called again.                                                           *)
Write ==
    /\ bufp # <<>> /\ Len(wire) < Capacity
    /\ \E n \in 1 .. Least(Len(bufp), Capacity - Len(wire)) :
         /\ wire' = wire \o Take(bufp, n)
         /\ bufp' = Drop(bufp, n)
    /\ UNCHANGED <<unsent, closed, rio_buf, call, len, usrbuf, got>>

(* rio_writen is called with the next bytes. *)
WriteCall ==
    /\ bufp = <<>>
    /\ \E n \in 1 .. Len(unsent) : bufp' = Take(unsent, n) /\ unsent' = Drop(unsent, n)
    /\ UNCHANGED <<closed, wire, rio_buf, call, len, usrbuf, got>>

CloseWriter ==
    /\ bufp = <<>> /\ unsent = <<>> /\ ~closed /\ closed' = TRUE
    /\ UNCHANGED <<bufp, unsent, wire, rio_buf, call, len, usrbuf, got>>

-----------------------------------------------------------------------------
(* rio_read: an empty buffer is filled first; interrupted by a signal, read *)
(* is called again.                                                        *)

Refill ==
    /\ call # "none" /\ rio_buf = <<>> /\ wire # <<>>
    /\ \E n \in 1 .. Least(Len(wire), BufSize) :
         rio_buf' = Take(wire, n) /\ wire' = Drop(wire, n)
    /\ UNCHANGED <<writerVars, call, len, usrbuf, got>>

AtEOF == rio_buf = <<>> /\ wire = <<>> /\ closed

-----------------------------------------------------------------------------

Call ==
    /\ call = "none" /\ call' \in {"readlineb", "readnb"} /\ len' \in Lengths
    /\ usrbuf' = <<>>
    /\ UNCHANGED <<writerVars, wire, rio_buf, got>>

Returns(bytes) == got' = bytes /\ call' = "none"

(* Faulty: maxlen bytes are copied. *)
LineEnds_NoRoomForNull(bytes) == bytes[Len(bytes)] = "nl" \/ Len(bytes) = len

(* rio_readlineb's loop ends after a newline, or after maxlen - 1 bytes.   *)
LineEnds(bytes) == bytes[Len(bytes)] = "nl" \/ Len(bytes) = len - 1

(* One byte for rio_readlineb. *)
CopyToLine ==
    /\ call = "readlineb" /\ rio_buf # <<>> /\ len > 1
    /\ rio_buf' = Tail(rio_buf) /\ usrbuf' = Append(usrbuf, Head(rio_buf))
    /\ IF LineEnds(usrbuf') THEN Returns(usrbuf') ELSE UNCHANGED <<call, got>>
    /\ UNCHANGED <<writerVars, wire, len>>

(* A maxlen of 1 has no room for a byte. *)
NoRoom ==
    /\ call = "readlineb" /\ len = 1 /\ Returns(<<>>)
    /\ UNCHANGED <<writerVars, wire, rio_buf, len, usrbuf>>

(* Faulty: rio_readnb returns what one rio_read gave it.                   *)
CopyToUser_ReturnsShort ==
    /\ call = "readnb" /\ rio_buf # <<>>
    /\ LET n == Least(len - Len(usrbuf), Len(rio_buf))
       IN  rio_buf' = Drop(rio_buf, n) /\ usrbuf' = usrbuf \o Take(rio_buf, n)
    /\ Returns(usrbuf') /\ UNCHANGED <<writerVars, wire, len>>

(* As many bytes as the buffer has for rio_readnb. *)
CopyToUser ==
    /\ call = "readnb" /\ rio_buf # <<>>
    /\ LET n == Least(len - Len(usrbuf), Len(rio_buf))
       IN  rio_buf' = Drop(rio_buf, n) /\ usrbuf' = usrbuf \o Take(rio_buf, n)
    /\ IF Len(usrbuf') = len THEN Returns(usrbuf') ELSE UNCHANGED <<call, got>>
    /\ UNCHANGED <<writerVars, wire, len>>

(* Faulty: a call that has copied something goes on at the end of file.    *)
ReadEOF_OnlyEmpty ==
    /\ call = "readnb" \/ (call = "readlineb" /\ len > 1)
    /\ AtEOF /\ usrbuf = <<>> /\ Returns(usrbuf)
    /\ UNCHANGED <<writerVars, wire, rio_buf, len, usrbuf>>

(* End of file: what was copied so far is returned. *)
ReadEOF ==
    /\ call = "readnb" \/ (call = "readlineb" /\ len > 1)
    /\ AtEOF /\ Returns(usrbuf)
    /\ UNCHANGED <<writerVars, wire, rio_buf, len, usrbuf>>

-----------------------------------------------------------------------------

Init ==
    /\ unsent \in Streams /\ bufp = <<>>
    /\ closed = FALSE /\ wire = <<>> /\ rio_buf = <<>>
    /\ call = "none" /\ len \in Lengths /\ usrbuf = <<>> /\ got = <<>>

Writer == Write \/ WriteCall \/ CloseWriter
Reads  == Refill \/ CopyToLine \/ NoRoom \/ CopyToUser \/ ReadEOF

Next == Writer \/ Call \/ Reads

(* The writer and a call that has begun go on; signals do not interrupt    *)
(* them for ever.                                                          *)
Fairness == WF_vars(Writer) /\ WF_vars(Reads)

Spec == Init /\ [][Next]_vars /\ Fairness
=============================================================================
