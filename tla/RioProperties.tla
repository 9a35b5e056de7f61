--------------------------- MODULE RioProperties ---------------------------
(***************************************************************************)
(* What is checked of Rio: it is a byte stream, and its calls return.      *)
(***************************************************************************)
EXTENDS Rio

VARIABLE
    unread    \* what no call has returned yet, by what was returned so far

rvars == <<bufp, unsent, closed, wire, rio_buf, call, len, usrbuf, got, unread>>

Returned == call # "none" /\ call' = "none"

RInit == Init /\ unread = unsent
RNext == Next /\ unread' = IF Returned THEN Drop(unread, Len(got')) ELSE unread

RSpec == RInit /\ [][RNext]_rvars /\ WF_rvars(RNext /\ Writer) /\ WF_rvars(RNext /\ Reads)

-----------------------------------------------------------------------------

Copied == IF call = "none" THEN <<>> ELSE usrbuf

(* No byte is lost, repeated or moved on its way from the writer's buffer  *)
(* through the kernel and the reader's buffer to the caller, whatever the  *)
(* short counts and however line and block reads are mixed.                *)
NothingLost == unread = Copied \o rio_buf \o wire \o bufp \o unsent

(* The reader's buffer never holds more than its size, and no step of a    *)
(* call, the last one included, leaves more in the caller's buffer than it *)
(* has room for: a line leaves room for the null byte.                     *)
NoOverflow ==
    [][/\ Len(rio_buf') <= BufSize
       /\ call = "readlineb" => Len(usrbuf') < len
       /\ call = "readnb" => Len(usrbuf') <= len]_rvars

Stream == INSTANCE ByteStream WITH rest <- unread

(* Each call returns what it was called for: rio_readlineb the next line,  *)
(* with its newline and no byte after it, or the maxlen - 1 bytes of it    *)
(* there is room for; rio_readnb the next n bytes.  Either returns less    *)
(* only when the stream ends there, never because a read came up short.    *)
ImplementsByteStream == Stream!Spec

(* A call returns, at the latest when the writer has closed.               *)
CallsReturn == call # "none" ~> call = "none"
=============================================================================
