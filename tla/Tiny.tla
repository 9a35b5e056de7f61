-------------------------------- MODULE Tiny --------------------------------
(***************************************************************************)
(* The Tiny web server (tiny.c): one connection after the other, static    *)
(* files and CGI programs.                                                 *)
(***************************************************************************)
EXTENDS Connections

VARIABLES
    t_pc,      \* "accept", "request", "first header", "headers", "serve",
               \* "wait" or "exited"
    t_conn,    \* the connection being served
    t_line,    \* its request line, as doit has scanned it
    cgi        \* the CGI program: "none", "running" or "ended"

tinyVars == <<t_pc, t_conn, t_line, cgi>>

TinyInit == t_pc = "accept" /\ t_conn = "none" /\ t_line = <<>> /\ cgi = "none"

-----------------------------------------------------------------------------

(* The connection is closed and the next one accepted. *)
t_Close ==
    /\ CloseFar(t_conn)
    /\ t_pc' = "accept" /\ t_conn' = "none" /\ t_line' = <<>> /\ cgi' = "none"

t_Dies ==
    /\ CloseAllOf("tiny", t_conn)
    /\ t_pc' = "exited" /\ t_conn' = "none" /\ t_line' = <<>> /\ cgi' = "none"

(* Rio_writen to the connection, and then the steps of done: a client that *)
(* has closed may kill the server.                                         *)
t_Answers(lines) ==
    \/ Writes(t_conn, lines) /\ t_Close /\ UNCHANGED <<up, near, queue, listening>>
    \/ near[t_conn] = "closed" /\ t_Dies /\ UNCHANGED <<up, down, near>>

(* What was written stays written when the next call fails and exits.      *)
t_Fails(lines) == Writes(t_conn, lines) /\ t_Dies /\ UNCHANGED <<up, near>>

t_Accept ==
    /\ t_pc = "accept" /\ \E c \in Conns : Accepts("tiny", c) /\ t_conn' = c
    /\ t_pc' = "request" /\ UNCHANGED <<t_line, cgi>>

(* doit: the request line. *)
t_Request ==
    /\ t_pc = "request" /\ HasLine(t_conn)
    /\ \E line \in Scanned(Head(up[t_conn]).line) :
         IF line.method # "GET"
         THEN t_Answers(ErrorPage("501"))
         ELSE /\ ReadsLine(t_conn) /\ t_line' = line /\ t_pc' = "first header"
              /\ UNCHANGED <<down, near, far, queue, listening, t_conn, cgi>>

t_NoRequest ==
    /\ t_pc = "request" /\ AtEOF(t_conn) /\ t_Close
    /\ UNCHANGED <<up, down, near, queue, listening>>

(* read_requesthdrs, up to the empty line.  At the end of file its buffer  *)
(* keeps the last line, and it reads for ever.                             *)
t_Header ==
    /\ t_pc \in {"first header", "headers"} /\ HasLine(t_conn) /\ ReadsLine(t_conn)
    /\ t_pc' = IF Head(up[t_conn]) = CRLF THEN "serve" ELSE "headers"
    /\ UNCHANGED <<down, near, far, queue, listening, t_conn, t_line, cgi>>

(* At once at the end of file: the buffer is not initialised, and may hold *)
(* the empty line of the request before.                                   *)
t_NoHeader ==
    /\ t_pc = "first header" /\ AtEOF(t_conn) /\ t_pc' \in {"headers", "serve"}
    /\ UNCHANGED <<netVars, t_conn, t_line, cgi>>

(* parse_uri copies a uri that was not written: it may be no string.       *)
t_Garbled ==
    /\ t_pc = "serve" /\ t_line.words < 2
    /\ t_Dies /\ UNCHANGED <<up, down, near>>

(* doit's error pages, or serve_static: when Open fails, or Mmap, as it    *)
(* does for an empty file, the head is already written and Tiny exits.     *)
t_Serve ==
    /\ t_pc = "serve" /\ t_line.url.file # "cgi"
    /\ \/ t_Answers(CASE t_line.url.file = "static"    -> StaticReply
                      [] t_line.url.file = "missing"   -> ErrorPage("404")
                      [] t_line.url.file = "forbidden" -> ErrorPage("403"))
       \/ t_line.url.file = "static" /\ t_Fails(StaticHead)

(* Faulty: the CGI program is started before the reply's head is written.  *)
serve_dynamic_ForkFirst ==
    /\ t_pc = "serve" /\ t_line.url.file = "cgi"
    /\ \/ cgi = "none" /\ cgi' = "running" /\ UNCHANGED <<down, t_pc>>
       \/ cgi # "none" /\ Writes(t_conn, DynamicHead) /\ t_pc' = "wait" /\ cgi' = cgi
    /\ UNCHANGED <<up, near, far, queue, listening, t_conn, t_line>>

(* serve_dynamic: the reply's head, then a child runs the program, unless  *)
(* Fork fails.                                                             *)
serve_dynamic ==
    /\ t_pc = "serve" /\ t_line.url.file = "cgi"
    /\ \/ /\ Writes(t_conn, DynamicHead) /\ t_pc' = "wait" /\ cgi' = "running"
          /\ UNCHANGED <<up, near, far, queue, listening, t_conn, t_line>>
       \/ t_Fails(DynamicHead)
       \/ near[t_conn] = "closed" /\ t_Dies /\ UNCHANGED <<up, down, near>>

(* The program writes the rest of the reply to the connection; adder       *)
(* crashes when it has no two arguments, and nothing is written then.      *)
cgi_Ends ==
    /\ cgi = "running" /\ cgi' = "ended"
    /\ Writes(t_conn, IF t_line.url.arguments THEN CgiOutput ELSE <<>>)
    /\ UNCHANGED <<up, near, far, queue, listening, t_pc, t_conn, t_line>>

(* Wait returns and the connection is closed. *)
t_Wait ==
    /\ t_pc = "wait" /\ cgi = "ended" /\ t_Close
    /\ UNCHANGED <<up, down, near, queue, listening>>

TinyStep ==
    \/ t_Accept \/ t_Request \/ t_NoRequest \/ t_Header \/ t_NoHeader
    \/ t_Garbled \/ t_Serve \/ serve_dynamic \/ t_Wait
=============================================================================
