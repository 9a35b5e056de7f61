------------------------------- MODULE Proxy -------------------------------
(***************************************************************************)
(* The proxy of proxy.c: main and forward, one client after the other.     *)
(* proxy_forw.msg is a sequence of lines, whose sizes stand for their      *)
(* lengths in bytes; the empty line is the shortest.                       *)
(***************************************************************************)
EXTENDS Connections

CONSTANTS
    Sizes,    \* the sizes of the headers, by name
    MAXLINE   \* the size of the message buffer

(* What clients send and the proxy forwards. *)
MessageLines ==
    [type : {"request"}, line : RequestLines] \cup [type : {"header"}, name : DOMAIN Sizes] \cup {CRLF}

(* The request line fits: proxy.c refuses lines of 1024 bytes, MAXLINE is  *)
(* 8192.                                                                   *)
ASSUME MessageAssumption ==
    /\ MAXLINE \in Nat /\ MAXLINE > 2 /\ Sizes \in [DOMAIN Sizes -> Nat \ {0}]
    /\ {"Host", "User-Agent", "Connection", "Proxy-Connection"} \subseteq DOMAIN Sizes

VARIABLES
    pc,              \* "accept", "request", "first header", "headers", "connect",
                     \* "send", "reply", "entity" or "exited"
    client,          \* the connection being served
    buf,             \* the line buffer
    flag_host_hdr,
    msg, nleft       \* proxy_forw

proxyVars == <<pc, client, buf, flag_host_hdr, msg, nleft>>

ProxyInit ==
    /\ pc = "accept" /\ client = "none" /\ buf = Nothing /\ flag_host_hdr = 0
    /\ msg = <<>> /\ nleft = 0

-----------------------------------------------------------------------------
(* The message. *)

Size(line) ==
    CASE line.type = "header"  -> Sizes[line.name]
      [] line.type = "request" -> 2
      [] line.type = "crlf"    -> 1
      [] line.type = "nothing" -> 0

(* A line that does not fit is dropped: forward tests append_msg's result  *)
(* with < 0, and it returns 1.                                             *)
append_msg(m, line) ==
    IF Size(line) > m.nleft \/ line = Nothing THEN m
    ELSE [msg |-> Append(m.msg, line), nleft |-> m.nleft - Size(line)]

proxy_forw == [msg |-> msg, nleft |-> nleft]

Dropped == {"User-Agent", "Connection", "Proxy-Connection"}

(* check_header: its result, and the entry, which is emptied if it is one  *)
(* the proxy writes itself.                                                *)
check_header(line) == IF line = Header("Host") THEN 1 ELSE 0

(* Faulty: the client's Proxy-Connection header is passed on. *)
CheckedEntry_KeepsOne(line) ==
    IF line \in {Header("User-Agent"), Header("Connection")} THEN Nothing ELSE line

CheckedEntry(line) == IF \E name \in Dropped : line = Header(name) THEN Nothing ELSE line

(* Faulty: the empty line is left out. *)
Finished_NoEmptyLine(m, flag) ==
    LET add(n, line) == append_msg(n, line)
        host == IF flag = 0 THEN add(m, Header("Host")) ELSE m
    IN  add(add(add(host, Header("User-Agent")), Header("Connection")),
            Header("Proxy-Connection"))

(* What is appended after the client's headers. *)
Finished(m, flag) ==
    LET add(n, line) == append_msg(n, line)
        host == IF flag = 0 THEN add(m, Header("Host")) ELSE m
    IN  add(add(add(add(host, Header("User-Agent")), Header("Connection")),
                Header("Proxy-Connection")), CRLF)

-----------------------------------------------------------------------------

Done ==
    /\ pc' = "accept" /\ client' = "none" /\ buf' = Nothing /\ flag_host_hdr' = 0

(* forward returns and main closes the connection. *)
CloseClient == CloseFar(client) /\ Done

(* unix_error, gai_error or SIGPIPE: every descriptor is closed.           *)
Exits ==
    /\ CloseAllOf("proxy", client)
    /\ near' = [near EXCEPT !["forward"] = IF @ = "open" THEN "closed" ELSE @]
    /\ pc' = "exited" /\ client' = "none" /\ buf' = Nothing /\ flag_host_hdr' = 0
    /\ msg' = <<>> /\ nleft' = 0

p_Accept ==
    /\ pc = "accept" /\ \E c \in Clients : Accepts("proxy", c) /\ client' = c
    /\ pc' = "request" /\ UNCHANGED <<buf, flag_host_hdr, msg, nleft>>

(* Faulty: the connection stays open after an error page.                  *)
clienterror_Leaks(errnum) ==
    /\ Writes(client, ErrorPage(errnum)) /\ Done
    /\ UNCHANGED <<up, near, far, queue, listening, msg, nleft>>

(* The client may have closed. *)
clienterror(errnum) ==
    \/ /\ Writes(client, ErrorPage(errnum)) /\ CloseClient
       /\ UNCHANGED <<up, near, queue, listening, msg, nleft>>
    \/ near[client] = "closed" /\ Exits /\ UNCHANGED <<up, down>>

(* The request line: an error page, or the first line of the message.      *)
p_Request ==
    /\ pc = "request" /\ HasLine(client)
    /\ \E line \in Understood(Head(up[client]).line) :
         LET m == append_msg([msg |-> msg, nleft |-> MAXLINE - 1], Forwarded(line))
         IN  IF RequestError(line) # "none"
             THEN clienterror(RequestError(line))
             ELSE /\ ReadsLine(client) /\ msg' = m.msg /\ nleft' = m.nleft
                  /\ buf' = Forwarded(line) /\ pc' = "first header" /\ flag_host_hdr' = 0
                  /\ UNCHANGED <<down, near, far, queue, listening, client>>

(* What tmp holds may be no string, or one too long for host: a crash.     *)
p_Garbled ==
    /\ pc = "request" /\ HasLine(client)
    /\ LET line == Head(up[client]).line
       IN  parse_req_line(line) = "none" /\ line.url.scheme = "cut short"
    /\ Exits /\ UNCHANGED <<up, down>>

p_NoRequest ==
    /\ pc = "request" /\ AtEOF(client) /\ CloseClient
    /\ UNCHANGED <<up, down, near, queue, listening, msg, nleft>>

(* A line is read into buf, or buf keeps what it holds at the end of file. *)
ReadsInto(line) ==
    \/ HasLine(client) /\ ReadsLine(client) /\ line = Head(up[client])
    \/ AtEOF(client) /\ UNCHANGED up /\ line = buf

Checks(line) ==
    /\ flag_host_hdr' = check_header(line)
    /\ LET m == append_msg(proxy_forw, CheckedEntry(line))
       IN  msg' = m.msg /\ nleft' = m.nleft
    /\ buf' = CheckedEntry(line) /\ pc' = "headers"

(* The first line after the request line is not tested for being empty.    *)
p_FirstHeader ==
    /\ pc = "first header"
    /\ \E line \in {buf} \cup (IF HasLine(client) THEN {Head(up[client])} ELSE {}) :
         ReadsInto(line) /\ Checks(line)
    /\ UNCHANGED <<down, near, far, queue, listening, client>>

p_Header ==
    /\ pc = "headers"
    /\ \E line \in {buf} \cup (IF HasLine(client) THEN {Head(up[client])} ELSE {}) :
         /\ ReadsInto(line)
         /\ IF line # CRLF THEN Checks(line)
            ELSE LET m == Finished(proxy_forw, flag_host_hdr)
                 IN  /\ msg' = m.msg /\ nleft' = m.nleft
                     /\ buf' = CRLF /\ pc' = "connect" /\ flag_host_hdr' = flag_host_hdr
    /\ UNCHANGED <<down, near, far, queue, listening, client>>

(* Open_clientfd; a failure ends the program.                              *)
p_Connect ==
    /\ pc = "connect"
    /\ \/ /\ Connects("forward", "tiny") /\ pc' = "send"
          /\ UNCHANGED <<up, down, listening, client, buf, flag_host_hdr, msg, nleft>>
       \/ Exits /\ UNCHANGED <<up, down>>

(* The message is sent and cleared.                                        *)
p_Send ==
    /\ pc = "send"
    /\ \/ /\ up' = [up EXCEPT !["forward"] = @ \o msg] /\ msg' = <<>> /\ pc' = "reply"
          /\ UNCHANGED <<near, far, queue, listening, client, buf, flag_host_hdr, nleft>>
       \/ far["forward"] = "closed" /\ Exits /\ UNCHANGED up
    /\ UNCHANGED down

(* The lines of the reply's head are passed on, up to the empty one.       *)
p_Reply ==
    /\ pc = "reply" /\ ReplyHasLine("forward")
    /\ LET line == Head(down["forward"])
       IN  \/ /\ down' = [down EXCEPT !["forward"] = Tail(@), ![client] = Append(@, line)]
              /\ buf' = line /\ pc' = IF line = CRLF THEN "entity" ELSE "reply"
              /\ UNCHANGED <<near, far, queue, listening, client, flag_host_hdr, msg, nleft>>
           \/ near[client] = "closed" /\ Exits /\ UNCHANGED down
    /\ UNCHANGED up

p_ReplyEnds ==
    /\ pc = "reply" /\ ReplyAtEOF("forward") /\ pc' = "entity"
    /\ UNCHANGED <<netVars, client, buf, flag_host_hdr, msg, nleft>>

(* A socket cannot be mapped into memory: Mmap ends the program.           *)
p_Entity == pc = "entity" /\ Exits /\ UNCHANGED <<up, down>>

ProxyStep ==
    \/ p_Accept \/ p_Request \/ p_Garbled \/ p_NoRequest \/ p_FirstHeader \/ p_Header
    \/ p_Connect \/ p_Send \/ p_Reply \/ p_ReplyEnds \/ p_Entity
=============================================================================
