--------------------------- MODULE ProxyProperties ---------------------------
(***************************************************************************)
(* What is checked of the proxy and Tiny together.                         *)
(***************************************************************************)
EXTENDS ProxyLab, SequencesExt

-----------------------------------------------------------------------------
(* What a client's request says. *)

Line1(c)   == request[c][1].line
Length(c)  == Len(request[c])
HasHeader(c) == Length(c) > 2

IsKept(line) == line.type = "header" /\ line.name \notin Dropped
Count(line, lines) == Cardinality({i \in DOMAIN lines : lines[i] = line})

(* The headers the proxy passes on, and the place of one in the message.   *)
KeptAt(c)   == {i \in 2 .. Length(c) - 1 : IsKept(request[c][i])}
Place(c, i) == 1 + Cardinality({j \in KeptAt(c) : j <= i})

(* The room that the request line and the headers up to one take.          *)
Used(c) ==
    LET used[i \in 1 .. Length(c) - 1] ==
          IF i = 1 THEN 2
          ELSE used[i - 1] + IF i \in KeptAt(c) THEN Size(request[c][i]) ELSE 0
    IN  used

(* The message has room for the request and all the proxy adds.            *)
Fits(c) ==
    Used(c)[Length(c) - 1] + Sizes["Host"] + Sizes["User-Agent"] + Sizes["Connection"]
      + Sizes["Proxy-Connection"] + 1 <= MAXLINE - 1

(* The reply of Tiny to a line it has scanned. *)
TinyReplies(line) ==
    IF line.method # "GET" THEN {ErrorPage("501")}
    ELSE CASE line.url.file = "static"    -> {StaticReply}
           [] line.url.file = "missing"   -> {ErrorPage("404")}
           [] line.url.file = "forbidden" -> {ErrorPage("403")}
           [] line.url.file = "cgi"       -> {DynamicHead \o CgiOutput}

(* What the proxy may understand by a client's line, and forward.          *)
Accepted(c) == {line \in Understood(Line1(c)) : RequestError(line) = "none"}

(* The replies Tiny may give on a connection: one, unless the line has     *)
(* fewer than two words or its URL is cut short.                           *)
AskedReplies(d) ==
    IF d = "forward" THEN UNION {TinyReplies(Forwarded(line).line) : line \in Accepted(client)}
                     ELSE UNION {TinyReplies(line) : line \in Scanned(Line1(d))}

(* The replies a client may get from its server. *)
Replies(c) ==
    IF target[c] = "tiny" THEN AskedReplies(c)
    ELSE (UNION {TinyReplies(Forwarded(line).line) : line \in Accepted(c)})
           \cup {ErrorPage(RequestError(line)) : line \in Understood(Line1(c)) \ Accepted(c)}

-----------------------------------------------------------------------------

IsHost(line) == line = Header("Host")

(* Only the last of a client's headers may be a Host. *)
HostIsLast(c) == \A i \in KeptAt(c) : IsHost(request[c][i]) => i = Length(c) - 1

(* The message is a request: the headers of the client but those the       *)
(* proxy replaces, in their order and right after the request line, each   *)
(* of those once, a Host, and one empty line, the last.  There is one Host *)
(* only for clients that send none or send it last: flag_host_hdr is       *)
(* overwritten by every line.                                              *)
IsForwarded(c) ==
    /\ \A i \in KeptAt(c) : msg[Place(c, i)] = request[c][i]
    /\ \E i \in DOMAIN msg : IsHost(msg[i])
    /\ HostIsLast(c) => Count(Header("Host"), msg) = 1
    /\ \A name \in Dropped : Count(Header(name), msg) = 1
    /\ Count(CRLF, msg) = 1 /\ Last(msg) = CRLF

(* What the proxy sends is the client's request so changed, for every      *)
(* request that has a header and fits (forward, append_msg, check_header). *)
RequestForwarded ==
    pc = "send" /\ HasHeader(client) /\ Fits(client) =>
        /\ \E line \in Accepted(client) : msg[1] = Forwarded(line)
        /\ IsForwarded(client)

(* note_proxylab.md:22-24: the client's Host is forwarded if there is one, *)
(* and one is added if there is none.  So there is one, wherever it stands *)
(* among the client's headers (forward, check_header).                     *)
OneHost ==
    pc = "send" /\ HasHeader(client) /\ Fits(client)
        /\ Count(Header("Host"), request[client]) <= 1 =>
            Count(Header("Host"), msg) = 1

(* What a client gets is the beginning of the reply to its own request,    *)
(* line by line and in order, from whichever server and however the        *)
(* programs interleave (forward, clienterror, doit, serve_dynamic and its  *)
(* child), also while others send lines without a URL or with one cut      *)
(* short.  To these the code itself does not fix the reply: they may get   *)
(* that of any URL the unwritten buffer may hold, another client's too.    *)
RepliesMatch ==
    \A c \in Clients : \E reply \in Replies(c) : IsPrefix(down[c], reply)

(* No descriptor is left open: when the proxy accepts, every connection it *)
(* accepted is closed, and so is the one to the server.                    *)
DescriptorsClosed ==
    pc \in {"accept", "request"} =>
        /\ near["forward"] # "open"
        /\ \A c \in Clients \ {client} : target[c] = "proxy" => far[c] # "open"

-----------------------------------------------------------------------------
(***************************************************************************)
(* The inductive invariant of DescriptorsClosed and RepliesMatch.          *)
(***************************************************************************)

ProxyTypes ==
    /\ pc \in {"accept", "request", "first header", "headers", "connect", "send", "reply",
               "entity", "exited"}
    /\ client \in Clients \cup {"none"}
    /\ pc \in {"first header", "headers"} => buf \in MessageLines \cup {Nothing}
    /\ msg \in Seq(MessageLines)
    /\ t_pc \in {"accept", "request", "first header", "headers", "serve", "wait", "exited"}
    /\ t_conn \in Conns \cup {"none"} /\ cgi \in {"none", "running", "ended"}
    /\ up \in [Conns -> Seq(MessageLines)] /\ down \in [Conns -> Seq(ReplyLines)]
    /\ near \in [Conns -> {"none", "open", "closed"}]
    /\ far \in [Conns -> {"none", "queued", "open", "closed"}]
    /\ queue \in [Servers -> Seq(Conns)]
    /\ target \in [Clients -> Servers] /\ request \in [Clients -> Requests]
    /\ sent \in [Clients -> Nat] /\ \A c \in Clients : sent[c] <= Len(request[c])

(* The server a connection goes to, and the one a server is busy with. *)
ServerOf(d) == IF d = "forward" THEN "tiny" ELSE target[d]
Serving(s)  == IF s = "proxy" THEN client ELSE t_conn

(* A connection is made once; a server holds open the one it serves and no *)
(* other, and those in its queue wait for it.                              *)
Connected ==
    /\ \A d \in Conns : near[d] = "none" <=> far[d] = "none"
    /\ \A d \in Conns : far[d] = "open" => Serving(ServerOf(d)) = d
    /\ \A s \in Servers : Serving(s) # "none" =>
         ServerOf(Serving(s)) = s /\ far[Serving(s)] = "open"
    /\ client = "none" <=> pc \in {"accept", "exited"}
    /\ t_conn = "none" <=> t_pc \in {"accept", "exited"}

Queued ==
    \A s \in Servers :
        /\ \A i \in 1 .. Len(queue[s]) : ServerOf(queue[s][i]) = s /\ far[queue[s][i]] = "queued"
        /\ \A i, j \in 1 .. Len(queue[s]) : queue[s][i] = queue[s][j] => i = j

(* The connection to Tiny is made once, because the program ends after it. *)
ForwardOnce ==
    /\ near["forward"] = "open" <=> pc \in {"send", "reply", "entity"}
    /\ near["forward"] = "closed" => pc = "exited"

(* Nothing of a connection was read yet. *)
Unread(d) == far[d] \in {"none", "queued"} \/ (d = client /\ pc = "request")
                                           \/ (d = t_conn /\ t_pc = "request")

(* The request lines that Tiny may find first on a connection. *)
Opening(d) ==
    IF d = "forward"
    THEN UNION {{Forwarded(line).line : line \in Accepted(c)} : c \in {b \in Clients : client \in {b, "none"}}}
    ELSE {Line1(d)}

FirstLines ==
    /\ \A c \in Clients : Unread(c) => up[c] = SubSeq(request[c], 1, sent[c])
    /\ Unread("forward") /\ up["forward"] # <<>> =>
         \E line \in Opening("forward") : Head(up["forward"]) = Request(line)
    /\ pc \notin {"reply", "entity", "exited"} => up["forward"] = <<>>

(* The message begins with a request line that the proxy may accept. *)
Message ==
    /\ pc \in {"first header", "headers", "connect", "send"} =>
         msg # <<>> /\ \E line \in Accepted(client) : msg[1] = Forwarded(line)
    /\ pc \notin {"first header", "headers", "connect", "send"} => msg = <<>>
    /\ client # "none" /\ pc # "request" => Accepted(client) # {}

TinyServing ==
    /\ t_pc \in {"first header", "headers", "serve", "wait"} =>
         /\ t_line.method = "GET"
         /\ \E line \in Opening(t_conn) : t_line \in Scanned(line)
    /\ t_pc = "wait" <=> cgi # "none"
    /\ t_pc = "wait" => t_line.url.file = "cgi"

(* What Tiny has written on a connection: what was passed on, too. *)
Produced(d) == IF d = "forward" THEN down[client] \o down["forward"] ELSE down[d]

TinyWrote(d) ==
    /\ far[d] \in {"none", "queued"} => Produced(d) = <<>>
    /\ d = t_conn =>
         CASE cgi = "none"    -> Produced(d) = <<>>
           [] cgi = "running" -> Produced(d) = DynamicHead
           [] cgi = "ended"   -> Produced(d) \in {DynamicHead, DynamicHead \o CgiOutput}
    /\ far[d] = "closed" => \E reply \in AskedReplies(d) : IsPrefix(Produced(d), reply)

TinyOutput ==
    /\ \A c \in Clients : target[c] = "tiny" => TinyWrote(c)
    /\ pc \in {"send", "reply", "entity"} => TinyWrote("forward")

(* What the proxy has written. *)
ProxyOutput ==
    /\ far["forward"] = "none" => down["forward"] = <<>>
    /\ \A c \in Clients : target[c] = "proxy" =>
         /\ far[c] \in {"none", "queued"} => down[c] = <<>>
         /\ c = client /\ pc \notin {"reply", "entity"} => down[c] = <<>>
         /\ far[c] = "closed" => \E reply \in Replies(c) : IsPrefix(down[c], reply)

ProxyInductive ==
    /\ ProxyTypes /\ Connected /\ Queued /\ ForwardOnce /\ FirstLines /\ Message
    /\ TinyServing /\ TinyOutput /\ ProxyOutput

(* The message when k lines of the request were read.                      *)
Collected(c, k) ==
    /\ Len(msg) = Place(c, k) /\ nleft = MAXLINE - 1 - Used(c)[k]
    /\ \A i \in KeptAt(c) : i <= k => msg[Place(c, i)] = request[c][i]
    /\ \A i \in 2 .. Len(msg) : IsKept(msg[i])
    /\ flag_host_hdr = IF k > 1 /\ IsHost(request[c][k]) THEN 1 ELSE 0
    /\ \A p \in DOMAIN msg : IsHost(msg[p]) =>
         \E i \in KeptAt(c) : i <= k /\ IsHost(request[c][i]) /\ p = Place(c, i)

(* A client that hung up in its headers leaves the proxy reading for ever. *)
Reading(c, k) ==
    /\ k <= sent[c] /\ up[c] = SubSeq(request[c], k + 1, sent[c])
    /\ buf # CRLF /\ (k > 1 => pc = "headers")
    /\ Fits(c) => AtEOF(c) \/ Collected(c, k)

ReadsHeaders == pc \in {"first header", "headers"}

(* The inductive invariant of RequestForwarded, with the others. *)
Collecting ==
    \A c \in Clients : c = client /\ HasHeader(c) =>
        /\ ReadsHeaders => \E k \in 1 .. Length(c) - 1 : Reading(c, k)
        /\ pc \in {"connect", "send"} /\ Fits(c) => IsForwarded(c)

-----------------------------------------------------------------------------
(* The places where the proxy or Tiny waits or spins for ever. *)

Complete(c) == sent[c] = Len(request[c]) /\ near[c] = "open"

(* The client closed before its empty line: the header loop goes on.       *)
SpinsAtEOF(step, c) == step \in {"first header", "headers"} /\ c # "none" /\ AtEOF(c)

(* The request had no headers: its empty line was taken for the first one. *)
WaitsForHeaders == pc = "headers" /\ ~HasHeader(client)

(* The message was full before its empty line: Tiny waits for it.          *)
Unterminated ==
    /\ pc = "reply" /\ ~Fits(client)
    /\ t_conn = "forward" /\ t_pc = "headers" /\ up["forward"] = <<>>

Hung == SpinsAtEOF(pc, client) \/ SpinsAtEOF(t_pc, t_conn) \/ WaitsForHeaders \/ Unterminated

Answered(c) == \E i \in DOMAIN down[c] : down[c][i] = CRLF

(* Every client that sends a whole request and stays gets the head of a    *)
(* reply, unless a server has ended or is in one of the places above, or   *)
(* the CGI program has crashed.                                            *)
EveryoneAnswered ==
    \A c \in Clients :
        Complete(c) ~> \/ Answered(c) \/ near[c] = "closed" \/ Hung
                       \/ listening # Servers \/ ~Line1(c).url.arguments
=============================================================================
