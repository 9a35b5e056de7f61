----------------------------- MODULE ProxyProofs -----------------------------
(***************************************************************************)
(* Proofs about the proxy and Tiny, for any number of clients and any      *)
(* requests: what is open, what the proxy sends, and whose reply a client  *)
(* gets.                                                                   *)
(***************************************************************************)
EXTENDS ProxyProperties, SequenceTheorems, FiniteSetTheorems, WellFoundedInduction, TLAPS

-----------------------------------------------------------------------------
(* Constants and lines. *)

LEMMA Names ==
    /\ "forward" \notin Clients /\ "none" \notin Clients /\ "none" \notin Conns
    /\ "forward" \in Conns /\ Clients \subseteq Conns /\ Servers = {"proxy", "tiny"}
BY ClientsAssumption DEF Conns, Servers

(* A request begins with a request line. *)
LEMMA FirstIsRequest ==
    ASSUME ProxyTypes, NEW c \in Clients
    PROVE  /\ request[c] \in Seq(MessageLines) /\ Len(request[c]) \in Nat /\ Len(request[c]) >= 2
           /\ Line1(c) \in RequestLines /\ request[c][1] = Request(Line1(c))
<1>1. request[c] \in Requests
  BY DEF ProxyTypes
<1>2. IsRequest(request[c])
  BY <1>1, RequestsAssumption
<1>3. request[c] \in Seq(MessageLines) /\ Len(request[c]) >= 2 /\ request[c][1].type = "request"
  BY <1>2 DEF IsRequest
<1>4. Len(request[c]) \in Nat
  BY <1>3, LenProperties
<1>5. request[c][1] \in MessageLines
  BY <1>3, <1>4, ElementOfSeq
<1>6. request[c][1] \in [type : {"request"}, line : RequestLines]
  BY <1>3, <1>5 DEF MessageLines, CRLF
<1> QED BY <1>3, <1>4, <1>6 DEF Line1, Request

(* What is understood by a request line is one, and so is what is scanned. *)
LEMMA ReadingsAreLines ==
    ASSUME NEW line \in RequestLines
    PROVE  /\ Understood(line) \subseteq RequestLines /\ Scanned(line) \subseteq RequestLines
           /\ line.words = 3 => Scanned(line) = {line}
<1>1. line.url \in URLs /\ line.method \in {"GET", "POST"} /\ line.words \in 0 .. 3
      /\ Garbage \subseteq URLs
  BY GarbageAssumption DEF RequestLines
<1>2. \A url \in URLs, method \in {"GET", "POST"} :
        /\ [line EXCEPT !.url = url] \in RequestLines
        /\ [line EXCEPT !.method = method, !.url = url] \in RequestLines
  BY DEF RequestLines
<1>3. Understood(line) \subseteq RequestLines
  BY <1>1, <1>2 DEF Understood
<1>4. Scanned(line) \subseteq RequestLines
  <2> DEFINE methods == IF line.words = 0 THEN {"GET", "POST"} ELSE {line.method}
             urls == IF line.words < 2 THEN Garbage ELSE {line.url}
             Read(method, url) == [line EXCEPT !.method = method, !.url = url]
  <2>1. methods \subseteq {"GET", "POST"} /\ urls \subseteq URLs
    BY <1>1
  <2>2. Scanned(line) = {Read(method, url) : method \in methods, url \in urls}
    BY DEF Scanned
  <2>3. \A method \in methods, url \in urls : Read(method, url) \in RequestLines
    BY <1>2, <2>1
  <2> HIDE DEF methods, urls, Read
  <2> QED BY <2>2, <2>3
<1>5. ASSUME line.words = 3 PROVE Scanned(line) = {line}
  <2>1. [line EXCEPT !.method = line.method, !.url = line.url] = line
    BY DEF RequestLines
  <2> QED BY <1>5, <2>1 DEF Scanned
<1> QED BY <1>3, <1>4, <1>5

LEMMA ForwardedIsLine ==
    ASSUME NEW line \in RequestLines
    PROVE  /\ Forwarded(line) \in MessageLines /\ Forwarded(line).line \in RequestLines
           /\ Forwarded(line) = Request(Forwarded(line).line)
           /\ Forwarded(line).line.method = "GET" /\ Forwarded(line).line.words = 3
           /\ Forwarded(line).line.url = line.url
BY DEF Forwarded, MessageLines, Request, RequestLines

(* What the proxy may accept of a client's line, and Tiny find first. *)
LEMMA OpeningAreLines ==
    ASSUME ProxyTypes
    PROVE  /\ \A c \in Clients : Accepted(c) \subseteq RequestLines
           /\ \A d \in Conns : Opening(d) \subseteq RequestLines
           /\ \A line \in Opening("forward") : line.words = 3 /\ line.method = "GET"
<1>1. ASSUME NEW c \in Clients PROVE Accepted(c) \subseteq RequestLines
  BY FirstIsRequest, ReadingsAreLines DEF Accepted
<1>2. ASSUME NEW line \in Opening("forward")
      PROVE  line \in RequestLines /\ line.words = 3 /\ line.method = "GET"
  <2>1. PICK c \in Clients : \E read \in Accepted(c) : line = Forwarded(read).line
    BY <1>2 DEF Opening
  <2> QED BY <1>1, <2>1, ForwardedIsLine
<1>3. ASSUME NEW d \in Clients PROVE Opening(d) \subseteq RequestLines
  BY FirstIsRequest, ClientsAssumption DEF Opening
<1> QED BY <1>1, <1>2, <1>3 DEF Conns

(* What the proxy appends of its own. *)
LEMMA HeadersAreLines ==
    /\ CRLF \in MessageLines
    /\ \A name \in {"Host", "User-Agent", "Connection", "Proxy-Connection"} :
         Header(name) \in MessageLines
BY MessageAssumption DEF MessageLines, Header

LEMMA RepliesAreLines ==
    /\ \A errnum \in {"200", "400", "403", "404", "414", "422", "501", "505"} :
         ErrorPage(errnum) \in Seq(ReplyLines)
    /\ StaticReply \in Seq(ReplyLines) /\ StaticHead \in Seq(ReplyLines)
    /\ DynamicHead \in Seq(ReplyLines)
    /\ CgiOutput \in Seq(ReplyLines) /\ DynamicHead # <<>>
<1> DEFINE numbers == {"200", "400", "403", "404", "414", "422", "501", "505"}
<1>1. /\ \A s \in numbers : Status(s) \in ReplyLines
      /\ \A s \in {"Connection", "Content-length", "Content-type", "Server"} : Header(s) \in ReplyLines
      /\ \A s \in {"error", "file", "cgi"} : Body(s) \in ReplyLines
  BY DEF Status, Header, Body, ReplyLines
<1>2. CRLF \in ReplyLines
  BY DEF ReplyLines
<1>3. ASSUME NEW errnum \in numbers PROVE ErrorPage(errnum) \in Seq(ReplyLines)
  BY <1>1, <1>2 DEF ErrorPage
<1>4. StaticHead \in Seq(ReplyLines) /\ StaticReply \in Seq(ReplyLines)
  <2>1. StaticHead \in Seq(ReplyLines) /\ <<Body("file")>> \in Seq(ReplyLines)
    BY <1>1, <1>2 DEF StaticHead
  <2> QED BY <2>1, ConcatProperties DEF StaticReply
<1>5. DynamicHead \in Seq(ReplyLines) /\ DynamicHead # <<>>
  BY <1>1, <1>2 DEF DynamicHead
<1>6. CgiOutput \in Seq(ReplyLines)
  BY <1>1, <1>2 DEF CgiOutput
<1> QED BY <1>3, <1>4, <1>5, <1>6

(* Errors have a number. *)
LEMMA ErrorNumbers ==
    ASSUME NEW line
    PROVE  RequestError(line) \in {"none", "400", "414", "422", "501", "505"}
BY DEF RequestError, parse_req_line

(* Appending to the message. *)
LEMMA AppendMsgType ==
    ASSUME NEW m, m.msg \in Seq(MessageLines), NEW line \in MessageLines \cup {Nothing}
    PROVE  /\ append_msg(m, line).msg \in Seq(MessageLines)
           /\ m.msg # <<>> => /\ append_msg(m, line).msg # <<>>
                              /\ append_msg(m, line).msg[1] = m.msg[1]
<1>1. \/ append_msg(m, line).msg = m.msg
      \/ line \in MessageLines /\ append_msg(m, line).msg = Append(m.msg, line)
  BY DEF append_msg
<1>2. ASSUME line \in MessageLines
      PROVE  /\ Append(m.msg, line) \in Seq(MessageLines) /\ Append(m.msg, line) # <<>>
             /\ m.msg # <<>> => Append(m.msg, line)[1] = m.msg[1]
  BY <1>2, AppendProperties, LenProperties, EmptySeq
<1> QED BY <1>1, <1>2

-----------------------------------------------------------------------------
(* Types. *)

NetTypes ==
    /\ up \in [Conns -> Seq(MessageLines)] /\ down \in [Conns -> Seq(ReplyLines)]
    /\ near \in [Conns -> {"none", "open", "closed"}]
    /\ far \in [Conns -> {"none", "queued", "open", "closed"}]
    /\ queue \in [Servers -> Seq(Conns)]

LEMMA AcceptsTypes ==
    ASSUME NetTypes, NEW s \in Servers, NEW c, Accepts(s, c)
    PROVE  /\ NetTypes' /\ c \in Conns
           /\ Len(queue[s]) \in Nat /\ Len(queue[s]) > 0 /\ c = queue[s][1]
           /\ queue'[s] = Tail(queue[s]) /\ Len(queue'[s]) = Len(queue[s]) - 1
           /\ \A i \in 1 .. Len(queue[s]) - 1 : queue'[s][i] = queue[s][i + 1]
<1>1. queue[s] \in Seq(Conns) /\ queue[s] # <<>> /\ c = Head(queue[s])
      /\ queue' = [queue EXCEPT ![s] = Tail(@)] /\ far' = [far EXCEPT ![c] = "open"]
      /\ UNCHANGED <<up, down, near, listening>>
  BY DEF NetTypes, Accepts
<1>2. /\ Head(queue[s]) \in Conns /\ Tail(queue[s]) \in Seq(Conns)
      /\ Len(queue[s]) \in Nat /\ Len(queue[s]) > 0 /\ Head(queue[s]) = queue[s][1]
      /\ Len(Tail(queue[s])) = Len(queue[s]) - 1
      /\ \A i \in 1 .. Len(queue[s]) - 1 : Tail(queue[s])[i] = queue[s][i + 1]
  BY <1>1, HeadTailProperties, LenProperties, EmptySeq
<1>3. NetTypes'
  BY <1>1, <1>2 DEF NetTypes
<1>4. queue'[s] = Tail(queue[s])
  BY <1>1 DEF NetTypes
<1> QED BY <1>1, <1>2, <1>3, <1>4

LEMMA ConnectsTypes ==
    ASSUME NetTypes, NEW s \in Servers, NEW c \in Conns, Connects(c, s), UNCHANGED <<up, down>>
    PROVE  /\ NetTypes' /\ Len(queue[s]) \in Nat
           /\ queue'[s] = Append(queue[s], c) /\ Len(queue'[s]) = Len(queue[s]) + 1
           /\ \A i \in 1 .. Len(queue[s]) : queue'[s][i] = queue[s][i]
           /\ queue'[s][Len(queue[s]) + 1] = c
<1>1. queue[s] \in Seq(Conns) /\ queue' = [queue EXCEPT ![s] = Append(@, c)]
  BY DEF NetTypes, Connects
<1>2. /\ Append(queue[s], c) \in Seq(Conns) /\ Len(queue[s]) \in Nat
      /\ Len(Append(queue[s], c)) = Len(queue[s]) + 1
      /\ \A i \in 1 .. Len(queue[s]) : Append(queue[s], c)[i] = queue[s][i]
      /\ Append(queue[s], c)[Len(queue[s]) + 1] = c
  BY <1>1, AppendProperties, LenProperties
<1>3. queue'[s] = Append(queue[s], c)
  BY <1>1 DEF NetTypes
<1>4. NetTypes'
  BY <1>1, <1>2 DEF NetTypes, Connects
<1> QED BY <1>2, <1>3, <1>4

LEMMA CloseAllOfTypes ==
    ASSUME NetTypes, NEW s \in Servers, NEW c, CloseAllOf(s, c), UNCHANGED <<up, down>>,
           near' \in [Conns -> {"none", "open", "closed"}]
    PROVE  NetTypes'
<1>1. <<>> \in Seq(Conns)
  BY EmptySeq
<1>2. far' \in [Conns -> {"none", "queued", "open", "closed"}]
  BY DEF CloseAllOf, NetTypes
<1> QED BY <1>1, <1>2 DEF CloseAllOf, NetTypes

(* What is written is what was written and the new lines. *)
LEMMA WritesTypes ==
    ASSUME NetTypes, NEW c \in Conns, NEW lines \in Seq(ReplyLines), Writes(c, lines)
    PROVE  /\ down' \in [Conns -> Seq(ReplyLines)]
           /\ down'[c] = down[c] \o lines
           /\ \A d \in Conns \ {c} : down'[d] = down[d]
<1>1. down[c] \o lines \in Seq(ReplyLines)
  BY ConcatProperties DEF NetTypes
<1> QED BY <1>1 DEF Writes, NetTypes

(* A line is read. *)
LEMMA ReadsTypes ==
    ASSUME NetTypes, NEW c \in Conns, HasLine(c), ReadsLine(c)
    PROVE  /\ up' \in [Conns -> Seq(MessageLines)]
           /\ Head(up[c]) \in MessageLines /\ up'[c] = Tail(up[c])
           /\ \A d \in Conns \ {c} : up'[d] = up[d]
<1>1. up[c] \in Seq(MessageLines) /\ up[c] # <<>>
  BY DEF NetTypes, HasLine
<1>2. Tail(up[c]) \in Seq(MessageLines) /\ Head(up[c]) \in MessageLines
  BY <1>1, HeadTailProperties
<1> QED BY <1>1, <1>2 DEF ReadsLine, NetTypes

(* The proxy's connection is a client's, while it serves one. *)
LEMMA ClientServed ==
    ASSUME ProxyTypes, Connected, pc \notin {"accept", "exited"}
    PROVE  client \in Clients /\ client \in Conns /\ target[client] = "proxy" /\ far[client] = "open"
<1>1. client \in Clients /\ client \in Conns
  BY Names DEF ProxyTypes, Connected
<1>2. Serving("proxy") # "none" /\ ServerOf(Serving("proxy")) = "proxy" /\ far[Serving("proxy")] = "open"
  BY <1>1, Names DEF Connected, Serving
<1> QED BY <1>1, <1>2, Names DEF Serving, ServerOf

LEMMA ConnServed ==
    ASSUME ProxyTypes, Connected, t_pc \notin {"accept", "exited"}
    PROVE  t_conn \in Conns /\ ServerOf(t_conn) = "tiny" /\ far[t_conn] = "open"
<1>1. t_conn \in Conns
  BY Names DEF ProxyTypes, Connected
<1>2. Serving("tiny") = t_conn /\ Serving("tiny") # "none"
  BY <1>1, Names DEF Serving
<1> QED BY <1>1, <1>2, Names DEF Connected

(* The proxy ends: what it leaves. *)
LEMMA ExitsTypes ==
    ASSUME ProxyTypes, Exits, UNCHANGED <<up, down, tinyVars, clientVars>>
    PROVE  ProxyTypes'
<1>1. near' \in [Conns -> {"none", "open", "closed"}]
  BY Names DEF Exits, ProxyTypes
<1>2. NetTypes'
  BY <1>1, CloseAllOfTypes, Names DEF Exits, ProxyTypes, NetTypes
<1>3. msg' \in Seq(MessageLines)
  BY EmptySeq DEF Exits
<1> QED BY <1>2, <1>3 DEF Exits, ProxyTypes, NetTypes, tinyVars, clientVars

LEMMA TinyDiesTypes ==
    ASSUME ProxyTypes, t_Dies, UNCHANGED <<up, near, proxyVars, clientVars>>,
           down' \in [Conns -> Seq(ReplyLines)]
    PROVE  ProxyTypes'
<1>1. near' \in [Conns -> {"none", "open", "closed"}]
  BY Names DEF ProxyTypes
<1>2. NetTypes'
  <2>1. <<>> \in Seq(Conns)
    BY EmptySeq
  <2>2. far' \in [Conns -> {"none", "queued", "open", "closed"}]
        /\ queue' = [queue EXCEPT !["tiny"] = <<>>]
    BY DEF t_Dies, CloseAllOf, ProxyTypes
  <2> QED BY <1>1, <2>1, <2>2 DEF ProxyTypes, NetTypes
<1> QED BY <1>2 DEF t_Dies, ProxyTypes, NetTypes, proxyVars, clientVars

LEMMA CheckedEntryType ==
    ASSUME NEW line \in MessageLines \cup {Nothing}
    PROVE  CheckedEntry(line) \in MessageLines \cup {Nothing}
BY DEF CheckedEntry

LEMMA FinishedType ==
    ASSUME NEW m, m.msg \in Seq(MessageLines), NEW flag
    PROVE  /\ Finished(m, flag).msg \in Seq(MessageLines)
           /\ m.msg # <<>> => Finished(m, flag).msg # <<>> /\ Finished(m, flag).msg[1] = m.msg[1]
<1> DEFINE m0 == IF flag = 0 THEN append_msg(m, Header("Host")) ELSE m
           m1 == append_msg(m0, Header("User-Agent"))
           m2 == append_msg(m1, Header("Connection"))
           m3 == append_msg(m2, Header("Proxy-Connection"))
           m4 == append_msg(m3, CRLF)
           Grown(n) == /\ n.msg \in Seq(MessageLines)
                       /\ m.msg # <<>> => n.msg # <<>> /\ n.msg[1] = m.msg[1]
<1>1. Grown(m0)
  BY AppendMsgType, HeadersAreLines
<1> HIDE DEF m0
<1>2. Grown(m1)
  BY <1>1, AppendMsgType, HeadersAreLines
<1> HIDE DEF m1
<1>3. Grown(m2)
  BY <1>2, AppendMsgType, HeadersAreLines
<1> HIDE DEF m2
<1>4. Grown(m3)
  BY <1>3, AppendMsgType, HeadersAreLines
<1> HIDE DEF m3
<1>5. Grown(m4)
  BY <1>4, AppendMsgType, HeadersAreLines
<1>6. Finished(m, flag) = m4
  BY DEF Finished, m0, m1, m2, m3, m4
<1> QED BY <1>5, <1>6

LEMMA ProxyMessageTypes ==
    ASSUME ProxyTypes, Connected, FirstLines, Message,
           p_Request \/ p_FirstHeader \/ p_Header, UNCHANGED <<tinyVars, clientVars>>
    PROVE  ProxyTypes'
<1>1. client \in Clients /\ client \in Conns /\ up[client] \in Seq(MessageLines)
      /\ msg \in Seq(MessageLines) /\ Nothing \notin MessageLines
  <2>1. pc \notin {"accept", "exited"}
    BY DEF p_Request, p_FirstHeader, p_Header
  <2> QED BY <2>1, ClientServed DEF ProxyTypes, Nothing, MessageLines, CRLF
<1>2. NetTypes
  BY DEF NetTypes, ProxyTypes
<1>3. CASE p_Request
  <2>1. pc = "request" /\ HasLine(client)
    BY <1>3 DEF p_Request
  <2>2. Head(up[client]) = request[client][1]
    <3>1. up[client] = SubSeq(request[client], 1, sent[client]) /\ up[client] # <<>>
      BY <1>1, <2>1 DEF FirstLines, Unread, HasLine
    <3>2. sent[client] \in Nat /\ sent[client] <= Len(request[client])
      BY <1>1 DEF ProxyTypes
    <3> QED BY <1>1, <3>1, <3>2, FirstIsRequest, SubSeqProperties, HeadTailProperties, LenProperties
  <2>5. PICK line \in Understood(Head(up[client]).line) :
          LET m == append_msg([msg |-> msg, nleft |-> MAXLINE - 1], Forwarded(line))
          IN  IF RequestError(line) # "none"
              THEN clienterror(RequestError(line))
              ELSE /\ ReadsLine(client) /\ msg' = m.msg /\ nleft' = m.nleft
                   /\ buf' = Forwarded(line) /\ pc' = "first header" /\ flag_host_hdr' = 0
                   /\ UNCHANGED <<down, near, far, queue, listening, client>>
    BY <1>3 DEF p_Request
  <2>6. line \in RequestLines
    BY <1>1, <2>2, FirstIsRequest, ReadingsAreLines DEF Line1
  <2>3. CASE RequestError(line) # "none"
    <3>1. clienterror(RequestError(line))
      BY <2>3, <2>5
    <3>2. ErrorPage(RequestError(line)) \in Seq(ReplyLines)
      BY <2>3, ErrorNumbers, RepliesAreLines
    <3>3. CASE Exits /\ UNCHANGED <<up, down>>
      BY <3>3, ExitsTypes
    <3>4. CASE /\ Writes(client, ErrorPage(RequestError(line))) /\ CloseClient
               /\ UNCHANGED <<up, near, queue, listening, msg, nleft>>
      <4>1. down' \in [Conns -> Seq(ReplyLines)]
        BY <1>1, <1>2, <3>2, <3>4, WritesTypes
      <4> QED BY <1>1, <3>4, <4>1 DEF ProxyTypes, CloseClient, CloseFar, Done, tinyVars, clientVars
    <3> QED BY <3>1, <3>3, <3>4 DEF clienterror
  <2>4. CASE RequestError(line) = "none"
    <3> DEFINE m == append_msg([msg |-> msg, nleft |-> MAXLINE - 1], Forwarded(line))
    <3>1. /\ ReadsLine(client) /\ msg' = m.msg /\ buf' = Forwarded(line) /\ pc' = "first header"
          /\ UNCHANGED <<down, near, far, queue, listening, client>>
      BY <2>4, <2>5
    <3>2. Forwarded(line) \in MessageLines
      BY <2>6, ForwardedIsLine
    <3>3. msg' \in Seq(MessageLines)
      BY <1>1, <3>1, <3>2, AppendMsgType
    <3>4. up' \in [Conns -> Seq(MessageLines)]
      BY <1>1, <1>2, <2>1, <3>1, ReadsTypes
    <3> QED BY <3>1, <3>2, <3>3, <3>4 DEF ProxyTypes, tinyVars, clientVars
  <2> QED BY <2>3, <2>4
<1>4. CASE p_FirstHeader \/ p_Header
  <2>1. PICK line : /\ line \in {buf} \cup (IF HasLine(client) THEN {Head(up[client])} ELSE {})
                    /\ ReadsInto(line)
                    /\ \/ Checks(line)
                       \/ /\ msg' = Finished(proxy_forw, flag_host_hdr).msg /\ pc' = "connect"
                          /\ line = CRLF
                    /\ UNCHANGED <<down, near, far, queue, listening, client>>
    BY <1>4 DEF p_FirstHeader, p_Header
  <2>2. line \in MessageLines \cup {Nothing} /\ up' \in [Conns -> Seq(MessageLines)]
    <3>1. buf \in MessageLines \cup {Nothing}
      BY <1>4 DEF p_FirstHeader, p_Header, ProxyTypes
    <3>2. CASE HasLine(client) /\ ReadsLine(client) /\ line = Head(up[client])
      BY <1>1, <1>2, <3>2, ReadsTypes
    <3>3. CASE UNCHANGED up /\ line = buf
      BY <1>2, <3>1, <3>3 DEF NetTypes
    <3> QED BY <2>1, <3>2, <3>3 DEF ReadsInto
  <2>3. msg' \in Seq(MessageLines) /\ pc' \in {"headers", "connect"}
        /\ (pc' = "headers" => buf' \in MessageLines \cup {Nothing})
    <3>1. proxy_forw.msg \in Seq(MessageLines)
      BY <1>1 DEF proxy_forw
    <3>2. CASE Checks(line)
      <4>1. CheckedEntry(line) \in MessageLines \cup {Nothing}
        BY <2>2, CheckedEntryType
      <4> QED BY <3>1, <3>2, <4>1, AppendMsgType DEF Checks
    <3>3. CASE msg' = Finished(proxy_forw, flag_host_hdr).msg /\ pc' = "connect"
      BY <3>1, <3>3, FinishedType
    <3> QED BY <2>1, <3>2, <3>3
  <2> QED BY <2>1, <2>2, <2>3 DEF ProxyTypes, tinyVars, clientVars
<1> QED BY <1>3, <1>4

(* What Tiny has scanned is a request line. *)
LEMMA TinyLine ==
    ASSUME ProxyTypes, Connected, TinyServing, t_pc \in {"first header", "headers", "serve", "wait"}
    PROVE  t_line \in RequestLines /\ t_line.method = "GET"
<1>1. t_conn \in Conns
  BY ConnServed
<1> QED BY <1>1, OpeningAreLines, ReadingsAreLines DEF TinyServing

LEMMA TinyReplyTypes ==
    ASSUME ProxyTypes, Connected, TinyServing
    PROVE  /\ ErrorPage("501") \in Seq(ReplyLines)
           /\ t_pc = "serve" /\ t_line.url.file # "cgi" =>
                (CASE t_line.url.file = "static"    -> StaticReply
                   [] t_line.url.file = "missing"   -> ErrorPage("404")
                   [] t_line.url.file = "forbidden" -> ErrorPage("403")) \in Seq(ReplyLines)
<1>1. t_pc = "serve" => t_line.url.file \in {"static", "missing", "forbidden", "cgi"}
  BY TinyLine DEF RequestLines, URLs
<1> QED BY <1>1, RepliesAreLines

LEMMA TinyTypes ==
    ASSUME ProxyTypes, Connected, TinyServing, Serves \/ RunsCgi
    PROVE  ProxyTypes'
<1>1. UNCHANGED <<proxyVars, clientVars>>
  BY DEF Serves, RunsCgi
<1>2. NetTypes
  BY DEF ProxyTypes, NetTypes
<1>3. ASSUME NEW lines \in Seq(ReplyLines), t_pc \notin {"accept", "exited"}, t_Answers(lines)
      PROVE  ProxyTypes'
  <2>1. t_conn \in Conns
    BY <1>3, ConnServed
  <2>2. CASE Writes(t_conn, lines) /\ t_Close /\ UNCHANGED <<up, near, queue, listening>>
    <3>1. down' \in [Conns -> Seq(ReplyLines)]
      BY <1>2, <2>1, <2>2, WritesTypes
    <3> QED BY <1>1, <2>1, <2>2, <3>1 DEF ProxyTypes, t_Close, CloseFar, proxyVars, clientVars
  <2>3. CASE t_Dies /\ UNCHANGED <<up, down, near>>
    BY <1>1, <2>3, TinyDiesTypes DEF ProxyTypes
  <2> QED BY <1>3, <2>2, <2>3 DEF t_Answers
<1>12. ASSUME NEW lines \in Seq(ReplyLines), t_pc \notin {"accept", "exited"}, t_Fails(lines)
       PROVE  ProxyTypes'
  <2>1. down' \in [Conns -> Seq(ReplyLines)]
    BY <1>2, <1>12, ConnServed, WritesTypes DEF t_Fails
  <2> QED BY <1>1, <1>12, <2>1, TinyDiesTypes DEF t_Fails
<1>4. CASE t_Accept
  <2>1. PICK c \in Conns : Accepts("tiny", c) /\ t_conn' = c
    BY <1>4 DEF t_Accept
  <2>2. NetTypes'
    BY <1>2, <2>1, AcceptsTypes, Names
  <2> QED BY <1>1, <1>4, <2>1, <2>2 DEF t_Accept, ProxyTypes, NetTypes, proxyVars, clientVars
<1>5. CASE t_Request
  <2>1. t_conn \in Conns /\ HasLine(t_conn)
    BY <1>5, ConnServed DEF t_Request
  <2>2. CASE t_Answers(ErrorPage("501"))
    BY <1>3, <1>5, <2>2, RepliesAreLines DEF t_Request
  <2>3. CASE /\ ReadsLine(t_conn) /\ t_pc' = "first header"
             /\ UNCHANGED <<down, near, far, queue, listening, t_conn, cgi>>
    <3>1. up' \in [Conns -> Seq(MessageLines)]
      BY <1>2, <2>1, <2>3, ReadsTypes
    <3> QED BY <1>1, <2>3, <3>1 DEF ProxyTypes, proxyVars, clientVars
  <2> QED BY <1>5, <2>2, <2>3 DEF t_Request
<1>6. CASE t_NoRequest \/ t_Wait
  <2>1. t_Close /\ UNCHANGED <<up, down, near, queue, listening>>
    BY <1>6 DEF t_NoRequest, t_Wait
  <2> QED BY <1>1, <2>1 DEF ProxyTypes, t_Close, CloseFar, proxyVars, clientVars
<1>7. CASE t_Header
  <2>1. t_conn \in Conns
    BY <1>7, ConnServed DEF t_Header
  <2>2. up' \in [Conns -> Seq(MessageLines)]
    BY <1>2, <1>7, <2>1, ReadsTypes DEF t_Header
  <2> QED BY <1>1, <1>7, <2>2 DEF t_Header, ProxyTypes, proxyVars, clientVars
<1>8. CASE t_NoHeader
  BY <1>1, <1>8 DEF t_NoHeader, ProxyTypes, netVars, proxyVars, clientVars
<1>9. CASE t_Serve \/ t_Garbled
  <2>1. CASE t_Garbled
    BY <1>1, <2>1, TinyDiesTypes DEF t_Garbled, ProxyTypes
  <2>2. CASE t_Fails(StaticHead) /\ t_Serve
    BY <1>12, <2>2, RepliesAreLines DEF t_Serve
  <2>3. CASE t_Serve /\ ~t_Fails(StaticHead)
    BY <1>3, <2>3, TinyReplyTypes DEF t_Serve
  <2> QED BY <1>9, <2>1, <2>2, <2>3
<1>10. CASE serve_dynamic
  <2>1. t_conn \in Conns /\ t_pc \notin {"accept", "exited"}
    BY <1>10, ConnServed DEF serve_dynamic
  <2>2. CASE t_Dies /\ UNCHANGED <<up, down, near>>
    BY <1>1, <2>2, TinyDiesTypes DEF ProxyTypes
  <2>4. CASE t_Fails(DynamicHead)
    BY <1>12, <2>1, <2>4, RepliesAreLines
  <2>3. CASE /\ Writes(t_conn, DynamicHead) /\ t_pc' = "wait" /\ cgi' = "running"
             /\ UNCHANGED <<up, near, far, queue, listening, t_conn, t_line>>
    <3>1. down' \in [Conns -> Seq(ReplyLines)]
      BY <1>2, <2>1, <2>3, WritesTypes, RepliesAreLines
    <3> QED BY <1>1, <2>3, <3>1 DEF ProxyTypes, proxyVars, clientVars
  <2> QED BY <1>10, <2>2, <2>3, <2>4 DEF serve_dynamic
<1>11. CASE RunsCgi
  <2>1. t_conn \in Conns
    BY <1>11, ConnServed DEF RunsCgi, cgi_Ends, TinyServing
  <2>2. (IF t_line.url.arguments THEN CgiOutput ELSE <<>>) \in Seq(ReplyLines)
    BY RepliesAreLines, EmptySeq
  <2>3. down' \in [Conns -> Seq(ReplyLines)]
    BY <1>2, <1>11, <2>1, <2>2, WritesTypes DEF RunsCgi, cgi_Ends
  <2> QED BY <1>11, <2>3 DEF RunsCgi, cgi_Ends, ProxyTypes, proxyVars, clientVars
<1> QED BY <1>4, <1>5, <1>6, <1>7, <1>8, <1>9, <1>10, <1>11 DEF Serves, TinyStep

LEMMA TypesStep ==
    ASSUME ProxyTypes, Connected, FirstLines, Message, TinyServing, Next
    PROVE  ProxyTypes'
<1>1. NetTypes
  BY DEF ProxyTypes, NetTypes
<1>2. ASSUME pc \notin {"accept", "exited"} PROVE client \in Clients /\ client \in Conns
  BY <1>2, ClientServed
<1>3. CASE Serves \/ RunsCgi
  BY <1>3, TinyTypes
<1>4. CASE \E c \in Clients : Connect(c) \/ Send(c) \/ Close(c)
  <2>1. PICK c \in Clients : Connect(c) \/ Send(c) \/ Close(c)
    BY <1>4
  <2>2. CASE Connect(c)
    <3>1. target[c] \in Servers /\ c \in Conns /\ Connects(c, target[c]) /\ UNCHANGED <<up, down>>
      BY <2>2, Names DEF ProxyTypes, Connect
    <3>2. NetTypes'
      BY <1>1, <3>1, ConnectsTypes
    <3> QED BY <2>2, <3>2 DEF Connect, ProxyTypes, NetTypes, proxyVars, tinyVars, clientVars
  <2>3. CASE Send(c)
    <3>1. sent[c] \in Nat /\ sent[c] < Len(request[c]) /\ up[c] \in Seq(MessageLines) /\ c \in Conns
      BY <2>3, Names DEF Send, ProxyTypes
    <3>2. request[c][sent[c] + 1] \in MessageLines
      BY <3>1, FirstIsRequest, ElementOfSeq
    <3>3. Append(up[c], request[c][sent[c] + 1]) \in Seq(MessageLines)
      BY <3>1, <3>2, AppendProperties
    <3>4. up' \in [Conns -> Seq(MessageLines)]
      BY <2>3, <3>3 DEF Send, ProxyTypes
    <3>5. sent' \in [Clients -> Nat] /\ \A d \in Clients : sent'[d] <= Len(request'[d])
      <4>1. sent' = [sent EXCEPT ![c] = @ + 1] /\ request' = request
        BY <2>3 DEF Send
      <4>2. /\ sent \in [Clients -> Nat]
            /\ \A d \in Clients : sent[d] <= Len(request[d]) /\ Len(request[d]) \in Nat
        BY FirstIsRequest DEF ProxyTypes
      <4>3. sent' \in [Clients -> Nat] /\ sent'[c] = sent[c] + 1 /\ \A d \in Clients \ {c} : sent'[d] = sent[d]
        BY <4>1, <4>2
      <4> QED BY <3>1, <4>1, <4>2, <4>3
    <3> QED BY <2>3, <3>4, <3>5 DEF Send, ProxyTypes, proxyVars, tinyVars
  <2>4. CASE Close(c)
    BY <2>4 DEF Close, ProxyTypes, proxyVars, tinyVars, clientVars
  <2> QED BY <2>1, <2>2, <2>3, <2>4
<1>5. CASE Proxies
  <2>1. UNCHANGED <<tinyVars, clientVars>>
    BY <1>5 DEF Proxies
  <2>2. CASE Exits /\ UNCHANGED <<up, down>>
    BY <2>1, <2>2, ExitsTypes
  <2>3. CASE p_Accept
    <3>1. PICK c \in Clients : Accepts("proxy", c) /\ client' = c
      BY <2>3 DEF p_Accept
    <3>2. NetTypes'
      BY <1>1, <3>1, AcceptsTypes, Names
    <3> QED BY <2>1, <2>3, <3>1, <3>2 DEF p_Accept, ProxyTypes, NetTypes, tinyVars, clientVars
  <2>4. CASE p_Request \/ p_FirstHeader \/ p_Header
    BY <2>1, <2>4, ProxyMessageTypes
  <2>5. CASE p_NoRequest
    BY <2>1, <2>5 DEF p_NoRequest, CloseClient, CloseFar, Done, ProxyTypes, tinyVars, clientVars
  <2>6. CASE p_Connect /\ ~(Exits /\ UNCHANGED <<up, down>>)
    <3>1. Connects("forward", "tiny") /\ pc' = "send"
          /\ UNCHANGED <<up, down, listening, client, buf, flag_host_hdr, msg, nleft>>
      BY <2>6 DEF p_Connect
    <3>2. NetTypes'
      BY <1>1, <3>1, ConnectsTypes, Names
    <3> QED BY <2>1, <3>1, <3>2 DEF ProxyTypes, NetTypes, tinyVars, clientVars
  <2>7. CASE p_Send /\ ~(Exits /\ UNCHANGED <<up, down>>)
    <3>1. up' = [up EXCEPT !["forward"] = @ \o msg] /\ msg' = <<>> /\ pc' = "reply"
          /\ UNCHANGED <<down, near, far, queue, listening, client, buf, flag_host_hdr, nleft>>
      BY <2>7 DEF p_Send
    <3>2. up["forward"] \o msg \in Seq(MessageLines) /\ msg' \in Seq(MessageLines)
      BY <3>1, Names, ConcatProperties, EmptySeq DEF ProxyTypes
    <3>3. up' \in [Conns -> Seq(MessageLines)]
      BY <3>1, <3>2 DEF ProxyTypes
    <3> QED BY <2>1, <3>1, <3>2, <3>3 DEF ProxyTypes, tinyVars, clientVars
  <2>8. CASE p_Reply /\ ~(Exits /\ UNCHANGED <<up, down>>)
    <3>1. client \in Clients /\ client \in Conns
      BY <1>2, <2>8 DEF p_Reply
    <3>2. /\ ReplyHasLine("forward") /\ pc' \in {"entity", "reply"}
          /\ down' = [down EXCEPT !["forward"] = Tail(@), ![client] = Append(@, Head(down["forward"]))]
          /\ UNCHANGED <<up, near, far, queue, listening, client, flag_host_hdr, msg, nleft>>
      BY <2>8 DEF p_Reply
    <3>3. /\ Tail(down["forward"]) \in Seq(ReplyLines)
          /\ Append(down[client], Head(down["forward"])) \in Seq(ReplyLines)
      <4>1. down["forward"] \in Seq(ReplyLines) /\ down["forward"] # <<>> /\ down[client] \in Seq(ReplyLines)
        BY <3>1, <3>2, Names DEF ProxyTypes, ReplyHasLine
      <4> QED BY <4>1, HeadTailProperties, AppendProperties
    <3>4. down' \in [Conns -> Seq(ReplyLines)]
      BY <3>1, <3>2, <3>3, Names DEF ProxyTypes
    <3> QED BY <2>1, <3>2, <3>4 DEF ProxyTypes, tinyVars, clientVars
  <2>9. CASE p_ReplyEnds
    BY <2>1, <2>9 DEF p_ReplyEnds, netVars, ProxyTypes, tinyVars, clientVars
  <2> QED BY <1>5, <2>2, <2>3, <2>4, <2>5, <2>6, <2>7, <2>8, <2>9 
         DEF Proxies, ProxyStep, p_Garbled, p_Entity, p_Connect, p_Send, p_Reply
<1> QED BY <1>3, <1>4, <1>5 DEF Next

-----------------------------------------------------------------------------
(* What is open. *)

Idle    == {"accept", "exited"}
Sending == {"send", "reply", "entity"}

(* The ways a step changes the connections. *)
Keeps ==
    /\ UNCHANGED <<near, far, queue, client, t_conn, target>>
    /\ pc' = pc \/ (pc \notin Idle /\ pc' \notin Idle)
    /\ pc \in Sending <=> pc' \in Sending
    /\ t_pc' = t_pc \/ (t_pc \notin Idle /\ t_pc' \notin Idle)
    /\ (pc' = "request" => pc = "request") /\ (t_pc' = "request" => t_pc = "request")

ProxyKeeps == UNCHANGED <<pc, client>>
TinyKeeps  == UNCHANGED <<t_pc, t_conn>>

HangsUp(c) ==
    /\ near[c] = "open" /\ near' = [near EXCEPT ![c] = "closed"]
    /\ UNCHANGED <<far, queue>> /\ ProxyKeeps /\ TinyKeeps

ProxyAccepts(c) ==
    /\ pc = "accept" /\ pc' = "request" /\ client' = c /\ Accepts("proxy", c) /\ TinyKeeps

TinyAccepts(c) ==
    /\ t_pc = "accept" /\ t_pc' = "request" /\ t_conn' = c /\ Accepts("tiny", c) /\ ProxyKeeps

ProxyCloses == CloseClient /\ UNCHANGED <<near, queue>> /\ TinyKeeps /\ pc = "request"
TinyCloses  == t_Close /\ UNCHANGED <<near, queue>> /\ ProxyKeeps /\ t_pc \notin Idle
TinyDies    == t_Dies /\ UNCHANGED near /\ ProxyKeeps /\ t_pc \notin Idle
ProxyDies   == Exits /\ TinyKeeps /\ pc \notin Idle

Dials == /\ pc = "connect" /\ pc' = "send" /\ client' = client
         /\ Connects("forward", "tiny") /\ UNCHANGED <<up, down>> /\ TinyKeeps

LEMMA Moves ==
    ASSUME ProxyTypes, Next
    PROVE  /\ target' = target
           /\ \/ Keeps \/ ProxyCloses \/ TinyCloses \/ TinyDies \/ ProxyDies \/ Dials
              \/ \E c \in Clients :
                   \/ near[c] = "none" /\ Connects(c, target[c]) /\ ProxyKeeps /\ TinyKeeps
                      /\ UNCHANGED <<up, down>>
                   \/ HangsUp(c) \/ ProxyAccepts(c)
              \/ \E c \in Conns : TinyAccepts(c)
<1>1. CASE \E c \in Clients : Connect(c) \/ Send(c) \/ Close(c)
  BY <1>1 DEF Connect, Send, Close, HangsUp, Keeps, ProxyKeeps, TinyKeeps, proxyVars, tinyVars, clientVars
<1>2. CASE RunsCgi
  BY <1>2 DEF RunsCgi, cgi_Ends, Keeps, proxyVars, clientVars
<1>3. CASE Serves
  <2>1. UNCHANGED <<proxyVars, clientVars>> /\ ProxyKeeps /\ target' = target
    BY <1>3 DEF Serves, ProxyKeeps, proxyVars, clientVars
  <2>2. CASE t_Accept
    BY <2>1, <2>2 DEF t_Accept, TinyAccepts
  <2>3. ASSUME NEW lines, t_Answers(lines), t_pc \notin Idle PROVE TinyCloses \/ TinyDies
    BY <2>1, <2>3 DEF t_Answers, TinyCloses, TinyDies
  <2>10. ASSUME NEW lines, t_Fails(lines), t_pc \notin Idle PROVE TinyDies
    BY <2>1, <2>10 DEF t_Fails, TinyDies
  <2>4. CASE t_Request
    <3>1. t_pc \notin Idle
      BY <2>4 DEF t_Request, Idle
    <3>2. CASE t_Answers(ErrorPage("501"))
      BY <2>1, <2>3, <3>1, <3>2
    <3>3. CASE t_pc' = "first header" /\ UNCHANGED <<near, far, queue, t_conn>>
      BY <2>1, <3>1, <3>3 DEF Keeps, Idle, ProxyKeeps
    <3> QED BY <2>4, <3>2, <3>3 DEF t_Request
  <2>5. CASE t_NoRequest \/ t_Wait
    BY <2>1, <2>5 DEF t_NoRequest, t_Wait, TinyCloses, Idle
  <2>6. CASE t_Header
    BY <2>1, <2>6 DEF t_Header, Keeps, Idle, ProxyKeeps
  <2>7. CASE t_NoHeader
    BY <2>1, <2>7 DEF t_NoHeader, Keeps, Idle, ProxyKeeps, netVars
  <2>8. CASE t_Serve \/ t_Garbled
    BY <2>1, <2>3, <2>8, <2>10 DEF t_Serve, t_Garbled, TinyDies, Idle
  <2>9. CASE serve_dynamic
    BY <2>1, <2>9, <2>10 DEF serve_dynamic, Keeps, Idle, ProxyKeeps, TinyDies
  <2> QED BY <1>3, <2>2, <2>4, <2>5, <2>6, <2>7, <2>8, <2>9 DEF Serves, TinyStep
<1>4. CASE Proxies
  <2>1. UNCHANGED <<tinyVars, clientVars>> /\ TinyKeeps /\ UNCHANGED <<t_conn, t_pc, target>>
    BY <1>4 DEF Proxies, TinyKeeps, tinyVars, clientVars
  <2>2. CASE p_Accept
    BY <2>1, <2>2 DEF p_Accept, ProxyAccepts
  <2>3. CASE p_Request
    <3>1. pc = "request" /\ pc \notin Idle /\ pc \notin Sending
      BY <2>3 DEF p_Request, Idle, Sending
    <3>2. CASE \E e : clienterror(e)
      BY <2>1, <3>1, <3>2 DEF clienterror, ProxyCloses, ProxyDies
    <3>3. CASE pc' = "first header" /\ UNCHANGED <<near, far, queue, client>>
      BY <2>1, <3>1, <3>3 DEF Keeps, Idle, Sending
    <3> QED BY <2>3, <3>2, <3>3 DEF p_Request
  <2>4. CASE p_NoRequest
    BY <2>1, <2>4 DEF p_NoRequest, ProxyCloses
  <2>5. CASE p_FirstHeader
    BY <2>1, <2>5 DEF p_FirstHeader, Checks, Keeps, Idle, Sending
  <2>6. CASE p_Header
    BY <2>1, <2>6 DEF p_Header, Checks, Keeps, Idle, Sending
  <2>7. CASE p_Connect
    BY <2>1, <2>7 DEF p_Connect, Dials, ProxyDies, Idle
  <2>8. CASE p_Send
    BY <2>1, <2>8 DEF p_Send, Keeps, ProxyDies, Idle, Sending
  <2>9. CASE p_Reply
    BY <2>1, <2>9 DEF p_Reply, Keeps, ProxyDies, Idle, Sending
  <2>10. CASE p_ReplyEnds
    BY <2>1, <2>10 DEF p_ReplyEnds, Keeps, Idle, Sending, netVars
  <2>11. CASE p_Entity \/ p_Garbled
    BY <2>1, <2>11 DEF p_Entity, p_Garbled, ProxyDies, Idle
  <2> QED BY <1>4, <2>2, <2>3, <2>4, <2>5, <2>6, <2>7, <2>8, <2>9, <2>10, <2>11 DEF Proxies, ProxyStep
<1> QED BY <1>1, <1>2, <1>3, <1>4 DEF Next

(* Who is in a queue waits there. *)
LEMMA InQueue ==
    ASSUME ProxyTypes, Queued, NEW s \in Servers, NEW i \in 1 .. Len(queue[s])
    PROVE  /\ queue[s][i] \in Conns /\ far[queue[s][i]] = "queued" /\ ServerOf(queue[s][i]) = s
           /\ \A j \in 1 .. Len(queue[s]) : queue[s][j] = queue[s][i] => j = i
<1>1. queue[s] \in Seq(Conns)
  BY DEF ProxyTypes
<1> QED BY <1>1, ElementOfSeq DEF Queued

(* A connection that is made was not there. *)
LEMMA Fresh ==
    ASSUME ProxyTypes, Connected, Queued, NEW s \in Servers, NEW c \in Conns, ServerOf(c) = s,
           near[c] = "none", Connects(c, s), UNCHANGED <<up, down, client, t_conn, target>>,
           pc \in Idle <=> pc' \in Idle, t_pc' = t_pc, ProxyTypes'
    PROVE  Connected' /\ Queued' /\ near' = [near EXCEPT ![c] = "open"]
<1>1. /\ far[c] = "none" /\ near' = [near EXCEPT ![c] = "open"] /\ far' = [far EXCEPT ![c] = "queued"]
      /\ near \in [Conns -> {"none", "open", "closed"}] /\ far \in [Conns -> {"none", "queued", "open", "closed"}]
  BY DEF Connected, Connects, ProxyTypes
<1>2. \A d \in Conns : ServerOf(d)' = ServerOf(d)
  BY DEF ServerOf
<1>3. \A r \in Servers : Serving(r)' = Serving(r) /\ (Serving(r) # "none" => Serving(r) \in Conns)
  BY Names DEF Serving, ProxyTypes
<1>4. Connected'
  <2>1. \A d \in Conns : near'[d] = "none" <=> far'[d] = "none"
    BY <1>1 DEF Connected
  <2>2. \A d \in Conns : far'[d] = "open" => Serving(ServerOf(d))' = d
    <3>1. \A d \in Conns : ServerOf(d) \in Servers
      BY Names DEF ServerOf, ProxyTypes, Conns
    <3> QED BY <1>1, <1>2, <1>3, <3>1 DEF Connected
  <2>3. \A r \in Servers : Serving(r)' # "none" => ServerOf(Serving(r))' = r /\ far'[Serving(r)'] = "open"
    BY <1>1, <1>2, <1>3 DEF Connected
  <2> QED BY <2>1, <2>2, <2>3 DEF Connected, Idle
<1>5. /\ Len(queue[s]) \in Nat /\ Len(queue'[s]) = Len(queue[s]) + 1
      /\ \A i \in 1 .. Len(queue[s]) : queue'[s][i] = queue[s][i]
      /\ queue'[s][Len(queue[s]) + 1] = c
      /\ \A r \in Servers \ {s} : queue'[r] = queue[r]
  <2>1. NetTypes
    BY DEF ProxyTypes, NetTypes
  <2>2. \A r \in Servers \ {s} : queue'[r] = queue[r]
    BY DEF Connects, ProxyTypes
  <2> QED BY <2>1, <2>2, ConnectsTypes
<1>6. Queued'
  <2> SUFFICES ASSUME NEW r \in Servers, NEW i \in 1 .. Len(queue'[r])
               PROVE  /\ ServerOf(queue[r][i])' = r /\ far'[queue'[r][i]] = "queued"
                      /\ \A j \in 1 .. Len(queue'[r]) : queue'[r][i] = queue'[r][j] => i = j
    BY DEF Queued
  <2>1. CASE r # s
    <3>1. queue'[r] = queue[r] /\ i \in 1 .. Len(queue[r])
      BY <1>5, <2>1
    <3>2. far[queue[r][i]] = "queued" /\ queue[r][i] \in Conns /\ ServerOf(queue[r][i]) = r
      BY <3>1, InQueue DEF Queued
    <3>3. far'[queue[r][i]] = "queued"
      BY <1>1, <3>2
    <3>4. \A j \in 1 .. Len(queue[r]) : queue[r][i] = queue[r][j] => i = j
      BY <3>1 DEF Queued
    <3> QED BY <1>2, <3>1, <3>2, <3>3, <3>4
  <2>2. CASE r = s
    <3>1. \A j \in 1 .. Len(queue'[s]) : j \in 1 .. Len(queue[s]) \/ j = Len(queue[s]) + 1
      BY <1>5
    <3>2. \A j \in 1 .. Len(queue[s]) :
            /\ queue'[s][j] = queue[s][j] /\ queue[s][j] \in Conns /\ far[queue[s][j]] = "queued"
            /\ ServerOf(queue[s][j]) = s
      BY <1>5, InQueue
    <3>3. \A j \in 1 .. Len(queue[s]) : queue'[s][j] # c /\ far'[queue'[s][j]] = "queued"
      BY <1>1, <3>2
    <3>4. far'[c] = "queued" /\ queue'[s][Len(queue[s]) + 1] = c
      BY <1>1, <1>5
    <3>5. \A j, l \in 1 .. Len(queue[s]) : queue'[s][j] = queue'[s][l] => j = l
      BY <3>2, InQueue
    <3>6. far'[queue'[s][i]] = "queued" /\ ServerOf(queue'[s][i]) = s
      BY <2>2, <3>1, <3>2, <3>3, <3>4
    <3>7. \A j \in 1 .. Len(queue'[s]) : queue'[s][i] = queue'[s][j] => i = j
      BY <2>2, <3>1, <3>3, <3>4, <3>5
    <3>8. ServerOf(queue[s][i])' = ServerOf(queue'[s][i])
      BY DEF ServerOf
    <3> QED BY <2>2, <3>6, <3>7, <3>8
  <2> QED BY <2>1, <2>2
<1> QED BY <1>1, <1>4, <1>6

(* A server's state is that of one step later, when it serves the head of  *)
(* its queue.                                                              *)
LEMMA Taken ==
    ASSUME ProxyTypes, Connected, Queued, NEW s \in Servers, NEW c, Accepts(s, c),
           Serving(s) = "none", Serving(s)' = c, target' = target,
           \A r \in Servers \ {s} : Serving(r)' = Serving(r),
           client' = "none" <=> pc' \in Idle, t_conn' = "none" <=> t_pc' \in Idle
    PROVE  Connected' /\ Queued' /\ c \in Conns /\ ServerOf(c) = s /\ near' = near
<1>1. NetTypes
  BY DEF ProxyTypes, NetTypes
<1>2. /\ NetTypes' /\ c \in Conns
      /\ Len(queue[s]) \in Nat /\ Len(queue[s]) > 0 /\ c = queue[s][1]
      /\ Len(queue'[s]) = Len(queue[s]) - 1
      /\ \A i \in 1 .. Len(queue[s]) - 1 : queue'[s][i] = queue[s][i + 1]
  BY <1>1, AcceptsTypes
<1>3. /\ near' = near /\ far' = [far EXCEPT ![c] = "open"]
      /\ \A r \in Servers \ {s} : queue'[r] = queue[r]
  BY DEF Accepts, ProxyTypes
<1>4. ServerOf(c) = s /\ far[c] = "queued"
  BY <1>2, InQueue
<1>5. \A d \in Conns : ServerOf(d)' = ServerOf(d) /\ ServerOf(d) \in Servers
  BY Names DEF ServerOf, ProxyTypes, Conns
<1>6. Connected'
  <2>1. far \in [Conns -> {"none", "queued", "open", "closed"}] /\ "none" \notin Conns
    BY Names DEF ProxyTypes
  <2>2. \A r \in Servers : Serving(r) # "none" => Serving(r) \in Conns
    BY Names DEF Serving, ProxyTypes
  <2>3. \A d \in Conns : near'[d] = "none" <=> far'[d] = "none"
    BY <1>2, <1>3, <1>4, <2>1 DEF Connected
  <2>4. ASSUME NEW d \in Conns, far'[d] = "open" PROVE Serving(ServerOf(d))' = d
    <3>1. CASE d = c
      BY <1>4, <1>5, <3>1
    <3>2. CASE d # c
      <4>1. Serving(ServerOf(d)) = d
        BY <1>3, <2>1, <2>4, <3>2 DEF Connected
      <4>2. ServerOf(d) # s
        BY <2>1, <4>1
      <4> QED BY <1>5, <4>1, <4>2
    <3> QED BY <3>1, <3>2
  <2>5. ASSUME NEW r \in Servers, Serving(r)' # "none"
        PROVE  ServerOf(Serving(r))' = r /\ far'[Serving(r)'] = "open"
    BY <1>2, <1>3, <1>4, <1>5, <2>1, <2>2, <2>5 DEF Connected
  <2> QED BY <2>3, <2>4, <2>5 DEF Connected, Idle
<1>7. Queued'
  <2> SUFFICES ASSUME NEW r \in Servers, NEW i \in 1 .. Len(queue'[r])
               PROVE  /\ ServerOf(queue[r][i])' = r /\ far'[queue'[r][i]] = "queued"
                      /\ \A j \in 1 .. Len(queue'[r]) : queue'[r][i] = queue'[r][j] => i = j
    BY DEF Queued
  <2>1. far \in [Conns -> {"none", "queued", "open", "closed"}]
    BY DEF ProxyTypes
  <2>2. CASE r # s
    BY <1>3, <1>4, <1>5, <2>1, <2>2, InQueue
  <2>3. CASE r = s
    <3>1. 1 \in 1 .. Len(queue[s]) /\ i + 1 \in 1 .. Len(queue[s]) /\ queue'[s][i] = queue[s][i + 1]
      BY <1>2, <2>3
    <3>2. queue[s][i + 1] # c /\ queue[s][i + 1] \in Conns /\ far[queue[s][i + 1]] = "queued"
          /\ ServerOf(queue[s][i + 1]) = s
      BY <1>2, <3>1, InQueue
    <3>3. \A j \in 1 .. Len(queue'[s]) : queue'[s][j] = queue'[s][i] => j = i
      BY <1>2, <3>1, InQueue
    <3> QED BY <1>3, <1>5, <2>1, <2>3, <3>1, <3>2, <3>3
  <2> QED BY <2>2, <2>3
<1> QED BY <1>2, <1>3, <1>4, <1>6, <1>7

(* Connections end: those that server s serves and perhaps those that wait *)
(* for it.                                                                 *)
LEMMA Ended ==
    ASSUME ProxyTypes, Connected, Queued, NEW s \in Servers, Serving(s) # "none",
           Serving(s)' = "none", target' = target,
           \A r \in Servers \ {s} : Serving(r)' = Serving(r) /\ queue'[r] = queue[r],
           client' = "none" <=> pc' \in Idle, t_conn' = "none" <=> t_pc' \in Idle,
           \/ CloseFar(Serving(s)) /\ queue'[s] = queue[s]
           \/ CloseAllOf(s, Serving(s)),
           \A d \in Conns : near'[d] = near[d] \/ (near[d] = "open" /\ near'[d] = "closed")
    PROVE  Connected' /\ Queued'
<1> DEFINE c == Serving(s)
<1>1. c \in Conns /\ ServerOf(c) = s /\ far[c] = "open"
  BY Names DEF Serving, ProxyTypes, Connected
<1>2. far \in [Conns -> {"none", "queued", "open", "closed"}] /\ "none" \notin Conns
  BY Names DEF ProxyTypes
<1>3. \A d \in Conns : ServerOf(d)' = ServerOf(d) /\ ServerOf(d) \in Servers
  BY Names DEF ServerOf, ProxyTypes, Conns
<1>4. far'[c] = "closed"
  BY <1>1, <1>2 DEF CloseFar, CloseAllOf
<1>5. \A d \in Conns : \/ far'[d] = far[d]
                       \/ /\ far'[d] = "closed" /\ far[d] \in {"open", "queued"}
                          /\ ServerOf(d) = s
  <2>1. CASE CloseFar(c)
    BY <1>1, <1>2, <2>1 DEF CloseFar
  <2>2. CASE CloseAllOf(s, c)
    <3>1. \A d \in Conns : far'[d] = IF d = c \/ \E i \in DOMAIN queue[s] : queue[s][i] = d
                                     THEN "closed" ELSE far[d]
      BY <2>2 DEF CloseAllOf
    <3>2. DOMAIN queue[s] = 1 .. Len(queue[s])
      BY LenProperties DEF ProxyTypes
    <3> QED BY <1>1, <3>1, <3>2, InQueue
  <2> QED BY <2>1, <2>2
<1> HIDE DEF c
<1>6. Connected'
  <2>1. \A r \in Servers : Serving(r) # "none" => Serving(r) \in Conns
    BY Names DEF Serving, ProxyTypes
  <2>2. \A d \in Conns : near'[d] = "none" <=> far'[d] = "none"
    <3> SUFFICES ASSUME NEW d \in Conns PROVE near'[d] = "none" <=> far'[d] = "none"
      OBVIOUS
    <3>1. (near[d] = "none" <=> far[d] = "none") /\ (near'[d] = near[d] \/ (near[d] = "open" /\ near'[d] = "closed"))
      BY DEF Connected
    <3> QED BY <1>5, <3>1
  <2>3. ASSUME NEW d \in Conns, far'[d] = "open" PROVE Serving(ServerOf(d))' = d
    <3>1. far[d] = "open" /\ Serving(ServerOf(d)) = d
      BY <1>5, <2>3 DEF Connected
    <3>2. d # c
      BY <1>4, <2>3
    <3>3. ServerOf(d) # s
      BY <3>1, <3>2 DEF c
    <3> QED BY <1>3, <3>1, <3>3
  <2>4. ASSUME NEW r \in Servers, Serving(r)' # "none"
        PROVE  ServerOf(Serving(r))' = r /\ far'[Serving(r)'] = "open"
    <3>1. r # s /\ Serving(r)' = Serving(r)
      BY <2>4
    <3>2. Serving(r) \in Conns /\ ServerOf(Serving(r)) = r /\ far[Serving(r)] = "open"
      BY <2>1, <2>4, <3>1 DEF Connected
    <3> QED BY <1>3, <1>5, <3>1, <3>2
  <2> QED BY <2>2, <2>3, <2>4 DEF Connected, Idle
<1>7. Queued'
  <2> SUFFICES ASSUME NEW r \in Servers, NEW i \in 1 .. Len(queue'[r])
               PROVE  /\ ServerOf(queue[r][i])' = r /\ far'[queue'[r][i]] = "queued"
                      /\ \A j \in 1 .. Len(queue'[r]) : queue'[r][i] = queue'[r][j] => i = j
    BY DEF Queued
  <2>1. CASE r # s
    BY <1>3, <1>5, <2>1, InQueue
  <2>2. CASE r = s /\ CloseFar(c) /\ queue'[s] = queue[s]
    BY <1>1, <1>2, <1>3, <2>2, InQueue DEF CloseFar
  <2>3. CASE r = s /\ CloseAllOf(s, c)
    <3>1. queue'[s] = <<>>
      BY <2>3 DEF CloseAllOf, ProxyTypes
    <3>2. Len(queue'[s]) = 0
      BY <3>1
    <3> QED BY <2>3, <3>2
  <2> QED BY <2>1, <2>2, <2>3 DEF c
<1> QED BY <1>6, <1>7

LEMMA ConnectionsStep ==
    ASSUME ProxyTypes, Connected, Queued, ForwardOnce, Next, ProxyTypes'
    PROVE  Connected' /\ Queued' /\ ForwardOnce'
<1>1. target' = target
  BY Moves
<1>2. /\ near \in [Conns -> {"none", "open", "closed"}] /\ target \in [Clients -> Servers]
      /\ (client = "none" <=> pc \in Idle) /\ (t_conn = "none" <=> t_pc \in Idle)
  BY DEF ProxyTypes, Connected, Idle
<1>3. CASE Keeps
  <2>1. UNCHANGED <<near, far, queue, client, t_conn, target>> /\ (pc \in Sending <=> pc' \in Sending)
        /\ (pc = "exited" <=> pc' = "exited")
        /\ (pc \in Idle <=> pc' \in Idle) /\ (t_pc \in Idle <=> t_pc' \in Idle)
    BY <1>3 DEF Keeps, Idle
  <2>2. Connected'
    BY <2>1 DEF Connected, Serving, ServerOf, Idle
  <2>3. Queued'
    BY <2>1 DEF Queued, ServerOf
  <2>4. ForwardOnce'
    BY <2>1 DEF ForwardOnce, Sending
  <2> QED BY <2>2, <2>3, <2>4
<1>4. CASE ProxyCloses
  <2>1. /\ CloseFar(client) /\ pc = "request" /\ pc' = "accept" /\ client' = "none"
        /\ UNCHANGED <<near, queue, t_pc, t_conn>>
    BY <1>4 DEF ProxyCloses, CloseClient, Done, TinyKeeps
  <2>2. Serving("proxy") = client /\ client # "none" /\ Serving("proxy")' = "none"
        /\ Serving("tiny") = t_conn /\ Serving("tiny")' = t_conn'
    BY <1>2, <2>1 DEF Serving, Idle
  <2>3. Connected' /\ Queued'
    BY <1>1, <1>2, <2>1, <2>2, Ended, Names DEF Idle
  <2> QED BY <2>1, <2>3 DEF ForwardOnce
<1>5. CASE TinyCloses
  <2>1. /\ CloseFar(t_conn) /\ t_pc \notin Idle /\ t_pc' = "accept" /\ t_conn' = "none"
        /\ UNCHANGED <<near, queue, pc, client>>
    BY <1>5 DEF TinyCloses, t_Close, ProxyKeeps
  <2>2. Serving("tiny") = t_conn /\ t_conn # "none" /\ Serving("tiny")' = "none"
        /\ Serving("proxy") = client /\ Serving("proxy")' = client'
    BY <1>2, <2>1 DEF Serving
  <2>3. Connected' /\ Queued'
    BY <1>1, <1>2, <2>1, <2>2, Ended, Names DEF Idle
  <2> QED BY <2>1, <2>3 DEF ForwardOnce
<1>6. CASE TinyDies
  <2>1. /\ CloseAllOf("tiny", t_conn) /\ t_pc \notin Idle /\ t_pc' = "exited" /\ t_conn' = "none"
        /\ UNCHANGED <<near, pc, client>>
    BY <1>6 DEF TinyDies, t_Dies, ProxyKeeps
  <2>2. Serving("tiny") = t_conn /\ t_conn # "none" /\ Serving("tiny")' = "none"
        /\ Serving("proxy") = client /\ Serving("proxy")' = client' /\ queue'["proxy"] = queue["proxy"]
    BY <1>2, <2>1, Names DEF Serving, CloseAllOf, ProxyTypes
  <2>3. Connected' /\ Queued'
    BY <1>1, <1>2, <2>1, <2>2, Ended, Names DEF Idle
  <2> QED BY <2>1, <2>3 DEF ForwardOnce
<1>7. CASE ProxyDies
  <2>1. /\ CloseAllOf("proxy", client) /\ pc \notin Idle /\ pc' = "exited" /\ client' = "none"
        /\ near' = [near EXCEPT !["forward"] = IF @ = "open" THEN "closed" ELSE @]
        /\ UNCHANGED <<t_pc, t_conn>>
    BY <1>7 DEF ProxyDies, Exits, TinyKeeps
  <2>2. Serving("tiny") = t_conn /\ client # "none" /\ Serving("tiny")' = t_conn'
        /\ Serving("proxy") = client /\ Serving("proxy")' = "none" /\ queue'["tiny"] = queue["tiny"]
    BY <1>2, <2>1, Names DEF Serving, CloseAllOf, ProxyTypes
  <2>3. \A d \in Conns : near'[d] = near[d] \/ (near[d] = "open" /\ near'[d] = "closed")
    BY <1>2, <2>1
  <2>4. Connected' /\ Queued'
    BY <1>1, <1>2, <2>1, <2>2, <2>3, Ended, Names DEF Idle
  <2>5. ForwardOnce'
    BY <1>2, <2>1, Names DEF ForwardOnce
  <2> QED BY <2>4, <2>5
<1>8. CASE Dials
  <2>1. /\ pc = "connect" /\ pc' = "send" /\ client' = client /\ UNCHANGED <<t_pc, t_conn, up, down>>
        /\ Connects("forward", "tiny")
    BY <1>8 DEF Dials, TinyKeeps
  <2>2. near["forward"] = "none" /\ ServerOf("forward") = "tiny"
    BY <1>2, <2>1, Names DEF ForwardOnce, ServerOf
  <2>3. Connected' /\ Queued' /\ near' = [near EXCEPT !["forward"] = "open"]
    BY <1>1, <2>1, <2>2, Fresh, Names DEF Idle
  <2>4. ForwardOnce'
    BY <1>2, <2>1, <2>3, Names DEF ForwardOnce
  <2> QED BY <2>3, <2>4
<1>9. ASSUME NEW c \in Clients, near[c] = "none", Connects(c, target[c]), ProxyKeeps, TinyKeeps,
             UNCHANGED <<up, down>>
      PROVE  Connected' /\ Queued' /\ ForwardOnce'
  <2>1. ServerOf(c) = target[c] /\ c \in Conns /\ target[c] \in Servers /\ c # "forward"
    BY <1>2, Names DEF ServerOf
  <2>2. Connected' /\ Queued' /\ near' = [near EXCEPT ![c] = "open"]
    BY <1>1, <1>9, <2>1, Fresh DEF ProxyKeeps, TinyKeeps
  <2>3. ForwardOnce'
    BY <1>2, <1>9, <2>1, <2>2, Names DEF ForwardOnce, ProxyKeeps
  <2> QED BY <2>2, <2>3
<1>10. ASSUME NEW c \in Clients, HangsUp(c) PROVE Connected' /\ Queued' /\ ForwardOnce'
  <2>1. /\ near[c] = "open" /\ near' = [near EXCEPT ![c] = "closed"]
        /\ UNCHANGED <<far, queue, client, pc, t_conn, t_pc, target>> /\ c # "forward" /\ c \in Conns
    BY <1>1, <1>10, Names DEF HangsUp, ProxyKeeps, TinyKeeps
  <2>2. \A d \in Conns : near'[d] = "none" <=> near[d] = "none"
    BY <1>2, <2>1
  <2>3. Connected'
    BY <2>1, <2>2 DEF Connected, Serving, ServerOf
  <2>4. Queued'
    BY <2>1 DEF Queued, ServerOf
  <2>5. ForwardOnce'
    BY <1>2, <2>1, Names DEF ForwardOnce
  <2> QED BY <2>3, <2>4, <2>5
<1>11. ASSUME NEW c \in Clients, ProxyAccepts(c) PROVE Connected' /\ Queued' /\ ForwardOnce'
  <2>1. pc = "accept" /\ pc' = "request" /\ client' = c /\ Accepts("proxy", c) /\ UNCHANGED <<t_pc, t_conn>>
    BY <1>11 DEF ProxyAccepts, TinyKeeps
  <2>2. Serving("proxy") = "none" /\ Serving("proxy")' = c /\ Serving("tiny")' = Serving("tiny")
        /\ c # "none"
    BY <1>2, <2>1, Names DEF Serving, Idle
  <2>3. Connected' /\ Queued' /\ near' = near
    BY <1>1, <1>2, <2>1, <2>2, Taken, Names DEF Idle
  <2> QED BY <2>1, <2>3 DEF ForwardOnce
<1>12. ASSUME NEW c \in Conns, TinyAccepts(c) PROVE Connected' /\ Queued' /\ ForwardOnce'
  <2>1. t_pc = "accept" /\ t_pc' = "request" /\ t_conn' = c /\ Accepts("tiny", c) /\ UNCHANGED <<pc, client>>
    BY <1>12 DEF TinyAccepts, ProxyKeeps
  <2>2. Serving("tiny") = "none" /\ Serving("tiny")' = c /\ Serving("proxy")' = Serving("proxy")
        /\ c # "none"
    BY <1>2, <2>1, Names DEF Serving, Idle
  <2>3. Connected' /\ Queued' /\ near' = near
    BY <1>1, <1>2, <2>1, <2>2, Taken, Names DEF Idle
  <2> QED BY <2>1, <2>3 DEF ForwardOnce
<1> QED BY <1>3, <1>4, <1>5, <1>6, <1>7, <1>8, <1>9, <1>10, <1>11, <1>12, Moves

-----------------------------------------------------------------------------
(* What is read first. *)

(* The servers serve different connections. *)
LEMMA Apart ==
    ASSUME ProxyTypes, Connected
    PROVE  client # "none" => client # t_conn
BY Names DEF Connected, Serving

(* Who changes what is sent and not read yet. *)
LEMMA UpChanges ==
    ASSUME ProxyTypes, Connected, Next, NEW d \in Conns
    PROVE  \/ up'[d] = up[d] /\ (d \in Clients => sent'[d] = sent[d])
           \/ d \in Clients /\ Send(d)
           \/ /\ d = client /\ pc \in {"request", "first header", "headers"} /\ pc' # "request"
              /\ client' = client /\ HasLine(d) /\ ~Unread(d)'
           \/ /\ d = t_conn /\ t_pc \in {"request", "first header", "headers"} /\ t_pc' # "request"
              /\ HasLine(d) /\ pc' = pc /\ client' = client /\ ~Unread(d)'
           \/ /\ d = "forward" /\ pc = "send" /\ pc' = "reply" /\ client' = client
              /\ up'[d] = up[d] \o msg
<1>1. up \in [Conns -> Seq(MessageLines)]
  BY DEF ProxyTypes
<1>2. CASE \E c \in Clients : Connect(c) \/ Send(c) \/ Close(c)
  <2>1. PICK c \in Clients : Connect(c) \/ Send(c) \/ Close(c)
    BY <1>2
  <2>2. CASE Connect(c) \/ Close(c)
    BY <2>2 DEF Connect, Close, clientVars
  <2>3. CASE Send(c) /\ d # c
    BY <1>1, <2>3 DEF Send, ProxyTypes
  <2> QED BY <2>1, <2>2, <2>3
<1>3. CASE RunsCgi
  BY <1>3 DEF RunsCgi, cgi_Ends, clientVars
<1>4. CASE Serves
  <2>1. UNCHANGED <<proxyVars, clientVars>> /\ UNCHANGED <<pc, client, sent>>
    BY <1>4 DEF Serves, proxyVars, clientVars
  <2>2. CASE UNCHANGED up
    BY <2>1, <2>2
  <2>3. CASE /\ HasLine(t_conn) /\ ReadsLine(t_conn) /\ t_pc \in {"request", "first header", "headers"}
             /\ t_pc' # "request" /\ UNCHANGED <<far, t_conn>>
    <3>1. far[t_conn] = "open" /\ t_conn # client /\ t_conn \in Conns
      BY <2>3, ConnServed, Apart, Names
    <3>2. ~Unread(t_conn)'
      BY <2>1, <2>3, <3>1 DEF Unread
    <3> QED BY <1>1, <2>1, <2>3, <3>2 DEF ReadsLine
  <2>4. UNCHANGED up \/ (HasLine(t_conn) /\ ReadsLine(t_conn)
          /\ t_pc \in {"request", "first header", "headers"} /\ t_pc' # "request"
          /\ UNCHANGED <<far, t_conn>>)
    BY <1>4 DEF Serves, TinyStep, t_Accept, Accepts, t_Request, t_NoRequest, t_Header, t_NoHeader, netVars,
                t_Garbled, t_Serve, serve_dynamic, t_Wait, t_Answers, t_Fails
  <2> QED BY <2>2, <2>3, <2>4
<1>5. CASE Proxies
  <2>1. UNCHANGED <<tinyVars, clientVars>> /\ UNCHANGED sent
    BY <1>5 DEF Proxies, clientVars
  <2>2. CASE UNCHANGED up
    BY <2>1, <2>2
  <2>3. CASE /\ HasLine(client) /\ ReadsLine(client) /\ pc \in {"request", "first header", "headers"}
             /\ pc' # "request" /\ client' = client /\ far' = far
    <3>1. far[client] = "open" /\ t_conn # client /\ client \in Conns
      BY <2>3, ClientServed, Apart, Names
    <3>2. ~Unread(client)'
      BY <2>1, <2>3, <3>1 DEF Unread, tinyVars
    <3> QED BY <1>1, <2>1, <2>3, <3>2 DEF ReadsLine
  <2>4. CASE up' = [up EXCEPT !["forward"] = @ \o msg] /\ pc = "send" /\ pc' = "reply" /\ client' = client
    BY <1>1, <2>1, <2>4
  <2>5. \/ UNCHANGED up
        \/ /\ HasLine(client) /\ ReadsLine(client) /\ pc \in {"request", "first header", "headers"}
           /\ pc' # "request" /\ client' = client /\ far' = far
        \/ up' = [up EXCEPT !["forward"] = @ \o msg] /\ pc = "send" /\ pc' = "reply" /\ client' = client
    <3>1. CASE p_Request
      BY <3>1 DEF p_Request, clienterror
    <3>2. CASE p_FirstHeader
      BY <3>2 DEF p_FirstHeader, ReadsInto, Checks
    <3>3. CASE p_Header
      BY <3>3 DEF p_Header, ReadsInto, Checks
    <3>4. CASE p_Send
      BY <3>4 DEF p_Send
    <3>5. CASE p_Accept \/ p_Garbled \/ p_NoRequest \/ p_Connect \/ p_Reply \/ p_ReplyEnds \/ p_Entity
      BY <3>5 DEF p_Accept, Accepts, p_Garbled, p_NoRequest, p_Connect, p_Reply, p_ReplyEnds, netVars, p_Entity
    <3> QED BY <1>5, <3>1, <3>2, <3>3, <3>4, <3>5 DEF Proxies, ProxyStep
  <2> QED BY <2>2, <2>3, <2>4, <2>5
<1> QED BY <1>2, <1>3, <1>4, <1>5 DEF Next

(* What is unread was unread before. *)
LEMMA UnreadStays ==
    ASSUME ProxyTypes, Connected, Queued, ForwardOnce, Next, NEW d \in Conns, Unread(d)'
    PROVE  Unread(d)
<1>1. /\ far \in [Conns -> {"none", "queued", "open", "closed"}] /\ "none" \notin Conns
      /\ (near[d] = "none" => far[d] = "none")
  BY Names DEF ProxyTypes, Connected
<1>2. NetTypes
  BY DEF ProxyTypes, NetTypes
<1>3. CASE Keeps
  BY <1>3 DEF Unread, Keeps
<1>4. CASE ProxyCloses
  BY <1>1, <1>4 DEF ProxyCloses, CloseClient, CloseFar, Done, TinyKeeps, Unread
<1>5. CASE TinyCloses
  BY <1>1, <1>5 DEF TinyCloses, t_Close, CloseFar, ProxyKeeps, Unread
<1>6. CASE TinyDies
  BY <1>1, <1>6 DEF TinyDies, t_Dies, CloseAllOf, ProxyKeeps, Unread
<1>7. CASE ProxyDies
  BY <1>1, <1>7 DEF ProxyDies, Exits, CloseAllOf, TinyKeeps, Unread
<1>8. CASE Dials
  <2>1. near["forward"] = "none"
    BY <1>8, Names DEF Dials, ForwardOnce, ProxyTypes
  <2> QED BY <1>1, <1>8, <2>1 DEF Dials, Connects, TinyKeeps, Unread
<1>9. ASSUME NEW c \in Clients, near[c] = "none", Connects(c, target[c]), ProxyKeeps, TinyKeeps
      PROVE  Unread(d)
  BY <1>1, <1>9 DEF Connects, ProxyKeeps, TinyKeeps, Unread
<1>10. ASSUME NEW c \in Clients, HangsUp(c) PROVE Unread(d)
  BY <1>10 DEF HangsUp, ProxyKeeps, TinyKeeps, Unread
<1>11. ASSUME NEW s \in Servers, NEW c, Accepts(s, c) PROVE far[c] = "queued" /\ far' = [far EXCEPT ![c] = "open"]
  <2>1. Len(queue[s]) \in Nat /\ Len(queue[s]) > 0 /\ c = queue[s][1]
    BY <1>2, <1>11, AcceptsTypes
  <2> QED BY <1>11, <2>1, InQueue DEF Accepts
<1>12. ASSUME NEW c \in Clients, ProxyAccepts(c) PROVE Unread(d)
  <2>1. far[c] = "queued" /\ far' = [far EXCEPT ![c] = "open"] /\ client' = c /\ UNCHANGED <<t_pc, t_conn>>
    BY <1>11, <1>12, Names DEF ProxyAccepts, TinyKeeps
  <2> QED BY <1>1, <2>1 DEF Unread
<1>13. ASSUME NEW c \in Conns, TinyAccepts(c) PROVE Unread(d)
  <2>1. far[c] = "queued" /\ far' = [far EXCEPT ![c] = "open"] /\ t_conn' = c /\ UNCHANGED <<pc, client>>
    BY <1>11, <1>13, Names DEF TinyAccepts, ProxyKeeps
  <2> QED BY <1>1, <2>1 DEF Unread
<1> QED BY <1>3, <1>4, <1>5, <1>6, <1>7, <1>8, <1>9, <1>10, <1>12, <1>13, Moves

(* A server that reads the request line reads the client's.                *)
LEMMA ReadsFirst ==
    ASSUME ProxyTypes, Connected, FirstLines, NEW c \in Clients, Unread(c), HasLine(c)
    PROVE  Head(up[c]) = request[c][1] /\ Head(up[c]).line = Line1(c) /\ sent[c] \in Nat /\ sent[c] > 0
<1>1. up[c] = SubSeq(request[c], 1, sent[c]) /\ up[c] # <<>>
  BY DEF FirstLines, HasLine
<1>2. sent[c] \in Nat /\ sent[c] <= Len(request[c]) /\ request[c] \in Seq(MessageLines)
      /\ Len(request[c]) \in Nat
  BY FirstIsRequest DEF ProxyTypes
<1>3. sent[c] > 0
  BY <1>1, <1>2, SubSeqEmpty
<1>4. Head(up[c]) = request[c][1]
  BY <1>1, <1>2, <1>3, SubSeqProperties, HeadTailProperties, LenProperties
<1> QED BY <1>2, <1>3, <1>4 DEF Line1

LEMMA ClientsChange ==
    ASSUME ProxyTypes, Connected, ForwardOnce, Next
    PROVE  /\ client' = client \/ client' = "none" \/ (client = "none" /\ pc = "accept" /\ pc' = "request")
           /\ request' = request /\ target' = target
           /\ (pc' # pc => (client' = client \/ pc' \in {"accept", "request", "exited"}))
           /\ pc \in {"reply", "entity", "exited"} => pc' \in {"reply", "entity", "exited"}
<1>1. request' = request /\ target' = target
  BY DEF Next, Proxies, Serves, RunsCgi, Connect, Send, Close, clientVars
<1>2. CASE Keeps
  <2>1. client' = client
    BY <1>2 DEF Keeps
  <2>2. pc = "exited" => pc' = "exited"
    BY <1>2 DEF Keeps, Idle
  <2>3. pc \in {"reply", "entity"} => pc' \in {"reply", "entity", "exited"}
    BY DEF Next, Proxies, Serves, RunsCgi, ProxyStep, Connect, Send, Close, proxyVars, p_Accept, p_Request,
           p_Garbled, p_NoRequest, p_FirstHeader, p_Header, p_Connect, p_Send, p_Reply, p_ReplyEnds, p_Entity, Exits
  <2> QED BY <1>1, <2>1, <2>2, <2>3
<1>3. CASE ~Keeps
  BY <1>1, <1>3, Moves DEF ProxyCloses, TinyCloses, TinyDies, ProxyDies, Dials, ProxyKeeps, HangsUp,
     ProxyAccepts, TinyAccepts, CloseClient, Done, Exits, Idle, Connected
<1> QED BY <1>2, <1>3

LEMMA MessageStep ==
    ASSUME ProxyTypes, Connected, FirstLines, Message, Next
    PROVE  Message'
<1> DEFINE HasMessage == {"first header", "headers", "connect", "send"}
           Has(p, c, m) == /\ p \in HasMessage =>
                                m # <<>> /\ \E line \in Accepted(c) : m[1] = Forwarded(line)
                           /\ p \notin HasMessage => m = <<>>
                           /\ c # "none" /\ p # "request" => Accepted(c) # {}
<1>1. Has(pc, client, msg) /\ (client = "none" <=> pc \in Idle)
  BY DEF Message, Connected, Idle
<1>2. \A c : Accepted(c)' = Accepted(c)
  BY DEF Accepted, Line1, Next, Proxies, Serves, RunsCgi, Connect, Send, Close, clientVars
<1>3. SUFFICES Has(pc', client', msg')
  <2>1. Accepted(client)' = Accepted(client')
    BY DEF Accepted, Line1, Next, Proxies, Serves, RunsCgi, Connect, Send, Close, clientVars
  <2> QED BY <2>1 DEF Message
<1>4. CASE ~Proxies
  <2>1. UNCHANGED <<pc, client, msg>>
    BY <1>4 DEF Next, Serves, RunsCgi, Connect, Send, Close, proxyVars
  <2> QED BY <1>1, <2>1
<1>5. CASE Exits
  BY <1>5 DEF Exits
<1>6. CASE p_Accept
  BY <1>1, <1>6 DEF p_Accept
<1>7. CASE p_Request
  <2>1. client \in Clients /\ pc = "request" /\ HasLine(client) /\ Unread(client) /\ msg = <<>>
    BY <1>1, <1>7, ClientServed DEF p_Request, Unread
  <2>2. PICK line \in Understood(Head(up[client]).line) :
          IF RequestError(line) # "none" THEN clienterror(RequestError(line))
          ELSE /\ msg' = append_msg([msg |-> msg, nleft |-> MAXLINE - 1], Forwarded(line)).msg
               /\ pc' = "first header" /\ client' = client
    BY <1>7 DEF p_Request
  <2>3. CASE RequestError(line) # "none"
    BY <1>5, <2>1, <2>2, <2>3 DEF clienterror, CloseClient, Done
  <2>4. CASE RequestError(line) = "none"
    <3>1. line \in Accepted(client)
      BY <2>1, <2>2, <2>4, ReadsFirst DEF Accepted
    <3>2. Size(Forwarded(line)) = 2 /\ Forwarded(line) # Nothing
      BY DEF Size, Forwarded, Request, Nothing
    <3> DEFINE m == [msg |-> msg, nleft |-> MAXLINE - 1]
    <3>5. append_msg(m, Forwarded(line)).msg = Append(<<>>, Forwarded(line))
      BY <2>1, <3>2, MessageAssumption DEF append_msg
    <3>3. msg' = Append(<<>>, Forwarded(line))
      BY <2>2, <2>4, <3>5
    <3>4. msg' # <<>> /\ msg'[1] = Forwarded(line)
      BY <3>3
    <3> QED BY <2>2, <2>4, <3>1, <3>4
  <2> QED BY <2>3, <2>4
<1>8. CASE p_NoRequest
  BY <1>1, <1>8 DEF p_NoRequest, CloseClient, Done, Idle
<1>9. CASE p_FirstHeader \/ p_Header
  <2>1. client \in Clients /\ pc \in {"first header", "headers"} /\ msg # <<>> /\ msg \in Seq(MessageLines)
        /\ client' = client
    BY <1>1, <1>9, ClientServed DEF p_FirstHeader, p_Header, ProxyTypes
  <2>2. proxy_forw.msg = msg
    BY DEF proxy_forw
  <2>3. PICK line : /\ line \in {buf} \cup (IF HasLine(client) THEN {Head(up[client])} ELSE {})
                    /\ \/ Checks(line)
                       \/ msg' = Finished(proxy_forw, flag_host_hdr).msg /\ pc' = "connect"
    BY <1>9 DEF p_FirstHeader, p_Header
  <2>4. line \in MessageLines \cup {Nothing}
    <3>1. up[client] \in Seq(MessageLines)
      BY <2>1, Names DEF ProxyTypes
    <3>2. HasLine(client) => Head(up[client]) \in MessageLines
      BY <3>1, HeadTailProperties DEF HasLine
    <3> QED BY <2>1, <2>3, <3>2 DEF ProxyTypes
  <2>5. msg' # <<>> /\ msg'[1] = msg[1] /\ pc' \in {"headers", "connect"}
    <3>1. CASE Checks(line)
      <4>1. CheckedEntry(line) \in MessageLines \cup {Nothing}
        BY <2>4, CheckedEntryType
      <4> QED BY <2>1, <2>2, <3>1, <4>1, AppendMsgType DEF Checks
    <3>2. CASE msg' = Finished(proxy_forw, flag_host_hdr).msg /\ pc' = "connect"
      BY <2>1, <2>2, <3>2, FinishedType
    <3> QED BY <2>3, <3>1, <3>2
  <2> QED BY <1>1, <2>1, <2>5, Names
<1>10. CASE p_Connect
  BY <1>1, <1>5, <1>10 DEF p_Connect, Idle
<1>11. CASE p_Send
  BY <1>1, <1>5, <1>11 DEF p_Send, Idle
<1>12. CASE p_Reply
  BY <1>1, <1>5, <1>12 DEF p_Reply, Idle
<1>13. CASE p_ReplyEnds
  BY <1>1, <1>13 DEF p_ReplyEnds, Idle
<1>14. CASE p_Entity \/ p_Garbled
  BY <1>5, <1>14 DEF p_Entity, p_Garbled
<1> QED BY <1>4, <1>6, <1>7, <1>8, <1>9, <1>10, <1>11, <1>12, <1>13, <1>14 DEF Proxies, ProxyStep

(* What may open a connection may open it as long as it lasts. *)
LEMMA OpeningStays ==
    ASSUME ProxyTypes, Connected, ForwardOnce, Next, NEW d \in Conns,
           d = "forward" => near["forward"] # "none"
    PROVE  Opening(d) \subseteq Opening(d)'
<1>1. (\A c : Line1(c)' = Line1(c)) /\ (\A c : Accepted(c)' = Accepted(c))
  BY ClientsChange DEF Accepted, Line1
<1>2. CASE d # "forward"
  BY <1>1, <1>2 DEF Opening
<1>3. CASE d = "forward"
  <2>1. pc # "accept"
    BY <1>3, Names DEF ForwardOnce, ProxyTypes
  <2>2. client' \in {client, "none"}
    BY <2>1, ClientsChange
  <2> QED BY <1>1, <1>3, <2>2 DEF Opening
<1> QED BY <1>2, <1>3

LEMMA FirstLinesStep ==
    ASSUME ProxyTypes, Connected, Queued, ForwardOnce, FirstLines, Message, Next
    PROVE  FirstLines'
<1>1. up \in [Conns -> Seq(MessageLines)] /\ request' = request
  BY ClientsChange DEF ProxyTypes
<1>2. ASSUME NEW c \in Clients, Unread(c)' PROVE up'[c] = SubSeq(request'[c], 1, sent'[c])
  <2>1. c \in Conns /\ c # "forward"
    BY Names
  <2>2. Unread(c)
    BY <1>2, <2>1, UnreadStays
  <2>3. up[c] = SubSeq(request[c], 1, sent[c])
    BY <2>2 DEF FirstLines
  <2>4. CASE up'[c] = up[c] /\ sent'[c] = sent[c]
    BY <1>1, <2>3, <2>4
  <2>5. CASE Send(c)
    <3>1. sent[c] \in Nat /\ sent[c] < Len(request[c]) /\ request[c] \in Seq(MessageLines)
          /\ Len(request[c]) \in Nat /\ sent'[c] = sent[c] + 1
      BY <2>5, FirstIsRequest DEF Send, ProxyTypes
    <3>2. far[c] # "closed"
      <4>1. far'[c] # "closed"
        <5>1. Serving(ServerOf(c))' = c => far'[c] = far[c]
          BY <2>5 DEF Send
        <5>2. UNCHANGED <<far, client, t_conn>>
          BY <2>5 DEF Send, proxyVars, tinyVars
        <5>3. c = client => far[c] = "open"
          BY Names DEF Connected, Serving
        <5>4. c = t_conn => far[c] = "open"
          BY Names DEF Connected, Serving
        <5> QED BY <2>2, <5>2, <5>3, <5>4 DEF Unread
      <4> QED BY <2>5, <4>1 DEF Send
    <3>3. up'[c] = Append(up[c], request[c][sent[c] + 1])
      BY <1>1, <2>1, <2>5, <3>2 DEF Send
    <3>4. Append(SubSeq(request[c], 1, sent[c]), request[c][sent[c] + 1]) = SubSeq(request[c], 1, sent[c] + 1)
      BY <3>1
    <3> QED BY <1>1, <2>3, <3>1, <3>3, <3>4
  <2>6. QED BY <1>2, <2>1, <2>4, <2>5, UpChanges
<1>3. ASSUME pc' \notin {"reply", "entity", "exited"} PROVE up'["forward"] = <<>>
  <2>1. pc \notin {"reply", "entity", "exited"}
    BY <1>3, ClientsChange
  <2>2. up["forward"] = <<>>
    BY <2>1 DEF FirstLines
  <2> QED BY <1>3, <2>2, UpChanges, Names DEF HasLine
<1>4. ASSUME Unread("forward")', up'["forward"] # <<>>
      PROVE  \E line \in Opening("forward")' : Head(up'["forward"]) = Request(line)
  <2>1. Unread("forward")
    BY <1>4, UnreadStays, Names
  <2>2. CASE up'["forward"] = up["forward"]
    <3>1. PICK line \in Opening("forward") : Head(up["forward"]) = Request(line)
      BY <1>4, <2>1, <2>2 DEF FirstLines
    <3>2. pc \in {"reply", "entity", "exited"}
      BY <1>4, <2>2 DEF FirstLines
    <3>3. client' \in {client, "none"}
      BY <3>2, ClientsChange
    <3>4. \A c : Accepted(c)' = Accepted(c)
      BY ClientsChange DEF Accepted, Line1
    <3>5. line \in Opening("forward")'
      BY <3>1, <3>3, <3>4 DEF Opening
    <3> QED BY <2>2, <3>1, <3>5
  <2>3. CASE pc = "send" /\ pc' = "reply" /\ client' = client /\ up'["forward"] = up["forward"] \o msg
    <3>1. client \in Clients
      BY <2>3, ClientServed
    <3>2. PICK line \in Accepted(client) : msg[1] = Forwarded(line)
      BY <2>3 DEF Message
    <3>3. up["forward"] = <<>> /\ msg # <<>> /\ msg \in Seq(MessageLines)
      BY <2>3 DEF FirstLines, Message, ProxyTypes
    <3>4. up'["forward"] = msg /\ Head(msg) = msg[1]
      BY <2>3, <3>3, ConcatEmptySeq, HeadTailProperties
    <3>5. \A c : Accepted(c)' = Accepted(c)
      BY ClientsChange DEF Accepted, Line1
    <3>6. Forwarded(line).line \in Opening("forward")'
      BY <2>3, <3>1, <3>2, <3>5 DEF Opening
    <3>7. Forwarded(line) = Request(Forwarded(line).line)
      BY DEF Forwarded, Request
    <3> QED BY <3>2, <3>4, <3>6, <3>7
  <2> QED BY <1>4, <2>2, <2>3, UpChanges, Names
<1> QED BY <1>2, <1>3, <1>4 DEF FirstLines

LEMMA TinyServingStep ==
    ASSUME ProxyTypes, Connected, Queued, ForwardOnce, FirstLines, TinyServing, Next
    PROVE  TinyServing'
<1> DEFINE Busy == {"first header", "headers", "serve", "wait"}
           Found(d, line) == \E read \in Opening(d) : line \in Scanned(read)
<1>1. /\ t_pc \in Busy => t_line.method = "GET" /\ Found(t_conn, t_line)
      /\ t_pc = "wait" <=> cgi # "none"
      /\ t_pc = "wait" => t_line.url.file = "cgi"
  BY DEF TinyServing
<1>2. ASSUME t_pc \notin Idle
      PROVE  t_conn \in Conns /\ (t_conn = "forward" => near["forward"] # "none")
    BY <1>2, ConnServed, Names DEF Connected, Idle
<1>3. ASSUME t_pc \notin Idle, t_conn' = t_conn PROVE Opening(t_conn) \subseteq Opening(t_conn)'
  <2>1. PICK d \in Conns : d = t_conn
    BY <1>2, <1>3
  <2>2. d = "forward" => near["forward"] # "none"
    BY <1>2, <1>3, <2>1
  <2>3. Opening(d) \subseteq Opening(d)'
    BY <2>2, OpeningStays
  <2>4. Opening(t_conn)' = Opening(d)'
    BY <1>3, <2>1 DEF Opening, Line1
  <2> QED BY <2>1, <2>3, <2>4
<1>8. ASSUME t_pc \in Busy, t_pc' \in Busy, UNCHANGED <<t_conn, t_line>>,
             (t_pc' = "wait" <=> cgi' # "none"), t_pc' = "wait" => t_line.url.file = "cgi"
      PROVE  TinyServing'
  <2>1. PICK read \in Opening(t_conn) : t_line \in Scanned(read)
    BY <1>1, <1>8
  <2>2. read \in Opening(t_conn)'
    BY <1>3, <1>8, <2>1 DEF Idle
  <2> QED BY <1>1, <1>8, <2>1, <2>2 DEF TinyServing
<1>9. ASSUME t_pc' \notin Busy, cgi' = "none" PROVE TinyServing'
  BY <1>9 DEF TinyServing
<1>4. CASE UNCHANGED tinyVars
  <2>1. UNCHANGED <<t_pc, t_conn, t_line, cgi>>
    BY <1>4 DEF tinyVars
  <2>2. CASE t_pc \in Busy
    BY <1>1, <1>8, <2>1, <2>2
  <2>3. CASE t_pc \notin Busy
    BY <1>1, <1>9, <2>1, <2>3
  <2> QED BY <2>2, <2>3
<1>5. CASE RunsCgi
  <2>1. UNCHANGED <<t_pc, t_conn, t_line>> /\ cgi # "none" /\ cgi' # "none"
    BY <1>5 DEF RunsCgi, cgi_Ends
  <2> QED BY <1>1, <1>8, <2>1
<1>6. CASE Serves
  <2>1. CASE t_pc' \in Idle /\ cgi' = "none"
    BY <1>9, <2>1 DEF Idle
  <2>8. ASSUME NEW lines, t_Answers(lines) \/ t_Fails(lines) PROVE TinyServing'
    BY <2>1, <2>8 DEF t_Answers, t_Fails, t_Close, t_Dies, Idle
  <2>2. CASE t_Accept
    BY <1>1, <1>9, <2>2 DEF t_Accept
  <2>3. CASE t_Request
    <3>1. t_pc = "request" /\ t_conn \in Conns /\ Unread(t_conn) /\ HasLine(t_conn)
      BY <1>2, <2>3 DEF t_Request, Unread, Idle
    <3>2. PICK line \in Scanned(Head(up[t_conn]).line) :
            IF line.method # "GET" THEN t_Answers(ErrorPage("501"))
            ELSE t_line' = line /\ t_pc' = "first header" /\ UNCHANGED <<t_conn, cgi>>
      BY <2>3 DEF t_Request
    <3>3. CASE line.method # "GET"
      BY <2>8, <3>2, <3>3
    <3>4. CASE line.method = "GET"
      <4>1. PICK read \in Opening(t_conn) : Head(up[t_conn]).line = read
        <5>1. CASE t_conn = "forward"
          <6>1. Unread("forward") /\ up["forward"] # <<>>
            BY <3>1, <5>1 DEF HasLine
          <6>2. PICK read \in Opening("forward") : Head(up["forward"]) = Request(read)
            BY <6>1 DEF FirstLines
          <6> QED BY <5>1, <6>2 DEF Request
        <5>2. CASE t_conn # "forward"
          <6>1. PICK c \in Clients : c = t_conn
            BY <3>1, <5>2 DEF Conns
          <6>2. Head(up[c]).line = Line1(c)
            BY <3>1, <6>1, ReadsFirst
          <6> QED BY <5>2, <6>1, <6>2 DEF Opening
        <5> QED BY <5>1, <5>2
      <4>2. read \in Opening(t_conn)'
        BY <1>3, <3>1, <3>2, <3>4, <4>1 DEF Idle
      <4> QED BY <1>1, <3>1, <3>2, <3>4, <4>1, <4>2 DEF TinyServing
    <3> QED BY <3>3, <3>4
  <2>4. CASE t_NoRequest \/ t_Wait \/ t_Garbled
    BY <2>1, <2>4 DEF t_NoRequest, t_Wait, t_Garbled, t_Close, t_Dies, Idle
  <2>9. CASE t_Serve
    BY <2>8, <2>9 DEF t_Serve
  <2>5. CASE t_Header \/ t_NoHeader
    <3>1. t_pc \in Busy /\ t_pc # "wait" /\ t_pc' \in Busy /\ t_pc' # "wait" /\ UNCHANGED <<t_conn, t_line, cgi>>
      BY <2>5 DEF t_Header, t_NoHeader
    <3> QED BY <1>1, <1>8, <3>1
  <2>7. CASE serve_dynamic
    <3>1. CASE t_pc' = "wait" /\ cgi' = "running" /\ UNCHANGED <<t_conn, t_line>>
      BY <1>8, <2>7, <3>1 DEF serve_dynamic
    <3>2. CASE t_Fails(DynamicHead)
      BY <2>8, <3>2
    <3>3. CASE t_Dies
      BY <2>1, <3>3 DEF t_Dies, Idle
    <3> QED BY <2>7, <3>1, <3>2, <3>3 DEF serve_dynamic
  <2> QED BY <1>6, <2>2, <2>3, <2>4, <2>5, <2>7, <2>9 DEF Serves, TinyStep
<1>7. Serves \/ RunsCgi \/ UNCHANGED tinyVars
  BY DEF Next, Proxies, Connect, Send, Close
<1> QED BY <1>4, <1>5, <1>6, <1>7

-----------------------------------------------------------------------------
(* What is written. *)

(* Prefixes of replies. *)
LEMMA ReplyPrefixes ==
    ASSUME NEW s \in Seq(ReplyLines), NEW u \in Seq(ReplyLines)
    PROVE  IsPrefix(s, s \o u) /\ IsPrefix(<<>>, s) /\ IsPrefix(s, s)
<1>1. /\ Len(s) \in Nat /\ Len(u) \in Nat /\ s \o u \in Seq(ReplyLines)
      /\ Len(s \o u) = Len(s) + Len(u) /\ \A i \in 1 .. Len(s) : (s \o u)[i] = s[i]
  BY LenProperties, ConcatProperties
<1>2. SubSeq(s, 1, Len(s)) = SubSeq(s \o u, 1, Len(s))
  <2>1. \A i \in 1 .. Len(s) : s[i] \in ReplyLines /\ (s \o u)[i] \in ReplyLines
    BY <1>1, ElementOfSeq
  <2>2. /\ SubSeq(s, 1, Len(s)) \in Seq(ReplyLines) /\ SubSeq(s \o u, 1, Len(s)) \in Seq(ReplyLines)
        /\ Len(SubSeq(s, 1, Len(s))) = Len(SubSeq(s \o u, 1, Len(s)))
        /\ \A i \in 1 .. Len(SubSeq(s, 1, Len(s))) :
             SubSeq(s, 1, Len(s))[i] = SubSeq(s \o u, 1, Len(s))[i]
    BY <1>1, <2>1, SubSeqProperties
  <2> QED BY <2>2, SeqEqual
<1>3. SubSeq(<<>>, 1, 0) = SubSeq(s, 1, 0)
  BY SubSeqEmpty
<1> QED BY <1>1, <1>2, <1>3 DEF IsPrefix

LEMMA PrefixOfPrefix ==
    ASSUME NEW s \in Seq(ReplyLines), NEW u \in Seq(ReplyLines), NEW v \in Seq(ReplyLines),
           IsPrefix(s \o u, v)
    PROVE  IsPrefix(s, v)
<1>1. /\ Len(s) \in Nat /\ Len(u) \in Nat /\ Len(v) \in Nat /\ s \o u \in Seq(ReplyLines)
      /\ Len(s \o u) = Len(s) + Len(u) /\ \A i \in 1 .. Len(s) : (s \o u)[i] = s[i]
  BY LenProperties, ConcatProperties
<1>2. Len(s \o u) <= Len(v) /\ SubSeq(s \o u, 1, Len(s \o u)) = SubSeq(v, 1, Len(s \o u))
  BY DEF IsPrefix
<1>3. \A i \in 1 .. Len(v) : v[i] \in ReplyLines
  BY <1>1, ElementOfSeq
<1>4. \A i \in 1 .. Len(s \o u) : (s \o u)[i] \in ReplyLines
  BY <1>1, ElementOfSeq
<1>5. \A i \in 1 .. Len(s \o u) :
        SubSeq(s \o u, 1, Len(s \o u))[i] = (s \o u)[i] /\ SubSeq(v, 1, Len(s \o u))[i] = v[i]
  BY <1>1, <1>2, <1>3, <1>4, SubSeqProperties
<1>6. \A i \in 1 .. Len(s) : s[i] = v[i] /\ s[i] \in ReplyLines /\ v[i] \in ReplyLines
  BY <1>1, <1>2, <1>3, <1>5, ElementOfSeq
<1>7. /\ SubSeq(s, 1, Len(s)) \in Seq(ReplyLines) /\ SubSeq(v, 1, Len(s)) \in Seq(ReplyLines)
      /\ Len(SubSeq(s, 1, Len(s))) = Len(SubSeq(v, 1, Len(s)))
      /\ \A i \in 1 .. Len(SubSeq(s, 1, Len(s))) :
           SubSeq(s, 1, Len(s))[i] = SubSeq(v, 1, Len(s))[i]
  BY <1>1, <1>6, SubSeqProperties
<1>8. SubSeq(s, 1, Len(s)) = SubSeq(v, 1, Len(s))
  BY <1>7, SeqEqual
<1> QED BY <1>1, <1>2, <1>8 DEF IsPrefix

(* There is a reply to every request. *)
LEMMA SomeReply ==
    ASSUME NEW line \in RequestLines
    PROVE  TinyReplies(line) \subseteq Seq(ReplyLines) /\ TinyReplies(line) # {}
<1>1. line.method # "GET" => TinyReplies(line) = {ErrorPage("501")}
  BY DEF TinyReplies
<1>2. line.url.file \in {"static", "missing", "forbidden", "cgi"}
  BY DEF RequestLines, URLs
<1>3. line.method = "GET" =>
        TinyReplies(line) \in {{StaticReply}, {ErrorPage("404")}, {ErrorPage("403")}, {DynamicHead \o CgiOutput}}
  BY <1>2 DEF TinyReplies
<1>4. DynamicHead \o CgiOutput \in Seq(ReplyLines)
  BY RepliesAreLines, ConcatProperties
<1> QED BY <1>1, <1>3, <1>4, RepliesAreLines

(* There is a reply to every client. *)
LEMMA ClientReplies ==
    ASSUME ProxyTypes, NEW c \in Clients
    PROVE  /\ AskedReplies(c) # {} /\ AskedReplies(c) \subseteq Seq(ReplyLines)
           /\ Replies(c) # {} /\ Replies(c) \subseteq Seq(ReplyLines)
           /\ \A line \in Accepted(c) :
                /\ TinyReplies(Forwarded(line).line) # {}
                /\ TinyReplies(Forwarded(line).line) \subseteq Seq(ReplyLines)
<1>1. Line1(c) \in RequestLines /\ c # "forward"
  BY FirstIsRequest, Names
<1>2. Understood(Line1(c)) # {} /\ Scanned(Line1(c)) # {}
  <2> DEFINE line == Line1(c)
             methods == IF line.words = 0 THEN {"GET", "POST"} ELSE {line.method}
             urls == IF line.words < 2 THEN Garbage ELSE {line.url}
             found == IF line.url.scheme = "cut short" THEN Garbage ELSE {line.url}
             Read(method, url) == [line EXCEPT !.method = method, !.url = url]
             Found(url) == [line EXCEPT !.url = url]
  <2>1. methods # {} /\ urls # {} /\ found # {}
    BY GarbageAssumption
  <2>2. Scanned(line) = {Read(method, url) : method \in methods, url \in urls}
    BY DEF Scanned
  <2>3. Understood(line) = {Found(url) : url \in found}
    BY DEF Understood
  <2>4. PICK method, url : method \in methods /\ url \in urls
    BY <2>1
  <2>5. PICK read : read \in found
    BY <2>1
  <2> HIDE DEF methods, urls, found, Read, Found, line
  <2>6. Read(method, url) \in Scanned(line)
    BY <2>2, <2>4
  <2>7. Found(read) \in Understood(line)
    BY <2>3, <2>5
  <2> QED BY <2>6, <2>7 DEF line
<1>3. Scanned(Line1(c)) \subseteq RequestLines /\ Accepted(c) \subseteq RequestLines
  BY <1>1, ReadingsAreLines, OpeningAreLines
<1>4. AskedReplies(c) # {} /\ AskedReplies(c) \subseteq Seq(ReplyLines)
  <2>1. AskedReplies(c) = UNION {TinyReplies(line) : line \in Scanned(Line1(c))}
    BY <1>1 DEF AskedReplies
  <2> QED BY <1>2, <1>3, <2>1, SomeReply
<1>5. \A line \in Accepted(c) :
        /\ TinyReplies(Forwarded(line).line) # {}
        /\ TinyReplies(Forwarded(line).line) \subseteq Seq(ReplyLines)
  BY <1>3, ForwardedIsLine, SomeReply
<1>6. \A line \in Understood(Line1(c)) \ Accepted(c) : ErrorPage(RequestError(line)) \in Seq(ReplyLines)
  <2> SUFFICES ASSUME NEW line \in Understood(Line1(c)) \ Accepted(c)
               PROVE  ErrorPage(RequestError(line)) \in Seq(ReplyLines)
    OBVIOUS
  <2>1. RequestError(line) \in {"400", "414", "422", "501", "505"}
    BY ErrorNumbers DEF Accepted
  <2> QED BY <2>1, RepliesAreLines
<1>7. Replies(c) # {} /\ Replies(c) \subseteq Seq(ReplyLines)
  <2>1. CASE target[c] = "tiny"
    BY <1>4, <2>1 DEF Replies
  <2>2. CASE target[c] # "tiny"
    <3>. DEFINE Good == UNION {TinyReplies(Forwarded(line).line) : line \in Accepted(c)}
                Bad == {ErrorPage(RequestError(line)) : line \in Understood(Line1(c)) \ Accepted(c)}
    <3>1. Replies(c) = Good \cup Bad
      BY <2>2 DEF Replies
    <3>5. Good \subseteq Seq(ReplyLines)
      BY <1>5
    <3>9. Bad \subseteq Seq(ReplyLines)
      BY <1>6
    <3>6. \A line \in Accepted(c) : TinyReplies(Forwarded(line).line) \subseteq Good
      OBVIOUS
    <3>7. \A line \in Understood(Line1(c)) \ Accepted(c) : ErrorPage(RequestError(line)) \in Bad
      OBVIOUS
    <3>. HIDE DEF Good, Bad
    <3>8. Replies(c) \subseteq Seq(ReplyLines)
      BY <3>1, <3>5, <3>9
    <3>2. PICK line : line \in Understood(Line1(c))
      BY <1>2
    <3>3. CASE line \in Accepted(c)
      <4>1. PICK reply : reply \in TinyReplies(Forwarded(line).line)
        BY <1>5, <3>3
      <4>2. reply \in Replies(c)
        BY <3>1, <3>3, <3>6, <4>1
      <4> QED BY <3>8, <4>2
    <3>4. CASE line \notin Accepted(c)
      <4>1. ErrorPage(RequestError(line)) \in Replies(c)
        BY <3>1, <3>2, <3>4, <3>7
      <4> QED BY <3>8, <4>1
    <3> QED BY <3>3, <3>4
  <2> QED BY <2>1, <2>2
<1> QED BY <1>4, <1>5, <1>7

(* The error page to a line the proxy does not accept is a reply to it. *)
LEMMA ErrorReply ==
    ASSUME NEW c \in Clients, target[c] = "proxy", NEW line \in Understood(Line1(c)) \ Accepted(c)
    PROVE  ErrorPage(RequestError(line)) \in Replies(c)
<1> DEFINE Good == UNION {TinyReplies(Forwarded(read).line) : read \in Accepted(c)}
           Bad == {ErrorPage(RequestError(read)) : read \in Understood(Line1(c)) \ Accepted(c)}
<1>1. ErrorPage(RequestError(line)) \in Bad
  OBVIOUS
<1>2. Replies(c) = Good \cup Bad
  BY DEF Replies
<1> HIDE DEF Good, Bad
<1> QED BY <1>1, <1>2

(* The connection is made, and the proxy does what the client asked. *)
Live(d) == ServerOf(d) = "tiny" /\ (d = "forward" => pc \in Sending)

LEMMA LiveFacts ==
    ASSUME ProxyTypes, Connected, NEW d \in Conns, Live(d)
    PROVE  /\ down[d] \in Seq(ReplyLines)
           /\ d = "forward" => /\ client \in Clients /\ client # "forward" /\ down[client] \in Seq(ReplyLines)
                               /\ client # t_conn
           /\ Produced(d) \in Seq(ReplyLines)
           /\ AskedReplies(d) \subseteq Seq(ReplyLines) /\ (Message => AskedReplies(d) # {})
           /\ \A read \in Opening(d) : \A line \in Scanned(read) : TinyReplies(line) \subseteq AskedReplies(d)
<1>1. CASE d = "forward"
  <2>1. client \in Clients /\ client \in Conns /\ client # t_conn
    BY <1>1, ClientServed, Apart, Names DEF Live, Sending
  <2>2. AskedReplies(d) = UNION {TinyReplies(Forwarded(line).line) : line \in Accepted(client)}
    BY <1>1 DEF AskedReplies
  <2>3. down[d] \in Seq(ReplyLines) /\ down[client] \in Seq(ReplyLines)
    BY <2>1 DEF ProxyTypes
  <2>4. Produced(d) \in Seq(ReplyLines)
    BY <1>1, <2>3, ConcatProperties DEF Produced
  <2>5. AskedReplies(d) \subseteq Seq(ReplyLines)
    BY <2>1, <2>2, ClientReplies
  <2>6. Message => AskedReplies(d) # {}
    <3> SUFFICES ASSUME Message PROVE AskedReplies(d) # {}
      OBVIOUS
    <3>1. PICK line : line \in Accepted(client)
      BY <1>1, <2>1, Names DEF Message, Live, Sending
    <3>2. PICK reply : reply \in TinyReplies(Forwarded(line).line)
      BY <2>1, <3>1, ClientReplies
    <3> QED BY <2>2, <3>1, <3>2
  <2>7. ASSUME NEW read \in Opening(d), NEW line \in Scanned(read)
        PROVE  TinyReplies(line) \subseteq AskedReplies(d)
    <3>1. PICK accepted \in Accepted(client) : read = Forwarded(accepted).line
      BY <1>1, <2>1, <2>7, Names DEF Opening
    <3>2. read \in RequestLines /\ read.words = 3
      BY <1>1, <2>7, OpeningAreLines
    <3>3. line = read
      BY <2>7, <3>2, ReadingsAreLines
    <3> QED BY <2>2, <3>1, <3>3
  <2> QED BY <1>1, <2>1, <2>3, <2>4, <2>5, <2>6, <2>7, Names
<1>2. CASE d # "forward"
  <2>1. d \in Clients
    BY <1>2 DEF Conns
  <2>2. down[d] \in Seq(ReplyLines)
    BY DEF ProxyTypes
  <2>3. \A read \in Opening(d) : \A line \in Scanned(read) : TinyReplies(line) \subseteq AskedReplies(d)
    BY <1>2 DEF Opening, AskedReplies
  <2> QED BY <1>2, <2>1, <2>2, <2>3, ClientReplies DEF Produced
<1> QED BY <1>1, <1>2

(* The reply to a request that Tiny has read. *)
LEMMA ServedReply ==
    ASSUME ProxyTypes, Connected, TinyServing, NEW d \in Conns, Live(d), d = t_conn,
           t_pc \in {"first header", "headers", "serve", "wait"}
    PROVE  /\ t_line.url.file \in {"static", "missing", "forbidden", "cgi"}
           /\ t_line.url.file = "static"    => StaticReply \in AskedReplies(d)
           /\ t_line.url.file = "missing"   => ErrorPage("404") \in AskedReplies(d)
           /\ t_line.url.file = "forbidden" => ErrorPage("403") \in AskedReplies(d)
           /\ t_line.url.file = "cgi"       => DynamicHead \o CgiOutput \in AskedReplies(d)
<1>1. t_line \in RequestLines /\ t_line.method = "GET"
  BY TinyLine
<1>2. t_line.url.file \in {"static", "missing", "forbidden", "cgi"}
  BY <1>1 DEF RequestLines, URLs
<1>3. TinyReplies(t_line) \subseteq AskedReplies(d)
  BY LiveFacts DEF TinyServing
<1> QED BY <1>1, <1>2, <1>3 DEF TinyReplies

(* What Tiny wrote is the beginning of a reply. *)
LEMMA ProducedIsReply ==
    ASSUME ProxyTypes, Connected, Message, TinyServing, NEW d \in Conns, Live(d), TinyWrote(d)
    PROVE  \E reply \in AskedReplies(d) : IsPrefix(Produced(d), reply)
<1>2. CASE Produced(d) = <<>>
  <2>1. PICK reply \in AskedReplies(d) : reply \in Seq(ReplyLines)
    BY LiveFacts
  <2> QED BY <1>2, <2>1, ReplyPrefixes
<1>3. CASE d = t_conn /\ cgi # "none"
  <2>1. t_pc = "wait" /\ t_line.url.file = "cgi"
    BY <1>3 DEF TinyServing
  <2>2. DynamicHead \o CgiOutput \in AskedReplies(d)
    BY <1>3, <2>1, ServedReply
  <2>3. cgi \in {"running", "ended"}
    BY <1>3 DEF ProxyTypes
  <2>4. Produced(d) \in {DynamicHead, DynamicHead \o CgiOutput}
    BY <1>3, <2>3 DEF TinyWrote
  <2>5. DynamicHead \o CgiOutput \in Seq(ReplyLines)
    BY RepliesAreLines, ConcatProperties
  <2> QED BY <2>2, <2>4, <2>5, RepliesAreLines, ReplyPrefixes
<1>4. CASE far[d] = "closed"
  BY <1>4 DEF TinyWrote
<1>5. Produced(d) = <<>> \/ (d = t_conn /\ cgi # "none") \/ far[d] = "closed"
  <2>1. far[d] = "open" => d = t_conn
    BY Names DEF Connected, Serving, Live
  <2>2. far[d] \in {"none", "queued", "open", "closed"}
    BY DEF ProxyTypes
  <2> QED BY <2>1, <2>2 DEF TinyWrote
<1> QED BY <1>2, <1>3, <1>4, <1>5

(* How the accepting ends change. *)
LEMMA FarChanges ==
    ASSUME ProxyTypes, Connected, Queued, ForwardOnce, Next, NEW d \in Conns
    PROVE  \/ far'[d] = far[d]
           \/ far[d] = "none" /\ far'[d] = "queued"
           \/ far[d] = "queued" /\ far'[d] = "open"
           \/ /\ far[d] \in {"queued", "open"} /\ far'[d] = "closed"
              /\ \/ ServerOf(d) = "proxy" /\ client # "none" /\ client' = "none"
                 \/ ServerOf(d) = "tiny" /\ t_conn # "none" /\ t_conn' = "none"
<1>1. /\ far \in [Conns -> {"none", "queued", "open", "closed"}]
      /\ \A c \in Conns : near[c] = "none" => far[c] = "none"
  BY DEF ProxyTypes, Connected
<1>2. NetTypes
  BY DEF ProxyTypes, NetTypes
<1>3. CASE Keeps \/ \E c \in Clients : HangsUp(c)
  BY <1>3 DEF Keeps, HangsUp
<1>4. ASSUME NEW s \in Servers, NEW c, Serving(s) = c, c # "none",
             CloseFar(c) \/ CloseAllOf(s, c)
      PROVE  far'[d] = far[d] \/ (far[d] \in {"queued", "open"} /\ far'[d] = "closed" /\ ServerOf(d) = s)
  <2>1. ServerOf(c) = s /\ far[c] = "open"
    BY <1>4 DEF Connected
  <2>2. CASE CloseFar(c)
    BY <1>1, <2>1, <2>2 DEF CloseFar
  <2>3. CASE CloseAllOf(s, c)
    <3>1. far'[d] = IF d = c \/ \E i \in DOMAIN queue[s] : queue[s][i] = d THEN "closed" ELSE far[d]
      BY <2>3 DEF CloseAllOf
    <3>2. DOMAIN queue[s] = 1 .. Len(queue[s])
      BY LenProperties DEF ProxyTypes
    <3> QED BY <2>1, <3>1, <3>2, InQueue
  <2> QED BY <1>4, <2>2, <2>3
<1>5. CASE ProxyCloses \/ ProxyDies
  <2>1. client # "none" /\ client' = "none" /\ (CloseFar(client) \/ CloseAllOf("proxy", client))
    BY <1>5 DEF ProxyCloses, ProxyDies, CloseClient, Done, Exits, Idle, Connected
  <2> QED BY <1>4, <2>1, Names DEF Serving
<1>6. CASE TinyCloses \/ TinyDies
  <2>1. t_conn # "none" /\ t_conn' = "none" /\ (CloseFar(t_conn) \/ CloseAllOf("tiny", t_conn))
    BY <1>6 DEF TinyCloses, TinyDies, t_Close, t_Dies, Idle, Connected
  <2> QED BY <1>4, <2>1, Names DEF Serving
<1>7. CASE Dials
  <2>1. near["forward"] = "none"
    BY <1>7, Names DEF Dials, ForwardOnce, ProxyTypes
  <2> QED BY <1>1, <1>7, <2>1, Names DEF Dials, Connects
<1>8. ASSUME NEW c \in Clients, near[c] = "none", Connects(c, target[c])
      PROVE  far'[d] = far[d] \/ (far[d] = "none" /\ far'[d] = "queued")
  BY <1>1, <1>8, Names DEF Connects
<1>9. ASSUME NEW s \in Servers, NEW c, Accepts(s, c)
      PROVE  far'[d] = far[d] \/ (far[d] = "queued" /\ far'[d] = "open")
  <2>1. Len(queue[s]) \in Nat /\ Len(queue[s]) > 0 /\ c = queue[s][1]
    BY <1>2, <1>9, AcceptsTypes
  <2> QED BY <1>1, <1>9, <2>1, InQueue DEF Accepts
<1>10. CASE (\E c \in Clients : ProxyAccepts(c)) \/ \E c \in Conns : TinyAccepts(c)
  BY <1>9, <1>10, Names DEF ProxyAccepts, TinyAccepts
<1> QED BY <1>3, <1>5, <1>6, <1>7, <1>8, <1>10, Moves

LEMMA RepliesAssociate ==
    ASSUME NEW s \in Seq(ReplyLines), NEW u \in Seq(ReplyLines), NEW v \in Seq(ReplyLines)
    PROVE  (s \o u) \o v = s \o (u \o v)
BY ConcatAssociative

(* What is written to Tiny's connection. *)
LEMMA WritesProduced ==
    ASSUME ProxyTypes, Connected, NEW d \in Conns, Live(d), t_pc \notin Idle,
           NEW lines \in Seq(ReplyLines), Writes(t_conn, lines), client' = client
    PROVE  /\ d # t_conn => Produced(d)' = Produced(d)
           /\ d = t_conn => Produced(d)' = Produced(d) \o lines
<1>1. t_conn \in Conns
  BY ConnServed DEF Idle
<1>2. NetTypes
  BY DEF NetTypes, ProxyTypes
<1>3. down'[t_conn] = down[t_conn] \o lines /\ \A c \in Conns \ {t_conn} : down'[c] = down[c]
  BY <1>1, <1>2, WritesTypes
<1>4. CASE d # "forward"
  BY <1>3, <1>4 DEF Produced
<1>5. CASE d = "forward"
  <2>1. client \in Conns /\ client # t_conn /\ down[client] \in Seq(ReplyLines) /\ down[d] \in Seq(ReplyLines)
    BY <1>5, LiveFacts, Names
  <2>2. (down[client] \o down[d]) \o lines = down[client] \o (down[d] \o lines)
    BY <2>1, RepliesAssociate
  <2> QED BY <1>3, <1>5, <2>1, <2>2 DEF Produced
<1> QED BY <1>4, <1>5

(* A line that is passed on was written once. *)
LEMMA PassedOn ==
    ASSUME NEW s \in Seq(ReplyLines), NEW u \in Seq(ReplyLines), u # <<>>
    PROVE  Append(s, Head(u)) \o Tail(u) = s \o u
<1>1. Head(u) \in ReplyLines /\ Tail(u) \in Seq(ReplyLines)
  BY HeadTailProperties
<1>2. Append(s, Head(u)) = s \o <<Head(u)>> /\ <<Head(u)>> \in Seq(ReplyLines)
  BY <1>1, AppendIsConcat
<1>3. <<Head(u)>> \o Tail(u) = u
  <2>1. /\ Len(u) \in Nat /\ Len(u) > 0 /\ Len(Tail(u)) = Len(u) - 1 /\ Head(u) = u[1]
        /\ \A i \in 1 .. Len(Tail(u)) : Tail(u)[i] = u[i + 1]
    BY HeadTailProperties, LenProperties, EmptySeq
  <2>2. /\ Len(<<Head(u)>> \o Tail(u)) = Len(u) /\ <<Head(u)>> \o Tail(u) \in Seq(ReplyLines)
        /\ \A i \in 1 .. Len(u) : (<<Head(u)>> \o Tail(u))[i] = u[i]
    BY <1>1, <1>2, <2>1, ConcatProperties
  <2> QED BY <2>2, SeqEqual
<1> QED BY <1>1, <1>2, <1>3, RepliesAssociate

(* A step after which nothing more is written on a connection that Tiny    *)
(* serves or has closed.                                                   *)
LEMMA NothingWritten ==
    ASSUME ProxyTypes, Connected, Queued, ForwardOnce, Message, TinyServing, Next, NEW d \in Conns,
           Live(d), TinyWrote(d), Produced(d)' = Produced(d), AskedReplies(d)' = AskedReplies(d),
           (t_conn' = t_conn /\ cgi' = cgi) \/ d # t_conn' \/ (far[d] = "queued" /\ cgi' = "none")
    PROVE  TinyWrote(d)'
<1>1. \E reply \in AskedReplies(d) : IsPrefix(Produced(d), reply)
  BY ProducedIsReply
<1>2. far'[d] \in {"none", "queued"} => far[d] \in {"none", "queued"}
  BY FarChanges
<1>3. far'[d] \in {"none", "queued"} => Produced(d) = <<>>
  BY <1>2 DEF TinyWrote
<1>4. d = t_conn' =>
         CASE cgi' = "none"    -> Produced(d) = <<>>
           [] cgi' = "running" -> Produced(d) = DynamicHead
           [] cgi' = "ended"   -> Produced(d) \in {DynamicHead, DynamicHead \o CgiOutput}
  BY DEF TinyWrote
<1>5. \E reply \in AskedReplies(d)' : IsPrefix(Produced(d)', reply)
  BY <1>1
<1> QED BY <1>3, <1>4, <1>5 DEF TinyWrote

(* What the connection asks for does not change. *)
LEMMA AskedStays ==
    ASSUME ProxyTypes, Connected, ForwardOnce, Next, NEW d \in Conns, Live(d)'
    PROVE  Live(d) => AskedReplies(d)' = AskedReplies(d) /\ (d = "forward" => client' = client)
<1>1. (\A c : Line1(c)' = Line1(c)) /\ (\A c : Accepted(c)' = Accepted(c))
  BY ClientsChange DEF Accepted, Line1
<1>2. d = "forward" /\ Live(d) => client' = client
  <2> SUFFICES ASSUME d = "forward", Live(d) PROVE client' = client
    OBVIOUS
  <2>1. pc \in Sending /\ pc' \in Sending
    BY DEF Live
  <2>2. client # "none"
    BY <2>1 DEF Connected, Sending
  <2> QED BY <2>1, <2>2, Moves
       DEF Keeps, ProxyCloses, TinyCloses, TinyDies, ProxyDies, Dials, ProxyKeeps, HangsUp, ProxyAccepts,
           TinyAccepts, CloseClient, Done, Exits, Sending
<1>3. ASSUME d = "forward", Live(d) PROVE Accepted(client)' = Accepted(client)
  <2>1. client' = client /\ request' = request
    BY <1>2, <1>3, ClientsChange
  <2> QED BY <2>1 DEF Accepted, Line1
<1> QED BY <1>1, <1>2, <1>3 DEF AskedReplies

(* The proxy dials: nothing is written. *)
LEMMA TinyWroteNothing ==
    ASSUME ProxyTypes, ProxyTypes', Connected, Queued, ForwardOnce, ProxyOutput, Next,
           NEW d \in Conns, Live(d)', ~Live(d)
    PROVE  TinyWrote(d)'
<1>1. d = "forward" /\ pc \notin Sending /\ pc' \in Sending
  BY Moves DEF Live, ServerOf
<1>2. Dials
  BY <1>1, Moves DEF Keeps, ProxyCloses, TinyCloses, TinyDies, ProxyDies, ProxyKeeps, HangsUp, ProxyAccepts,
     TinyAccepts, CloseClient, Done, Exits, Sending
<1>3. /\ pc = "connect" /\ client' = client /\ UNCHANGED <<up, down>> /\ t_conn' = t_conn
      /\ far' = [far EXCEPT !["forward"] = "queued"]
  BY <1>2 DEF Dials, Connects, TinyKeeps
<1>4. client \in Clients /\ target[client] = "proxy"
  BY <1>3, ClientServed
<1>5. far["forward"] = "none"
  <2>1. near["forward"] \in {"none", "open", "closed"} /\ pc = "connect"
    BY <1>3, Names DEF ProxyTypes
  <2>2. near["forward"] = "none"
    BY <2>1 DEF ForwardOnce
  <2> QED BY <2>2, Names DEF Connected
<1>6. down["forward"] = <<>> /\ down[client] = <<>>
  BY <1>3, <1>4, <1>5 DEF ProxyOutput
<1>7. Produced(d)' = <<>>
  <2>1. Produced(d)' = down[client] \o down["forward"]
    BY <1>1, <1>3 DEF Produced
  <2>2. <<>> \o <<>> = <<>>
    BY EmptySeq, ConcatEmptySeq
  <2> QED BY <1>6, <2>1, <2>2
<1>8. d # t_conn' /\ far'[d] = "queued"
  <2>1. t_conn # "none" => far[t_conn] = "open"
    BY Names DEF Connected, Serving
  <2> QED BY <1>1, <1>3, <1>5, <2>1, Names DEF ProxyTypes
<1> QED BY <1>7, <1>8 DEF TinyWrote

(* A step of the proxy or of a client writes nothing for Tiny. *)
LEMMA ProducedStays ==
    ASSUME ProxyTypes, Connected, ForwardOnce, Next, NEW d \in Conns, Live(d), Live(d)', ~Serves, ~RunsCgi
    PROVE  Produced(d)' = Produced(d)
<1>1. d = "forward" => /\ client' = client /\ client \in Clients /\ client # "forward"
                       /\ down[client] \in Seq(ReplyLines)
  BY AskedStays, LiveFacts
<1>2. client \in Clients => target[client] = "proxy"
  BY ClientServed, Names DEF Connected
<1>3. d # "forward" => d # client
  BY <1>2, Names DEF Live, ServerOf, Conns
<1>4. CASE UNCHANGED down
  BY <1>1, <1>4 DEF Produced
<1>5. CASE p_Request /\ ~UNCHANGED down
  <2>1. PICK errnum : Writes(client, ErrorPage(errnum)) /\ pc = "request"
    BY <1>5 DEF p_Request, clienterror
  <2>2. d # "forward"
    BY <2>1 DEF Live, Sending
  <2>3. down'[d] = down[d]
    BY <1>3, <2>1, <2>2 DEF Writes, ProxyTypes
  <2> QED BY <2>2, <2>3 DEF Produced
<1>6. CASE p_Reply /\ ~UNCHANGED down
  <2>1. /\ ReplyHasLine("forward") /\ pc = "reply"
        /\ down' = [down EXCEPT !["forward"] = Tail(@), ![client] = Append(@, Head(down["forward"]))]
    BY <1>6 DEF p_Reply
  <2>2. down \in [Conns -> Seq(ReplyLines)] /\ down["forward"] \in Seq(ReplyLines) /\ down["forward"] # <<>>
    BY <2>1, Names DEF ProxyTypes, ReplyHasLine
  <2>3. CASE d # "forward"
    <3>1. down'[d] = down[d]
      BY <1>3, <2>1, <2>2, <2>3
    <3> QED BY <2>3, <3>1 DEF Produced
  <2>4. CASE d = "forward"
    <3>1. down'["forward"] = Tail(down["forward"]) /\ down'[client] = Append(down[client], Head(down["forward"]))
      BY <1>1, <2>1, <2>2, <2>4, Names
    <3> QED BY <1>1, <2>2, <2>4, <3>1, PassedOn DEF Produced
  <2> QED BY <2>3, <2>4
<1>7. UNCHANGED down \/ p_Request \/ p_Reply
  BY DEF Next, Proxies, ProxyStep, Connect, Send, Close, p_Accept, Accepts, p_Garbled, p_NoRequest, p_FirstHeader,
         p_Header, p_Connect, p_Send, p_ReplyEnds, netVars, p_Entity
<1> QED BY <1>4, <1>5, <1>6, <1>7

(* Tiny answers, or fails or dies. *)
LEMMA TinyAnswers ==
    ASSUME ProxyTypes, Connected, Queued, ForwardOnce, Message, TinyServing, Next, NEW d \in Conns,
           Live(d), Live(d)', TinyWrote(d), AskedReplies(d)' = AskedReplies(d), client' = client,
           NEW lines \in Seq(ReplyLines), t_Answers(lines) \/ t_Fails(lines), t_pc \notin Idle, cgi = "none",
           d = t_conn => \E reply \in AskedReplies(d) : IsPrefix(lines, reply)
    PROVE  TinyWrote(d)'
<1>1. t_conn' = "none" /\ d # t_conn'
  BY Names DEF t_Answers, t_Fails, t_Close, t_Dies
<1>2. CASE UNCHANGED down
  <2>1. Produced(d)' = Produced(d)
    BY <1>2 DEF Produced
  <2> QED BY <1>1, <2>1, NothingWritten
<1>3. CASE Writes(t_conn, lines) /\ (t_Close \/ t_Dies)
  <2>1. /\ d # t_conn => Produced(d)' = Produced(d)
        /\ d = t_conn => Produced(d)' = Produced(d) \o lines
    BY <1>3, WritesProduced
  <2>2. CASE d # t_conn
    BY <1>1, <2>1, <2>2, NothingWritten
  <2>3. CASE d = t_conn
    <3>1. Produced(d) = <<>>
      BY <2>3 DEF TinyWrote
    <3>2. Produced(d)' = lines
      BY <2>1, <2>3, <3>1, ConcatEmptySeq
    <3>3. far'[d] = "closed"
      BY <1>3, <2>3 DEF t_Close, t_Dies, CloseFar, CloseAllOf, ProxyTypes
    <3>5. \E reply \in AskedReplies(d)' : IsPrefix(Produced(d)', reply)
      BY <2>3, <3>2
    <3> QED BY <1>1, <3>3, <3>5 DEF TinyWrote
  <2> QED BY <2>2, <2>3
<1> QED BY <1>2, <1>3 DEF t_Answers, t_Fails

(* The program writes the rest of the reply. *)
LEMMA CgiWrites ==
    ASSUME ProxyTypes, Connected, Queued, ForwardOnce, Message, TinyServing, Next, NEW d \in Conns,
           Live(d), TinyWrote(d), AskedReplies(d)' = AskedReplies(d), RunsCgi
    PROVE  TinyWrote(d)'
<1> DEFINE lines == IF t_line.url.arguments THEN CgiOutput ELSE <<>>
<1>1. /\ cgi = "running" /\ cgi' = "ended" /\ Writes(t_conn, lines)
      /\ UNCHANGED <<far, t_conn, client>>
  BY DEF RunsCgi, cgi_Ends, proxyVars
<1>2. t_pc = "wait"
  BY <1>1 DEF TinyServing
<1>3. lines \in Seq(ReplyLines)
  BY RepliesAreLines, EmptySeq
<1>4. /\ d # t_conn => Produced(d)' = Produced(d)
      /\ d = t_conn => Produced(d)' = Produced(d) \o lines
  BY <1>1, <1>2, <1>3, WritesProduced DEF Idle
<1>5. CASE d # t_conn
  BY <1>1, <1>4, <1>5, NothingWritten
<1>6. CASE d = t_conn
  <2>1. Produced(d) = DynamicHead
    BY <1>1, <1>6 DEF TinyWrote
  <2>2. DynamicHead \o <<>> = DynamicHead
    BY RepliesAreLines, ConcatEmptySeq
  <2>3. Produced(d)' \in {DynamicHead, DynamicHead \o CgiOutput}
    BY <1>4, <1>6, <2>1, <2>2
  <2>4. far'[d] = "open"
    BY <1>1, <1>2, <1>6, ConnServed
  <2> QED BY <1>1, <2>3, <2>4 DEF TinyWrote
<1> QED BY <1>5, <1>6

LEMMA TinyOutputStep ==
    ASSUME ProxyTypes, ProxyTypes', Connected, Queued, ForwardOnce, FirstLines, Message, TinyServing, ProxyOutput,
           \A d \in Conns : Live(d) => TinyWrote(d), Next, NEW d \in Conns, Live(d)'
    PROVE  TinyWrote(d)'
<1>1. CASE ~Live(d)
  BY <1>1, TinyWroteNothing
<1> SUFFICES ASSUME Live(d) PROVE TinyWrote(d)'
  BY <1>1
<1>2. TinyWrote(d) /\ AskedReplies(d)' = AskedReplies(d) /\ (d = "forward" => client' = client)
  BY AskedStays
<1>3. cgi = "none" <=> t_pc # "wait"
  BY DEF TinyServing
<1>4. CASE RunsCgi
  BY <1>2, <1>4, CgiWrites
<1>5. CASE ~Serves /\ ~RunsCgi
  <2>1. UNCHANGED tinyVars
    BY <1>5 DEF Next, Proxies, Connect, Send, Close
  <2>2. t_conn' = t_conn /\ cgi' = cgi
    BY <2>1 DEF tinyVars
  <2> QED BY <1>2, <1>5, <2>2, ProducedStays, NothingWritten
<1>6. CASE Serves
  <2>1. client' = client
    BY <1>6 DEF Serves, proxyVars
  <2>2. ASSUME UNCHANGED down, \/ UNCHANGED <<t_conn, cgi>> \/ d # t_conn' \/ (far[d] = "queued" /\ cgi' = "none")
        PROVE  TinyWrote(d)'
    <3>1. Produced(d)' = Produced(d)
      BY <2>1, <2>2 DEF Produced
    <3> QED BY <1>2, <2>2, <3>1, NothingWritten
  <2>3. CASE t_Accept
    <3>1. PICK c \in Conns : Accepts("tiny", c) /\ t_conn' = c
      BY <2>3 DEF t_Accept
    <3>2. Len(queue["tiny"]) \in Nat /\ Len(queue["tiny"]) > 0 /\ c = queue["tiny"][1]
      <4>1. NetTypes
        BY DEF NetTypes, ProxyTypes
      <4> QED BY <3>1, <4>1, AcceptsTypes, Names
    <3>3. far[c] = "queued"
      BY <3>2, InQueue, Names
    <3>4. cgi' = "none" /\ UNCHANGED down
      BY <1>3, <2>3, <3>1 DEF t_Accept, Accepts
    <3> QED BY <2>2, <3>1, <3>3, <3>4
  <2>4. CASE t_Request
    <3>1. t_pc = "request" /\ HasLine(t_conn) /\ cgi = "none"
      BY <1>3, <2>4 DEF t_Request
    <3>4. PICK line \in Scanned(Head(up[t_conn]).line) :
            IF line.method # "GET" THEN t_Answers(ErrorPage("501")) ELSE UNCHANGED <<down, t_conn, cgi>>
      BY <2>4 DEF t_Request
    <3>2. CASE line.method # "GET"
      <4>1. ASSUME d = t_conn PROVE \E reply \in AskedReplies(d) : IsPrefix(ErrorPage("501"), reply)
        <5>1. Unread(d) /\ HasLine(d)
          BY <3>1, <4>1 DEF Unread
        <5>2. Head(up[d]).line \in Opening(d)
          <6>1. CASE d = "forward"
            <7>1. PICK read \in Opening("forward") : Head(up["forward"]) = Request(read)
              BY <5>1, <6>1 DEF FirstLines, HasLine
            <7> QED BY <6>1, <7>1 DEF Request
          <6>2. CASE d # "forward"
            BY <5>1, <6>2, ReadsFirst DEF Conns, Opening
          <6> QED BY <6>1, <6>2
        <5>3. TinyReplies(line) \subseteq AskedReplies(d)
          BY <3>4, <4>1, <5>2, LiveFacts
        <5>4. ErrorPage("501") \in AskedReplies(d)
          BY <3>2, <5>3 DEF TinyReplies
        <5> QED BY <5>4, RepliesAreLines, ReplyPrefixes, EmptySeq
      <4>2. t_Answers(ErrorPage("501"))
        BY <3>2, <3>4
      <4> QED BY <1>2, <2>1, <3>1, <4>1, <4>2, TinyAnswers, RepliesAreLines DEF Idle
    <3>3. CASE line.method = "GET"
      BY <2>2, <3>3, <3>4
    <3> QED BY <3>2, <3>3
  <2>5. CASE t_NoRequest \/ t_Wait \/ t_Garbled
    BY <2>2, <2>5, Names DEF t_NoRequest, t_Wait, t_Garbled, t_Close, t_Dies
  <2>6. CASE t_Header \/ t_NoHeader
    BY <2>2, <2>6 DEF t_Header, t_NoHeader, netVars
  <2>7. CASE t_Serve
    <3> DEFINE lines == CASE t_line.url.file = "static"    -> StaticReply
                          [] t_line.url.file = "missing"   -> ErrorPage("404")
                          [] t_line.url.file = "forbidden" -> ErrorPage("403")
    <3>1. t_pc = "serve" /\ cgi = "none" /\ t_line.url.file # "cgi"
          /\ (t_Answers(lines) \/ (t_line.url.file = "static" /\ t_Fails(StaticHead)))
      BY <1>3, <2>7 DEF t_Serve
    <3>2. lines \in Seq(ReplyLines)
      BY <3>1, TinyReplyTypes
    <3>3. ASSUME d = t_conn PROVE lines \in AskedReplies(d)
      BY <3>1, <3>3, ServedReply
    <3>4. CASE t_Answers(lines)
      <4> HIDE DEF lines
      <4>1. IsPrefix(lines, lines)
        BY <3>2, ReplyPrefixes, EmptySeq
      <4> QED BY <1>2, <2>1, <3>1, <3>2, <3>3, <3>4, <4>1, TinyAnswers DEF Idle
    <3>5. CASE t_line.url.file = "static" /\ t_Fails(StaticHead)
      <4>1. IsPrefix(StaticHead, StaticReply)
        <5>1. <<Body("file")>> \in Seq(ReplyLines)
          BY DEF Body, ReplyLines
        <5> QED BY <5>1, RepliesAreLines, ReplyPrefixes DEF StaticReply
      <4>2. d = t_conn => StaticReply \in AskedReplies(d)
        BY <3>1, <3>5, ServedReply
      <4> QED BY <1>2, <2>1, <3>1, <3>5, <4>1, <4>2, TinyAnswers, RepliesAreLines DEF Idle
    <3> QED BY <3>1, <3>4, <3>5
  <2>8. CASE serve_dynamic
    <3>1. t_pc = "serve" /\ cgi = "none"
      BY <1>3, <2>8 DEF serve_dynamic
    <3>2. CASE t_Dies /\ UNCHANGED down
      BY <2>2, <3>2, Names DEF t_Dies
    <3>4. CASE t_Fails(DynamicHead)
      <4>1. IsPrefix(DynamicHead, DynamicHead \o CgiOutput)
        BY RepliesAreLines, ReplyPrefixes
      <4>2. d = t_conn => DynamicHead \o CgiOutput \in AskedReplies(d)
        BY <2>8, <3>1, ServedReply DEF serve_dynamic
      <4> QED BY <1>2, <2>1, <3>1, <3>4, <4>1, <4>2, TinyAnswers, RepliesAreLines DEF Idle
    <3>3. CASE Writes(t_conn, DynamicHead) /\ cgi' = "running" /\ UNCHANGED <<far, t_conn>>
      <4>1. /\ d # t_conn => Produced(d)' = Produced(d)
            /\ d = t_conn => Produced(d)' = Produced(d) \o DynamicHead
        BY <2>1, <3>1, <3>3, WritesProduced, RepliesAreLines DEF Idle
      <4>2. CASE d # t_conn
        BY <1>2, <3>3, <4>1, <4>2, NothingWritten
      <4>3. CASE d = t_conn
        <5>1. Produced(d) = <<>>
          BY <1>2, <3>1, <4>3 DEF TinyWrote
        <5>2. Produced(d)' = DynamicHead
          BY <4>1, <4>3, <5>1, RepliesAreLines, ConcatEmptySeq
        <5>3. far'[d] = "open"
          BY <3>1, <3>3, <4>3, ConnServed
        <5> QED BY <3>3, <5>2, <5>3 DEF TinyWrote
      <4> QED BY <4>2, <4>3
    <3> QED BY <2>8, <3>2, <3>3, <3>4 DEF serve_dynamic
  <2> QED BY <1>6, <2>3, <2>4, <2>5, <2>6, <2>7, <2>8 DEF Serves, TinyStep
<1> QED BY <1>4, <1>5, <1>6

LEMMA TinyOutputIsLive ==
    ProxyTypes => (TinyOutput <=> \A d \in Conns : Live(d) => TinyWrote(d))
<1> SUFFICES ASSUME ProxyTypes PROVE TinyOutput <=> \A d \in Conns : Live(d) => TinyWrote(d)
  OBVIOUS
<1>1. \A c \in Clients : c \in Conns /\ c # "forward" /\ (Live(c) <=> target[c] = "tiny")
  BY Names DEF Live, ServerOf
<1>2. Live("forward") <=> pc \in {"send", "reply", "entity"}
  BY DEF Live, ServerOf, Sending
<1>3. \A d \in Conns : d \in Clients \/ d = "forward"
  BY DEF Conns
<1>4. (\A d \in Conns : Live(d) => TinyWrote(d))
        <=> (\A c \in Clients : Live(c) => TinyWrote(c)) /\ (Live("forward") => TinyWrote("forward"))
  <2>1. \A d : d = "forward" => (Live(d) <=> Live("forward")) /\ (TinyWrote(d) <=> TinyWrote("forward"))
    OBVIOUS
  <2> QED BY <1>1, <1>3, <2>1, Names
<1> QED BY <1>1, <1>2, <1>4 DEF TinyOutput

(* What a client of the proxy has got is the beginning of its reply. *)
LEMMA ProxyReplies ==
    ASSUME ProxyTypes, Connected, Message, TinyServing, TinyOutput, ProxyOutput,
           NEW c \in Clients, target[c] = "proxy"
    PROVE  \E reply \in Replies(c) : IsPrefix(down[c], reply)
<1>1. Line1(c) \in RequestLines /\ c \in Conns /\ down[c] \in Seq(ReplyLines)
  BY FirstIsRequest, Names DEF ProxyTypes
<1>2. CASE down[c] = <<>>
  <2>1. \E reply \in Replies(c) : reply \in Seq(ReplyLines)
    BY ClientReplies
  <2> QED BY <1>2, <2>1, ReplyPrefixes
<1>3. CASE c = client /\ pc \in {"reply", "entity"}
  <2>1. Live("forward") /\ "forward" \in Conns
    BY <1>3, Names DEF Live, ServerOf, Sending
  <2>2. TinyWrote("forward")
    BY <1>3 DEF TinyOutput
  <2>3. PICK reply \in AskedReplies("forward") : IsPrefix(Produced("forward"), reply)
    BY <2>1, <2>2, ProducedIsReply
  <2>6. reply \in Replies(c)
    BY <1>3, <2>3 DEF Replies, AskedReplies
  <2>7. reply \in Seq(ReplyLines)
    BY <2>6, ClientReplies
  <2>8. down["forward"] \in Seq(ReplyLines) /\ Produced("forward") = down[c] \o down["forward"]
    BY <1>3, Names DEF Produced, ProxyTypes
  <2>9. IsPrefix(down[c], reply)
    <3>1. IsPrefix(down[c] \o down["forward"], reply)
      BY <2>3, <2>8
    <3> QED BY <1>1, <2>7, <2>8, <3>1, PrefixOfPrefix
  <2> QED BY <2>3, <2>6, <2>9
<1>4. CASE far[c] = "closed"
  BY <1>4 DEF ProxyOutput
<1>5. down[c] = <<>> \/ (c = client /\ pc \in {"reply", "entity"}) \/ far[c] = "closed"
  <2>1. far[c] = "open" => c = client
    BY <1>1, Names DEF Connected, Serving, ServerOf
  <2>2. far[c] \in {"none", "queued", "open", "closed"}
    BY <1>1 DEF ProxyTypes
  <2> QED BY <2>1, <2>2 DEF ProxyOutput
<1> QED BY <1>2, <1>3, <1>4, <1>5

(* What a step of the proxy writes to its clients. *)
LEMMA DownChanges ==
    ASSUME ProxyTypes, Connected, ForwardOnce, FirstLines, ProxyOutput, Next, NEW c \in Clients,
           target[c] = "proxy"
    PROVE  \/ down'[c] = down[c]
           \/ c = client /\ client' = client /\ pc = "reply" /\ pc' \in {"reply", "entity"} /\ far'[c] = far[c]
           \/ /\ c = client /\ client' = "none" /\ far'[c] = "closed"
              /\ \E reply \in Replies(c) : IsPrefix(down'[c], reply)
<1>1. c \in Conns /\ c # "forward" /\ NetTypes
  BY Names DEF NetTypes, ProxyTypes
<1>2. CASE Serves \/ RunsCgi
  <2>1. c # t_conn
    BY <1>1, Names DEF Connected, Serving, ServerOf
  <2>2. UNCHANGED down \/ \E lines : Writes(t_conn, lines)
    BY <1>2 DEF Serves, RunsCgi, cgi_Ends, TinyStep, t_Accept, Accepts, t_Request, t_NoRequest, t_Header, t_NoHeader,
                netVars, t_Garbled, t_Serve, serve_dynamic, t_Wait, t_Answers, t_Fails
  <2> QED BY <1>1, <2>1, <2>2 DEF Writes, NetTypes
<1>3. CASE \E b \in Clients : Connect(b) \/ Send(b) \/ Close(b)
  BY <1>3 DEF Connect, Send, Close
<1>4. CASE p_Request
  <2>1. pc = "request" /\ HasLine(client) /\ client \in Clients /\ client \in Conns
    BY <1>4, ClientServed DEF p_Request
  <2>2. PICK line \in Understood(Line1(client)) :
          IF RequestError(line) # "none" THEN clienterror(RequestError(line)) ELSE UNCHANGED down
    <3>1. Head(up[client]).line = Line1(client)
      BY <2>1, ReadsFirst DEF Unread
    <3> QED BY <1>4, <3>1 DEF p_Request
  <2>3. CASE UNCHANGED down
    BY <2>3
  <2>4. CASE /\ Writes(client, ErrorPage(RequestError(line))) /\ CloseClient /\ RequestError(line) # "none"
    <3>1. ErrorPage(RequestError(line)) \in Seq(ReplyLines)
      BY <2>4, ErrorNumbers, RepliesAreLines
    <3>2. down'[client] = down[client] \o ErrorPage(RequestError(line))
          /\ \A d \in Conns \ {client} : down'[d] = down[d]
      BY <1>1, <2>1, <2>4, <3>1, WritesTypes
    <3>3. CASE c = client
      <4>1. down[c] = <<>>
        BY <2>1, <3>3 DEF ProxyOutput
      <4>2. down'[c] = ErrorPage(RequestError(line))
        BY <3>1, <3>2, <3>3, <4>1, ConcatEmptySeq
      <4>3. ErrorPage(RequestError(line)) \in Replies(c)
        <5>1. line \in Understood(Line1(c)) \ Accepted(c)
          BY <2>2, <2>4, <3>3 DEF Accepted
        <5> QED BY <5>1, ErrorReply
      <4>4. IsPrefix(down'[c], ErrorPage(RequestError(line)))
        BY <3>1, <4>2, ReplyPrefixes, EmptySeq
      <4>5. client' = "none" /\ far'[c] = "closed"
        BY <1>1, <2>4, <3>3 DEF CloseClient, CloseFar, Done, NetTypes
      <4> QED BY <3>3, <4>3, <4>4, <4>5
    <3> QED BY <1>1, <3>2, <3>3
  <2> QED BY <2>2, <2>3, <2>4 DEF clienterror
<1>5. CASE p_Reply /\ ~UNCHANGED down
  <2>1. /\ pc = "reply" /\ pc' \in {"reply", "entity"} /\ client' = client /\ far' = far
        /\ down' = [down EXCEPT !["forward"] = Tail(@), ![client] = Append(@, Head(down["forward"]))]
    BY <1>5 DEF p_Reply
  <2>2. c # client => down'[c] = down[c]
    BY <1>1, <2>1 DEF NetTypes
  <2> QED BY <2>1, <2>2
<1>6. CASE UNCHANGED down
  BY <1>6
<1>7. Serves \/ RunsCgi \/ (\E b \in Clients : Connect(b) \/ Send(b) \/ Close(b)) \/ p_Request \/ p_Reply \/ UNCHANGED down
  BY DEF Next, Proxies, ProxyStep, p_Accept, Accepts, p_Garbled, p_NoRequest, p_FirstHeader, p_Header,
         p_Connect, p_Send, p_ReplyEnds, netVars, p_Entity
<1> QED BY <1>2, <1>3, <1>4, <1>5, <1>6, <1>7

LEMMA ProxyOutputStep ==
    ASSUME ProxyTypes, ProxyTypes', Connected, Connected', Queued, ForwardOnce, FirstLines, Message, TinyServing,
           TinyOutput, ProxyOutput, Next
    PROVE  ProxyOutput'
<1>1. target' = target /\ request' = request
  BY ClientsChange
<1>2. NetTypes /\ NetTypes'
  BY DEF NetTypes, ProxyTypes
<1>3. ASSUME far'["forward"] = "none" PROVE down'["forward"] = <<>>
  <2>1. far["forward"] = "none" /\ down["forward"] = <<>> /\ near["forward"] = "none"
    BY <1>3, FarChanges, Names DEF ProxyOutput, Connected, NetTypes
  <2>2. t_conn # "forward" /\ client # "forward" /\ pc # "reply"
    BY <2>1, Names DEF Connected, Serving, ProxyTypes, ForwardOnce
  <2>3. UNCHANGED down \/ \E d, lines : d \in {client, t_conn} /\ Writes(d, lines)
    <3>1. CASE Serves \/ RunsCgi
      <4>1. UNCHANGED down \/ \E lines : Writes(t_conn, lines)
        BY <3>1 DEF Serves, RunsCgi, cgi_Ends, TinyStep, t_Accept, Accepts, t_Request, t_NoRequest, t_Header,
                    t_NoHeader, netVars, t_Garbled, t_Serve, serve_dynamic, t_Wait, t_Answers, t_Fails
      <4> QED BY <4>1
    <3>2. CASE p_Request
      <4>1. UNCHANGED down \/ \E lines : Writes(client, lines)
        BY <3>2 DEF p_Request, clienterror
      <4> QED BY <4>1
    <3>3. Serves \/ RunsCgi \/ p_Request \/ UNCHANGED down
      BY <2>2 DEF Next, Connect, Send, Close, Proxies, ProxyStep, p_Accept, Accepts, p_Garbled, p_NoRequest, p_FirstHeader,
                  p_Header, p_Connect, p_Send, p_Reply, p_ReplyEnds, netVars, p_Entity
    <3> QED BY <3>1, <3>2, <3>3
  <2> QED BY <1>2, <2>1, <2>2, <2>3, Names DEF Writes, NetTypes
<1> SUFFICES ASSUME NEW c \in Clients, target[c] = "proxy"
             PROVE  /\ far'[c] \in {"none", "queued"} => down'[c] = <<>>
                    /\ c = client' /\ pc' \notin {"reply", "entity"} => down'[c] = <<>>
                    /\ far'[c] = "closed" => \E reply \in Replies(c) : IsPrefix(down'[c], reply)
  <2>1. \A c \in Clients : Replies(c)' = Replies(c)
    <3>1. \A c \in Clients : Line1(c)' = Line1(c) /\ Accepted(c)' = Accepted(c) /\ target'[c] = target[c]
      BY <1>1 DEF Accepted, Line1
    <3>2. ASSUME NEW c \in Clients PROVE AskedReplies(c)' = AskedReplies(c)
      <4>1. c # "forward"
        BY Names
      <4> QED BY <3>1, <4>1 DEF AskedReplies
    <3> QED BY <3>1, <3>2 DEF Replies
  <2> QED BY <1>1, <1>3, <2>1 DEF ProxyOutput
<1>4. c \in Conns /\ c # "none"
  BY Names
<1>5. CASE down'[c] = down[c]
  <2>1. far'[c] \in {"none", "queued"} => down'[c] = <<>>
    BY <1>4, <1>5, FarChanges DEF ProxyOutput
  <2>2. ASSUME c = client', pc' \notin {"reply", "entity"} PROVE down'[c] = <<>>
    <3>1. CASE client = c
      <4>1. pc \notin {"reply", "entity"}
        BY <1>4, <2>2, ClientsChange, Names DEF Connected
      <4> QED BY <1>5, <3>1, <4>1 DEF ProxyOutput
    <3>2. CASE client # c
      <4>1. far[c] # "open"
        BY <1>4, <3>2, Names DEF Connected, Serving, ServerOf
      <4>2. far'[c] = "open"
        BY <1>4, <2>2, Names DEF Connected, Serving
      <4>3. far[c] = "queued"
        BY <1>4, <4>1, <4>2, FarChanges
      <4> QED BY <1>5, <4>3 DEF ProxyOutput
    <3> QED BY <3>1, <3>2
  <2>3. \E reply \in Replies(c) : IsPrefix(down'[c], reply)
    BY <1>5, ProxyReplies
  <2> QED BY <2>1, <2>2, <2>3
<1>6. CASE c = client /\ client' = client /\ pc = "reply" /\ pc' \in {"reply", "entity"} /\ far'[c] = far[c]
  BY <1>6, ClientServed
<1>7. CASE c = client /\ client' = "none" /\ far'[c] = "closed" /\ \E reply \in Replies(c) : IsPrefix(down'[c], reply)
  BY <1>4, <1>7
<1> QED BY <1>5, <1>6, <1>7, DownChanges

-----------------------------------------------------------------------------
(* What the proxy sends. *)

(* A nonempty set of naturals has a least element. *)
LEMMA LeastNumber ==
    ASSUME NEW T \in SUBSET Nat, T # {}
    PROVE  \E x \in T : \A y \in T : x <= y
<1>1. PICK x \in T : \A y \in T : ~ (<<y, x>> \in OpToRel(<, Nat))
  BY NatLessThanWellFounded, WFMin
<1>2. \A y \in T : ~ (y < x)
  BY <1>1 DEF OpToRel
<1> QED BY <1>2

(* A request in the words of RequestForwarded. *)
LEMMA RequestHeaders ==
    ASSUME ProxyTypes, NEW c \in Clients
    PROVE  /\ Length(c) \in Nat /\ Length(c) >= 2 /\ request[c][Length(c)] = CRLF
           /\ \A i \in 2 .. Length(c) - 1 :
                /\ request[c][i] \in [type : {"header"}, name : DOMAIN Sizes]
                /\ i \notin KeptAt(c) => \E name \in Dropped : request[c][i] = Header(name)
<1>1. request[c] \in Seq(MessageLines) /\ Length(c) \in Nat /\ Length(c) >= 2
  BY FirstIsRequest DEF Length
<1>2. IsRequest(request[c])
  BY RequestsAssumption DEF ProxyTypes
<1>3. request[c][Length(c)] = CRLF
  BY <1>2 DEF IsRequest, Length
<1>4. ASSUME NEW i \in 2 .. Length(c) - 1
      PROVE  /\ request[c][i] \in [type : {"header"}, name : DOMAIN Sizes]
             /\ i \notin KeptAt(c) => \E name \in Dropped : request[c][i] = Header(name)
  <2>1. request[c][i].type = "header"
    BY <1>2, <1>4 DEF IsRequest, Length
  <2>2. request[c][i] \in MessageLines
    BY <1>1, <1>4, ElementOfSeq DEF Length
  <2>3. request[c][i] \in [type : {"header"}, name : DOMAIN Sizes]
    BY <2>1, <2>2 DEF MessageLines, CRLF
  <2>4. request[c][i] = Header(request[c][i].name)
    BY <2>3 DEF Header
  <2> QED BY <2>3, <2>4 DEF KeptAt, IsKept
<1> QED BY <1>1, <1>3, <1>4

(* The sizes of lines. *)
LEMMA Sized ==
    ASSUME NEW line \in MessageLines
    PROVE  Size(line) \in Nat /\ Size(line) > 0
<1>1. CASE line.type = "header"
  <2>1. line \in [type : {"header"}, name : DOMAIN Sizes]
    BY <1>1 DEF MessageLines, CRLF
  <2> QED BY <1>1, <2>1, MessageAssumption DEF Size
<1>2. CASE line.type # "header"
  BY <1>2 DEF MessageLines, CRLF, Size
<1> QED BY <1>1, <1>2

(* The place of a header. *)
LEMMA Places ==
    ASSUME ProxyTypes, NEW c \in Clients, NEW k \in Nat \ {0}
    PROVE  /\ Place(c, k) \in Nat /\ Place(c, k) >= 1 /\ Place(c, 1) = 1
           /\ Place(c, k + 1) = IF k + 1 \in KeptAt(c) THEN Place(c, k) + 1 ELSE Place(c, k)
           /\ \A i \in KeptAt(c) : i <= k => Place(c, i) \in 2 .. Place(c, k)
<1> DEFINE Upto(i) == {j \in KeptAt(c) : j <= i}
<1>1. Length(c) \in Nat /\ KeptAt(c) \subseteq 2 .. Length(c) - 1
  BY RequestHeaders DEF KeptAt
<1>2. IsFiniteSet(KeptAt(c))
  <2>1. IsFiniteSet(2 .. Length(c) - 1)
    BY <1>1, FS_Interval
  <2> QED BY <1>1, <2>1, FS_Subset
<1>3. \A i : IsFiniteSet(Upto(i)) /\ Cardinality(Upto(i)) \in Nat
  BY <1>2, FS_Subset, FS_CardinalityType
<1>4. Place(c, 1) = 1
  <2>1. Upto(1) = {}
    BY <1>1
  <2>2. Cardinality(Upto(1)) = 0
    BY <2>1, FS_EmptySet
  <2> QED BY <2>2 DEF Place
<1>5. Place(c, k + 1) = IF k + 1 \in KeptAt(c) THEN Place(c, k) + 1 ELSE Place(c, k)
  <2>1. CASE k + 1 \in KeptAt(c)
    <3>1. Upto(k + 1) = Upto(k) \cup {k + 1} /\ k + 1 \notin Upto(k)
      BY <1>1, <2>1
    <3>2. IsFiniteSet(Upto(k)) /\ Cardinality(Upto(k)) \in Nat
      BY <1>3
    <3>3. Place(c, k + 1) = 1 + Cardinality(Upto(k + 1)) /\ Place(c, k) = 1 + Cardinality(Upto(k))
      BY DEF Place
    <3> HIDE DEF Upto
    <3>4. Cardinality(Upto(k + 1)) = Cardinality(Upto(k)) + 1
      BY <3>1, <3>2, FS_AddElement
    <3> QED BY <2>1, <3>2, <3>3, <3>4
  <2>2. CASE k + 1 \notin KeptAt(c)
    <3>1. Upto(k + 1) = Upto(k)
      BY <1>1, <2>2
    <3> QED BY <2>2, <3>1 DEF Place
  <2> QED BY <2>1, <2>2
<1>6. ASSUME NEW i \in KeptAt(c), i <= k PROVE Place(c, i) \in 2 .. Place(c, k)
  <2>1. Upto(i) \subseteq Upto(k) /\ i \in Upto(i)
    BY <1>1, <1>6
  <2>2. Cardinality(Upto(i)) <= Cardinality(Upto(k))
    BY <1>3, <2>1, FS_Subset
  <2>3. Cardinality(Upto(i)) # 0
    BY <1>3, <2>1, FS_EmptySet
  <2>4. Place(c, i) = 1 + Cardinality(Upto(i)) /\ Place(c, k) = 1 + Cardinality(Upto(k))
    BY DEF Place
  <2>5. Cardinality(Upto(i)) \in Nat /\ Cardinality(Upto(k)) \in Nat
    BY <1>3
  <2> HIDE DEF Upto
  <2> QED BY <2>2, <2>3, <2>4, <2>5
<1>7. Place(c, k) \in Nat /\ Place(c, k) >= 1
  <2>1. Cardinality(Upto(k)) \in Nat /\ Place(c, k) = 1 + Cardinality(Upto(k))
    BY <1>3 DEF Place
  <2> HIDE DEF Upto
  <2> QED BY <2>1
<1> QED BY <1>4, <1>5, <1>6, <1>7

(* The room that the headers take is defined, and grows.                   *)
LEMMA Room ==
    ASSUME ProxyTypes, NEW c \in Clients
    PROVE  /\ Used(c)[1] = 2
           /\ \A k \in 1 .. Length(c) - 1 : Used(c)[k] \in Nat /\ Used(c)[k] <= Used(c)[Length(c) - 1]
           /\ \A k \in 1 .. Length(c) - 2 :
                Used(c)[k + 1] = Used(c)[k] + IF k + 1 \in KeptAt(c) THEN Size(request[c][k + 1]) ELSE 0
<1> DEFINE n == Length(c) - 1
           room(i) == IF i \in KeptAt(c) THEN Size(request[c][i]) ELSE 0
           Sum(g, i) == IF i = 1 THEN 2 ELSE g[i - 1] + room(i)
<1>1. n \in Nat /\ n >= 1
  BY RequestHeaders
<1>2. \A i : room(i) \in Nat
  <2>1. \A i \in KeptAt(c) : request[c][i] \in MessageLines
    BY RequestHeaders DEF KeptAt, MessageLines
  <2> QED BY <2>1, Sized
<1>3. \A k \in Nat : k >= 1 => \E g \in [1 .. k -> Nat] : \A i \in 1 .. k : g[i] = Sum(g, i)
  <2> DEFINE Bad == {k \in Nat : k >= 1 /\ ~ \E g \in [1 .. k -> Nat] : \A i \in 1 .. k : g[i] = Sum(g, i)}
  <2>1. SUFFICES ASSUME Bad # {} PROVE FALSE
    OBVIOUS
  <2>2. PICK k \in Bad : \A j \in Bad : k <= j
    BY <2>1, LeastNumber
  <2>3. CASE k = 1
    <3>1. [i \in 1 .. 1 |-> 2] \in [1 .. 1 -> Nat]
          /\ \A i \in 1 .. 1 : [j \in 1 .. 1 |-> 2][i] = Sum([j \in 1 .. 1 |-> 2], i)
      OBVIOUS
    <3> QED BY <2>2, <2>3, <3>1
  <2>4. CASE k # 1
    <3>1. k \in Nat /\ k - 1 \in Nat /\ k - 1 >= 1 /\ k - 1 \notin Bad
      <4>1. k \in Nat /\ k >= 1
        BY <2>2
      <4>2. ~(k <= k - 1) /\ k - 1 \in Nat /\ k - 1 >= 1
        BY <2>4, <4>1
      <4> HIDE DEF Bad
      <4> QED BY <2>2, <4>1, <4>2
    <3>2. PICK g \in [1 .. k - 1 -> Nat] : \A i \in 1 .. k - 1 : g[i] = Sum(g, i)
      BY <3>1
    <3> DEFINE h == [i \in 1 .. k |-> IF i = k THEN g[k - 1] + room(k) ELSE g[i]]
    <3>3. h \in [1 .. k -> Nat]
      BY <1>2, <3>1, <3>2
    <3>4. \A i \in 1 .. k : h[i] = Sum(h, i)
      BY <1>2, <3>1, <3>2
    <3> HIDE DEF h
    <3> QED BY <2>2, <3>3, <3>4
  <2> QED BY <2>3, <2>4
<1>4. \E g : g = [i \in 1 .. n |-> Sum(g, i)]
  <2>1. PICK g \in [1 .. n -> Nat] : \A i \in 1 .. n : g[i] = Sum(g, i)
    BY <1>1, <1>3
  <2>2. g = [i \in 1 .. n |-> Sum(g, i)]
    BY <2>1
  <2> QED BY <2>2
<1>5. Used(c) = CHOOSE g : g = [i \in 1 .. n |-> Sum(g, i)]
  BY DEF Used
<1>6. Used(c) = [i \in 1 .. n |-> Sum(Used(c), i)]
  BY <1>4, <1>5
<1> HIDE DEF n, room
<1>7. /\ Used(c)[1] = 2
      /\ \A k \in Nat : k >= 1 /\ k + 1 <= n => Used(c)[k + 1] = Used(c)[k] + room(k + 1)
  BY <1>1, <1>6
<1>8. \A k \in 1 .. n : Used(c)[k] \in Nat
  <2> DEFINE Bad == {k \in 1 .. n : Used(c)[k] \notin Nat}
  <2>1. SUFFICES ASSUME Bad # {} PROVE FALSE
    OBVIOUS
  <2>2. PICK k \in Bad : \A j \in Bad : k <= j
    <3>1. Bad \in SUBSET Nat
      BY <1>1
    <3> QED BY <2>1, <3>1, LeastNumber
  <2>3. k # 1 /\ k - 1 \in 1 .. n /\ k - 1 \notin Bad /\ k - 1 \in Nat /\ k - 1 >= 1 /\ (k - 1) + 1 = k /\ k <= n
    BY <1>1, <1>7, <2>2
  <2>4. Used(c)[k] = Used(c)[k - 1] + room(k)
    BY <1>7, <2>3
  <2> QED BY <1>2, <2>2, <2>3, <2>4
<1>9. \A k \in 1 .. n : Used(c)[k] <= Used(c)[n]
  <2> DEFINE Bad == {d \in Nat : d < n /\ ~(Used(c)[n - d] <= Used(c)[n])}
  <2>1. \A k \in 1 .. n : n - k \in Nat /\ n - k < n /\ n - (n - k) = k
    BY <1>1
  <2>2. SUFFICES ASSUME Bad # {} PROVE FALSE
    BY <2>1
  <2>3. PICK d \in Bad : \A j \in Bad : d <= j
    BY <2>2, LeastNumber
  <2>4. d # 0
    BY <1>1, <1>8, <2>3
  <2>5. d \in Nat /\ d - 1 \in Nat /\ d - 1 \notin Bad /\ n - (d - 1) = (n - d) + 1
        /\ n - d \in 1 .. n /\ (n - d) + 1 \in 1 .. n
    BY <1>1, <2>3, <2>4
  <2>6. Used(c)[(n - d) + 1] <= Used(c)[n] /\ Used(c)[(n - d) + 1] = Used(c)[n - d] + room((n - d) + 1)
    BY <1>1, <1>7, <2>3, <2>5
  <2> QED BY <1>1, <1>2, <1>8, <2>3, <2>5, <2>6
<1>10. Length(c) - 2 \in Int /\ \A k \in 1 .. Length(c) - 2 : k \in Nat /\ k >= 1 /\ k + 1 <= n
  BY RequestHeaders DEF n
<1>11. \A k \in 1 .. Length(c) - 2 : Used(c)[k + 1] = Used(c)[k] + room(k + 1)
  BY <1>7, <1>10
<1> QED BY <1>7, <1>8, <1>9, <1>11 DEF n, room

(* A line that fits is appended. *)
Added(m, n, line) ==
    /\ n.msg \in Seq(MessageLines) /\ Len(m.msg) \in Nat /\ Len(n.msg) = Len(m.msg) + 1
    /\ \A i \in 1 .. Len(m.msg) : n.msg[i] = m.msg[i]
    /\ n.msg[Len(m.msg) + 1] = line
    /\ n.nleft \in Int /\ n.nleft = m.nleft - Size(line)

LEMMA AppendFits ==
    ASSUME NEW m, m.msg \in Seq(MessageLines), m.nleft \in Int,
           NEW line \in MessageLines, Size(line) <= m.nleft
    PROVE  Added(m, append_msg(m, line), line)
<1>1. line # Nothing
  BY DEF MessageLines, CRLF, Nothing
<1>2. Size(line) \in Nat
  BY Sized
<1>3. append_msg(m, line) = [msg |-> Append(m.msg, line), nleft |-> m.nleft - Size(line)]
  BY <1>1, <1>2 DEF append_msg
<1>4. /\ Append(m.msg, line) \in Seq(MessageLines) /\ Len(m.msg) \in Nat
      /\ Len(Append(m.msg, line)) = Len(m.msg) + 1
      /\ \A i \in 1 .. Len(m.msg) : Append(m.msg, line)[i] = m.msg[i]
      /\ Append(m.msg, line)[Len(m.msg) + 1] = line
  BY AppendProperties, LenProperties
<1> QED BY <1>2, <1>3, <1>4 DEF Added

(* What the proxy adds after the headers. *)
LEMMA FinishedFits ==
    ASSUME NEW m, m.msg \in Seq(MessageLines), m.nleft \in Int, NEW flag \in {0, 1},
           Sizes["Host"] + Sizes["User-Agent"] + Sizes["Connection"] + Sizes["Proxy-Connection"] + 1 <= m.nleft
    PROVE  \E k \in Nat :
             LET r == Finished(m, flag).msg
             IN  /\ r \in Seq(MessageLines) /\ k = (IF flag = 0 THEN Len(m.msg) + 1 ELSE Len(m.msg))
                 /\ Len(r) = k + 4 /\ \A i \in 1 .. Len(m.msg) : r[i] = m.msg[i]
                 /\ flag = 0 => r[k] = Header("Host")
                 /\ r[k + 1] = Header("User-Agent") /\ r[k + 2] = Header("Connection")
                 /\ r[k + 3] = Header("Proxy-Connection") /\ r[k + 4] = CRLF
<1> DEFINE host == Header("Host")
           agent == Header("User-Agent")
           conn == Header("Connection")
           proxyConn == Header("Proxy-Connection")
           m0 == IF flag = 0 THEN append_msg(m, host) ELSE m
           m1 == append_msg(m0, agent)
           m2 == append_msg(m1, conn)
           m3 == append_msg(m2, proxyConn)
           m4 == append_msg(m3, CRLF)
<1>0. Finished(m, flag) = m4
  BY DEF Finished
<1>1. /\ host \in MessageLines /\ agent \in MessageLines /\ conn \in MessageLines
      /\ proxyConn \in MessageLines /\ CRLF \in MessageLines
  BY HeadersAreLines
<1>2. Size(host) + Size(agent) + Size(conn) + Size(proxyConn) + 1 <= m.nleft /\ Size(CRLF) = 1
  BY DEF Size, Header, CRLF
<1>3. /\ Size(host) \in Nat /\ Size(agent) \in Nat /\ Size(conn) \in Nat /\ Size(proxyConn) \in Nat
  BY <1>1, Sized
<1> HIDE DEF host, agent, conn, proxyConn
<1>4. /\ m0.msg \in Seq(MessageLines) /\ Len(m.msg) \in Nat
      /\ Len(m0.msg) = (IF flag = 0 THEN Len(m.msg) + 1 ELSE Len(m.msg))
      /\ \A i \in 1 .. Len(m.msg) : m0.msg[i] = m.msg[i]
      /\ flag = 0 => m0.msg[Len(m0.msg)] = host
      /\ m0.nleft \in Int /\ Size(agent) + Size(conn) + Size(proxyConn) + 1 <= m0.nleft
  <2>1. Len(m.msg) \in Nat
    BY LenProperties
  <2>2. CASE flag = 0
    <3>1. Size(host) <= m.nleft
      BY <1>2, <1>3
    <3>2. Added(m, m0, host)
      BY <1>1, <2>2, <3>1, AppendFits
    <3> HIDE DEF m0
    <3> QED BY <1>2, <1>3, <2>1, <2>2, <3>2 DEF Added
  <2>3. CASE flag # 0
    BY <1>2, <1>3, <2>1, <2>3
  <2> QED BY <2>2, <2>3
<1> HIDE DEF m0
<1>5. Added(m0, m1, agent)
  BY <1>1, <1>3, <1>4, AppendFits
<1> HIDE DEF m1
<1>6. m1.msg \in Seq(MessageLines) /\ m1.nleft \in Int /\ Size(conn) + Size(proxyConn) + 1 <= m1.nleft
  BY <1>3, <1>4, <1>5 DEF Added
<1>7. Added(m1, m2, conn)
  BY <1>1, <1>3, <1>6, AppendFits
<1> HIDE DEF m2
<1>8. m2.msg \in Seq(MessageLines) /\ m2.nleft \in Int /\ Size(proxyConn) + 1 <= m2.nleft
  BY <1>3, <1>6, <1>7 DEF Added
<1>9. Added(m2, m3, proxyConn)
  BY <1>1, <1>3, <1>8, AppendFits
<1> HIDE DEF m3
<1>10. m3.msg \in Seq(MessageLines) /\ m3.nleft \in Int /\ 1 <= m3.nleft
  BY <1>3, <1>8, <1>9 DEF Added
<1>11. Added(m3, m4, CRLF)
  BY <1>1, <1>2, <1>10, AppendFits
<1> HIDE DEF m4
<1>12. /\ Len(m0.msg) \in Nat /\ Len(m1.msg) = Len(m0.msg) + 1 /\ Len(m2.msg) = Len(m0.msg) + 2
       /\ Len(m3.msg) = Len(m0.msg) + 3 /\ Len(m4.msg) = Len(m0.msg) + 4
  BY <1>5, <1>7, <1>9, <1>11 DEF Added
<1> DEFINE k == Len(m0.msg)
<1>13. /\ \A i \in 1 .. k : m1.msg[i] = m0.msg[i]
       /\ \A i \in 1 .. k + 1 : m2.msg[i] = m1.msg[i]
       /\ \A i \in 1 .. k + 2 : m3.msg[i] = m2.msg[i]
       /\ \A i \in 1 .. k + 3 : m4.msg[i] = m3.msg[i]
  BY <1>5, <1>7, <1>9, <1>11, <1>12 DEF Added
<1>14. /\ m1.msg[k + 1] = agent /\ m2.msg[k + 2] = conn /\ m3.msg[k + 3] = proxyConn /\ m4.msg[k + 4] = CRLF
  BY <1>5, <1>7, <1>9, <1>11, <1>12 DEF Added
<1>15. \A i \in 1 .. k : m4.msg[i] = m0.msg[i]
  <2> HIDE DEF k
  <2>1. k \in Nat
    BY <1>12 DEF k
  <2>2. \A i \in 1 .. k : i \in 1 .. k + 1 /\ i \in 1 .. k + 2 /\ i \in 1 .. k + 3
    BY <2>1
  <2> QED BY <1>13, <2>2
<1>16. m4.msg[k + 1] = agent /\ m4.msg[k + 2] = conn /\ m4.msg[k + 3] = proxyConn /\ m4.msg[k + 4] = CRLF
  <2> HIDE DEF k
  <2>1. k \in Nat
    BY <1>12 DEF k
  <2>2. k + 1 \in 1 .. k + 1 /\ k + 1 \in 1 .. k + 2 /\ k + 1 \in 1 .. k + 3
        /\ k + 2 \in 1 .. k + 2 /\ k + 2 \in 1 .. k + 3 /\ k + 3 \in 1 .. k + 3
    BY <2>1
  <2> QED BY <1>13, <1>14, <2>2
<1>17. \A i \in 1 .. Len(m.msg) : m4.msg[i] = m.msg[i]
  BY <1>4, <1>12, <1>15
<1>18. flag = 0 => m4.msg[Len(m0.msg)] = host
  <2>1. flag = 0 => Len(m0.msg) \in 1 .. Len(m0.msg)
    BY <1>4
  <2>2. flag = 0 => m4.msg[Len(m0.msg)] = m0.msg[Len(m0.msg)]
    BY <1>15, <2>1
  <2> QED BY <1>4, <2>2
<1>19. m4.msg \in Seq(MessageLines)
  BY <1>11 DEF Added
<1> QED BY <1>0, <1>4, <1>12, <1>16, <1>17, <1>18, <1>19 DEF host, agent, conn, proxyConn

(* A line that stands at one place only is counted once. *)
LEMMA CountedOnce ==
    ASSUME NEW s \in Seq(MessageLines), NEW line, NEW k \in 1 .. Len(s), s[k] = line,
           \A i \in 1 .. Len(s) : s[i] = line => i = k
    PROVE  Count(line, s) = 1
<1>1. DOMAIN s = 1 .. Len(s)
  BY LenProperties
<1>2. {i \in DOMAIN s : s[i] = line} = {k}
  BY <1>1
<1> QED BY <1>2, FS_Singleton DEF Count

(* What a request says does not change. *)
LEMMA SameRequest ==
    ASSUME request' = request, NEW c \in Clients
    PROVE  /\ Length(c)' = Length(c) /\ KeptAt(c)' = KeptAt(c) /\ (HasHeader(c)' <=> HasHeader(c))
           /\ Used(c)' = Used(c) /\ (Fits(c)' <=> Fits(c)) /\ Line1(c)' = Line1(c)
           /\ Accepted(c)' = Accepted(c) /\ (HostIsLast(c)' <=> HostIsLast(c))
           /\ \A i : Place(c, i)' = Place(c, i)
<1>1. Length(c)' = Length(c) /\ Line1(c)' = Line1(c)
  BY DEF Length, Line1
<1>2. KeptAt(c)' = KeptAt(c)
  BY <1>1 DEF KeptAt
<1>3. Used(c)' = Used(c)
  BY <1>1, <1>2 DEF Used
<1>4. \A i : Place(c, i)' = Place(c, i)
  BY <1>2 DEF Place
<1>5. Accepted(c)' = Accepted(c)
  BY <1>1 DEF Accepted
<1>6. HostIsLast(c)' <=> HostIsLast(c)
  BY <1>1, <1>2 DEF HostIsLast
<1> QED BY <1>1, <1>2, <1>3, <1>4, <1>5, <1>6 DEF HasHeader, Fits

(* Lines of a request that are sent, and lines that are read. *)
LEMMA LineSent ==
    ASSUME NEW r \in Seq(MessageLines), NEW k \in Nat, NEW m \in Nat, k <= m, m < Len(r)
    PROVE  Append(SubSeq(r, k + 1, m), r[m + 1]) = SubSeq(r, k + 1, m + 1)
<1> DEFINE s == SubSeq(r, k + 1, m)
<1>1. Len(r) \in Nat /\ m + 1 \in 1 .. Len(r) /\ \A i \in 1 .. Len(r) : r[i] \in MessageLines
  BY LenProperties, ElementOfSeq
<1>2. s \in Seq(MessageLines)
  <2>1. \A i \in k + 1 .. m : r[i] \in MessageLines
    BY <1>1
  <2> QED BY <2>1, SubSeqProperties
<1>3. k + 1 \in 1 .. Len(r) /\ m + 1 \in k + 1 .. Len(r) /\ (m + 1) - 1 = m
  BY <1>1
<1>4. SubSeq(r, k + 1, m + 1) = SubSeq(r, k + 1, (m + 1) - 1) \o <<r[m + 1]>>
  BY <1>3, SubSeqRecursiveSecond
<1>5. Append(s, r[m + 1]) = s \o <<r[m + 1]>>
  BY <1>1, <1>2, AppendIsConcat
<1> QED BY <1>3, <1>4, <1>5

LEMMA LineRead ==
    ASSUME NEW r \in Seq(MessageLines), NEW k \in Nat, NEW m \in Nat, k <= m, m <= Len(r),
           SubSeq(r, k + 1, m) # <<>>
    PROVE  /\ k + 1 <= m /\ Head(SubSeq(r, k + 1, m)) = r[k + 1]
           /\ Tail(SubSeq(r, k + 1, m)) = SubSeq(r, k + 2, m)
<1>1. Len(r) \in Nat
  BY LenProperties
<1>2. k + 1 <= m
  BY SubSeqEmpty
<1>3. k + 1 \in 1 .. Len(r) /\ m \in k + 1 .. Len(r) /\ (k + 1) + 1 = k + 2
  BY <1>1, <1>2
<1>4. /\ Head(SubSeq(r, k + 1, m)) = r[k + 1]
      /\ Tail(SubSeq(r, k + 1, m)) = SubSeq(r, (k + 1) + 1, m)
  BY <1>3, HeadTailOfSubSeq
<1> QED BY <1>2, <1>3, <1>4

(* Tiny and the clients leave the proxy's reading alone. *)
LEMMA ReadingKeeps ==
    ASSUME ProxyTypes, Connected, Next, ~Proxies, NEW c \in Clients, c = client,
           ReadsHeaders, NEW k, k \in 1 .. Length(c) - 1, Reading(c, k)
    PROVE  Reading(c, k)'
<1>1. /\ far[c] = "open" /\ c \in Conns /\ c # t_conn /\ c # "none"
      /\ UNCHANGED <<pc, buf, flag_host_hdr, msg, nleft, request>>
  <2>1. UNCHANGED <<proxyVars, request>>
    BY DEF Next, Serves, RunsCgi, Connect, Send, Close, clientVars
  <2> QED BY <2>1, ClientServed, Apart, Names DEF proxyVars, ReadsHeaders
<1>2. k \in Nat /\ k >= 1 /\ Length(c) \in Nat /\ k <= sent[c] /\ sent[c] \in Nat /\ sent[c] <= Length(c)
      /\ request[c] \in Seq(MessageLines) /\ Length(c) = Len(request[c]) /\ up \in [Conns -> Seq(MessageLines)]
  <2>1. Length(c) \in Nat
    BY RequestHeaders
  <2>2. request[c] \in Seq(MessageLines) /\ Length(c) = Len(request[c])
    BY FirstIsRequest DEF Length
  <2>3. sent[c] \in Nat /\ sent[c] <= Len(request[c]) /\ up \in [Conns -> Seq(MessageLines)]
    BY DEF ProxyTypes
  <2>4. k <= sent[c]
    BY DEF Reading
  <2> QED BY <2>1, <2>2, <2>3, <2>4
<1>3. Collected(c, k)' <=> Collected(c, k)
  BY <1>1, SameRequest DEF Collected
<1>4. ASSUME up'[c] = up[c], sent'[c] = sent[c], near[c] = "closed" => near'[c] = "closed"
      PROVE  Reading(c, k)'
  BY <1>1, <1>3, <1>4, SameRequest DEF Reading, AtEOF
<1>5. CASE Send(c)
  <2>1. near[c] = "open" /\ near' = near /\ sent[c] < Length(c)
        /\ sent'[c] = sent[c] + 1 /\ up'[c] = Append(up[c], request[c][sent[c] + 1])
    BY <1>1, <1>2, <1>5 DEF Send, ProxyTypes
  <2>2. Append(SubSeq(request[c], k + 1, sent[c]), request[c][sent[c] + 1]) = SubSeq(request[c], k + 1, sent[c] + 1)
    BY <1>2, <2>1, LineSent
  <2>3. ~AtEOF(c)
    BY <2>1 DEF AtEOF
  <2>4. k <= sent'[c] /\ up'[c] = SubSeq(request'[c], k + 1, sent'[c])
    <3>1. up[c] = SubSeq(request[c], k + 1, sent[c]) /\ request'[c] = request[c]
      BY <1>1 DEF Reading
    <3>2. up'[c] = SubSeq(request[c], k + 1, sent[c] + 1)
      BY <2>1, <2>2, <3>1
    <3>3. k <= sent'[c]
      BY <1>2, <2>1
    <3> QED BY <2>1, <3>1, <3>2, <3>3
  <2> QED BY <1>1, <1>3, <2>3, <2>4, SameRequest DEF Reading
<1>6. CASE ~Send(c)
  <2>1. near[c] = "closed" => near'[c] = "closed"
    BY <1>1, <1>2 DEF Next, Serves, RunsCgi, cgi_Ends, TinyStep, t_Accept, Accepts, t_Request, t_NoRequest, t_Header,
       t_NoHeader, netVars, t_Garbled, t_Serve, serve_dynamic, t_Wait, t_Answers, t_Fails, Connect, Connects,
       Send, Close, ProxyTypes
  <2>2. sent'[c] = sent[c]
    BY <1>2, <1>6 DEF Next, Serves, RunsCgi, Connect, Send, Close, clientVars, ProxyTypes
  <2>3. up'[c] = up[c]
    <3>1. UNCHANGED up \/ ReadsLine(t_conn) \/ \E d \in Clients \ {c} : Send(d)
      BY <1>6 DEF Next, Serves, RunsCgi, cgi_Ends, TinyStep, t_Accept, Accepts, t_Request, t_NoRequest, t_Header,
         t_NoHeader, netVars, t_Garbled, t_Serve, serve_dynamic, t_Wait, t_Answers, t_Fails, Connect, Close
    <3> QED BY <1>1, <1>2, <3>1 DEF ReadsLine, Send
  <2> QED BY <1>4, <2>1, <2>2, <2>3
<1> QED BY <1>5, <1>6

(* A header is read while the message has room for the rest.               *)
LEMMA HeaderRead ==
    ASSUME ProxyTypes, NEW c \in Clients, request' = request, NEW k \in 1 .. Length(c) - 2,
           Fits(c), Collected(c, k), msg # <<>>, Checks(request[c][k + 1])
    PROVE  Collected(c, k + 1)'
<1> DEFINE line == request[c][k + 1]
<1>1. Length(c) \in Nat /\ k \in Nat \ {0} /\ k + 1 \in 2 .. Length(c) - 1 /\ k \in 1 .. Length(c) - 1
      /\ k + 1 \in 1 .. Length(c) - 1
  <2>1. Length(c) \in Nat
    BY RequestHeaders
  <2> QED BY <2>1
<1>2. /\ line \in [type : {"header"}, name : DOMAIN Sizes] /\ line \in MessageLines
      /\ k + 1 \notin KeptAt(c) => \E name \in Dropped : line = Header(name)
  BY <1>1, RequestHeaders DEF MessageLines
<1>3. /\ Place(c, k) \in Nat /\ Place(c, k) >= 1
      /\ Place(c, k + 1) = IF k + 1 \in KeptAt(c) THEN Place(c, k) + 1 ELSE Place(c, k)
      /\ \A i \in KeptAt(c) : i <= k => Place(c, i) \in 2 .. Place(c, k)
  <2>1. Place(c, k) \in Nat /\ Place(c, k) >= 1
    BY <1>1, Places
  <2> QED BY <1>1, <2>1, Places
<1>4. /\ Used(c)[k] \in Nat /\ Used(c)[k + 1] \in Nat /\ Used(c)[k + 1] <= Used(c)[Length(c) - 1]
      /\ Used(c)[k + 1] = Used(c)[k] + IF k + 1 \in KeptAt(c) THEN Size(line) ELSE 0
  BY <1>1, Room
<1>5. /\ Len(msg) = Place(c, k) /\ nleft = MAXLINE - 1 - Used(c)[k]
      /\ \A i \in KeptAt(c) : i <= k => msg[Place(c, i)] = request[c][i]
      /\ \A i \in 2 .. Len(msg) : IsKept(msg[i])
      /\ msg \in Seq(MessageLines) /\ DOMAIN msg = 1 .. Len(msg)
      /\ \A p \in DOMAIN msg : IsHost(msg[p]) =>
           \E i \in KeptAt(c) : i <= k /\ IsHost(request[c][i]) /\ p = Place(c, i)
  BY LenProperties DEF Collected, ProxyTypes
<1>6. /\ KeptAt(c)' = KeptAt(c) /\ Used(c)' = Used(c) /\ request'[c] = request[c]
      /\ \A i : Place(c, i)' = Place(c, i)
  BY SameRequest
<1>7. flag_host_hdr' = check_header(line)
      /\ msg' = append_msg(proxy_forw, CheckedEntry(line)).msg
      /\ nleft' = append_msg(proxy_forw, CheckedEntry(line)).nleft
  BY DEF Checks
<1>10. flag_host_hdr' = IF k + 1 > 1 /\ IsHost(request'[c][k + 1]) THEN 1 ELSE 0
  <2>1. k + 1 > 1
    BY <1>1
  <2> QED BY <1>6, <1>7, <2>1 DEF check_header, IsHost
<1> SUFFICES /\ Len(msg') = Place(c, k + 1) /\ nleft' = MAXLINE - 1 - Used(c)[k + 1]
             /\ \A i \in KeptAt(c) : i <= k + 1 => msg'[Place(c, i)] = request[c][i]
             /\ \A i \in 2 .. Len(msg') : IsKept(msg'[i])
             /\ \A p \in DOMAIN msg' : IsHost(msg'[p]) =>
                  \E i \in KeptAt(c) : i <= k + 1 /\ IsHost(request[c][i]) /\ p = Place(c, i)
  BY <1>6, <1>10 DEF Collected, IsKept, IsHost
<1>8. CASE k + 1 \notin KeptAt(c)
  <2>1. PICK name \in Dropped : line = Header(name)
    BY <1>2, <1>8
  <2>2. CheckedEntry(line) = Nothing
    BY <2>1 DEF CheckedEntry
  <2>3. append_msg(proxy_forw, Nothing) = proxy_forw
    BY DEF append_msg
  <2>4. msg' = msg /\ nleft' = nleft
    BY <1>7, <2>2, <2>3 DEF proxy_forw
  <2>7. \A i \in KeptAt(c) : i <= k + 1 <=> i <= k
    BY <1>1, <1>8 DEF KeptAt
  <2> QED BY <1>3, <1>4, <1>5, <1>8, <2>4, <2>7
<1>9. CASE k + 1 \in KeptAt(c)
  <2>1. IsKept(line)
    BY <1>9 DEF KeptAt
  <2>2. CheckedEntry(line) = line
    <3>1. line.name \notin Dropped
      BY <2>1 DEF IsKept
    <3>2. \A name : Header(name).name = name
      BY DEF Header
    <3>3. ~ \E name \in Dropped : line = Header(name)
      BY <3>1, <3>2
    <3> QED BY <3>3 DEF CheckedEntry
  <2>3. Size(line) \in Nat /\ Size(line) <= nleft /\ nleft \in Int
    <3>1. Size(line) \in Nat
      BY <1>2, Sized
    <3>2. Used(c)[k + 1] = Used(c)[k] + Size(line) /\ Used(c)[Length(c) - 1] \in Nat
      BY <1>1, <1>4, <1>9, Room
    <3>3. Used(c)[Length(c) - 1] <= MAXLINE - 1
      BY <3>2, MessageAssumption DEF Fits
    <3> QED BY <1>4, <1>5, <3>1, <3>2, <3>3, MessageAssumption
  <2>4. Added(proxy_forw, append_msg(proxy_forw, line), line)
    <3>1. proxy_forw.msg = msg /\ proxy_forw.nleft = nleft
      BY DEF proxy_forw
    <3> QED BY <1>2, <1>5, <2>3, <3>1, AppendFits
  <2>5. /\ msg' \in Seq(MessageLines) /\ Len(msg) \in Nat /\ Len(msg') = Len(msg) + 1
        /\ \A i \in 1 .. Len(msg) : msg'[i] = msg[i]
        /\ msg'[Len(msg) + 1] = line /\ nleft' = nleft - Size(line)
    BY <1>7, <2>2, <2>4 DEF Added, proxy_forw
  <2>6. Len(msg') = Place(c, k + 1) /\ nleft' = MAXLINE - 1 - Used(c)[k + 1]
    <3>1. Len(msg') = Place(c, k + 1)
      BY <1>3, <1>5, <1>9, <2>5
    <3>2. Used(c)[k + 1] = Used(c)[k] + Size(line) /\ Used(c)[k] \in Nat /\ Size(line) \in Nat
      BY <1>4, <1>9, <2>3
    <3>3. nleft' = nleft - Size(line) /\ nleft = MAXLINE - 1 - Used(c)[k] /\ MAXLINE \in Nat
      BY <1>5, <2>5, MessageAssumption
    <3>4. nleft' = MAXLINE - 1 - Used(c)[k + 1]
      BY <3>2, <3>3
    <3> QED BY <3>1, <3>4
  <2>7. ASSUME NEW i \in KeptAt(c), i <= k + 1 PROVE msg'[Place(c, i)] = request[c][i]
    <3>1. i \in Int
      BY RequestHeaders DEF KeptAt
    <3>2. CASE i = k + 1
      BY <1>3, <1>5, <1>9, <2>5, <3>2
    <3>3. CASE i # k + 1
      <4>1. i <= k
        BY <1>1, <2>7, <3>1, <3>3
      <4>2. Place(c, i) \in 1 .. Len(msg) /\ msg[Place(c, i)] = request[c][i]
        BY <1>3, <1>5, <4>1
      <4> QED BY <2>5, <4>2
    <3> QED BY <3>2, <3>3
  <2>8. ASSUME NEW i \in 2 .. Len(msg') PROVE IsKept(msg'[i])
    <3>1. i = Len(msg) + 1 \/ i \in 2 .. Len(msg)
      BY <2>5
    <3>2. i \in 2 .. Len(msg) => i \in 1 .. Len(msg)
      BY <2>5
    <3>3. CASE i = Len(msg) + 1
      BY <2>1, <2>5, <3>3 DEF IsKept
    <3>4. CASE i \in 2 .. Len(msg)
      <4>1. IsKept(msg[i]) /\ msg'[i] = msg[i]
        BY <1>5, <2>5, <3>2, <3>4
      <4> QED BY <4>1 DEF IsKept
    <3> QED BY <3>1, <3>3, <3>4
  <2>9. ASSUME NEW p \in DOMAIN msg', IsHost(msg'[p])
        PROVE  \E i \in KeptAt(c) : i <= k + 1 /\ IsHost(request[c][i]) /\ p = Place(c, i)
    <3>1. p \in DOMAIN msg \/ p = Len(msg) + 1
      <4>1. DOMAIN msg' = 1 .. Len(msg) + 1
        BY <2>5, LenProperties
      <4> QED BY <1>5, <2>5, <2>9, <4>1
    <3>2. CASE p \in DOMAIN msg
      <4>1. IsHost(msg[p])
        BY <1>5, <2>5, <2>9, <3>2 DEF IsHost
      <4>2. PICK i \in KeptAt(c) : i <= k /\ IsHost(request[c][i]) /\ p = Place(c, i)
        BY <1>5, <3>2, <4>1
      <4>3. i <= k + 1
        BY <1>1, <4>2 DEF KeptAt
      <4> QED BY <4>2, <4>3
    <3>3. CASE p = Len(msg) + 1
      <4>1. IsHost(request[c][k + 1]) /\ p = Place(c, k + 1)
        BY <1>3, <1>5, <1>9, <2>5, <2>9, <3>3 DEF IsHost
      <4>2. k + 1 <= k + 1
        BY <1>1
      <4> QED BY <1>9, <4>1, <4>2
    <3> QED BY <3>1, <3>2, <3>3
  <2> QED BY <2>6, <2>7, <2>8, <2>9
<1> QED BY <1>8, <1>9

LEMMA Rest ==
    \A u, host, agent, conn, proxyConn, size \in Nat : \A left :
        /\ left = size - 1 - u /\ u + host + agent + conn + proxyConn + 1 <= size - 1
        => left \in Int /\ host + agent + conn + proxyConn + 1 <= left
OBVIOUS

(* The message that is finished after the last header is the request, and  *)
(* the lines the proxy adds are in it once.                                *)
LEMMA HeadersEnd ==
    ASSUME ProxyTypes, NEW c \in Clients, request' = request, HasHeader(c), Fits(c),
           Collected(c, Length(c) - 1), msg # <<>>, \E line \in Accepted(c) : msg[1] = Forwarded(line),
           msg' = Finished(proxy_forw, flag_host_hdr).msg
    PROVE  IsForwarded(c)'
<1> DEFINE n == Length(c) - 1
<1>1. n \in Nat /\ n >= 2 /\ n \in Nat \ {0} /\ n \in 1 .. Length(c) - 1 /\ KeptAt(c) \subseteq 2 .. n
  <2>1. Length(c) \in Nat /\ Length(c) > 2
    BY RequestHeaders DEF HasHeader
  <2> QED BY <2>1 DEF KeptAt
<1>2. /\ Len(msg) = Place(c, n) /\ nleft = MAXLINE - 1 - Used(c)[n]
      /\ \A i \in KeptAt(c) : i <= n => msg[Place(c, i)] = request[c][i]
      /\ \A i \in 2 .. Len(msg) : IsKept(msg[i])
      /\ flag_host_hdr = IF n > 1 /\ IsHost(request[c][n]) THEN 1 ELSE 0
      /\ \A p \in DOMAIN msg : IsHost(msg[p]) =>
           \E i \in KeptAt(c) : i <= n /\ IsHost(request[c][i]) /\ p = Place(c, i)
  BY DEF Collected
<1>3. Used(c)[n] \in Nat
  BY <1>1, Room
<1>4. /\ Used(c)[n] + Sizes["Host"] + Sizes["User-Agent"] + Sizes["Connection"]
           + Sizes["Proxy-Connection"] + 1 <= MAXLINE - 1
  BY DEF Fits
<1> HIDE DEF n
<1>5. /\ nleft \in Int
      /\ Sizes["Host"] + Sizes["User-Agent"] + Sizes["Connection"] + Sizes["Proxy-Connection"] + 1 <= nleft
  <2>1. Sizes["Host"] \in Nat /\ Sizes["User-Agent"] \in Nat /\ Sizes["Connection"] \in Nat
        /\ Sizes["Proxy-Connection"] \in Nat /\ MAXLINE \in Nat
    BY MessageAssumption
  <2>2. nleft = MAXLINE - 1 - Used(c)[n]
    BY <1>2
  <2> DEFINE u == Used(c)[n]
             h == Sizes["Host"]
             a == Sizes["User-Agent"]
             d == Sizes["Connection"]
             p == Sizes["Proxy-Connection"]
  <2>3. /\ u \in Nat /\ h \in Nat /\ a \in Nat /\ d \in Nat /\ p \in Nat /\ MAXLINE \in Nat
        /\ nleft = MAXLINE - 1 - u /\ u + h + a + d + p + 1 <= MAXLINE - 1
    BY <1>3, <1>4, <2>1, <2>2
  <2> HIDE DEF u, h, a, d, p
  <2>4. nleft \in Int /\ h + a + d + p + 1 <= nleft
    BY <2>3, Rest
  <2> QED BY <2>4 DEF h, a, d, p
<1>6. proxy_forw.msg = msg /\ proxy_forw.nleft = nleft
  BY DEF proxy_forw
<1>7. msg \in Seq(MessageLines) /\ Len(msg) \in Nat /\ DOMAIN msg = 1 .. Len(msg) /\ Len(msg) >= 1
  <2>1. msg \in Seq(MessageLines)
    BY DEF ProxyTypes
  <2> QED BY <2>1, LenProperties, EmptySeq
<1>8. PICK k \in Nat :
        /\ msg' \in Seq(MessageLines) /\ k = (IF flag_host_hdr = 0 THEN Len(msg) + 1 ELSE Len(msg))
        /\ Len(msg') = k + 4 /\ \A i \in 1 .. Len(msg) : msg'[i] = msg[i]
        /\ flag_host_hdr = 0 => msg'[k] = Header("Host")
        /\ msg'[k + 1] = Header("User-Agent") /\ msg'[k + 2] = Header("Connection")
        /\ msg'[k + 3] = Header("Proxy-Connection") /\ msg'[k + 4] = CRLF
  BY <1>2, <1>5, <1>6, <1>7, FinishedFits
<1>9. DOMAIN msg' = 1 .. k + 4
  BY <1>8, LenProperties
<1>24. \A i \in 1 .. k : i \in 1 .. Len(msg) \/ (flag_host_hdr = 0 /\ i = k)
  <2>1. k \in Nat /\ Len(msg) \in Nat /\ k = (IF flag_host_hdr = 0 THEN Len(msg) + 1 ELSE Len(msg))
    BY <1>7, <1>8
  <2>2. CASE flag_host_hdr = 0
    <3>1. k = Len(msg) + 1
      BY <2>1, <2>2
    <3> QED BY <2>1, <2>2, <3>1
  <2>3. CASE flag_host_hdr # 0
    <3>1. k = Len(msg)
      BY <2>1, <2>3
    <3> QED BY <2>1, <3>1
  <2> QED BY <2>2, <2>3
<1>10. \A i \in KeptAt(c) : msg'[Place(c, i)] = request[c][i]
  <2>1. \A i \in KeptAt(c) : i <= n
    BY <1>1
  <2>2. \A i \in KeptAt(c) : Place(c, i) \in 2 .. Len(msg)
    BY <1>1, <1>2, <2>1, Places
  <2>3. \A j \in 2 .. Len(msg) : msg'[j] = msg[j]
    <3>1. \A i \in 1 .. Len(msg) : msg'[i] = msg[i]
      BY <1>8
    <3>2. Len(msg) \in Nat
      BY <1>7
    <3> QED BY <3>1, <3>2
  <2> QED BY <1>2, <2>1, <2>2, <2>3
<1>22. /\ flag_host_hdr \in {0, 1}
       /\ flag_host_hdr = 1 => n \in KeptAt(c) /\ IsHost(request[c][n]) /\ Place(c, n) \in 1 .. Len(msg)
       /\ flag_host_hdr = 0 => ~IsHost(request[c][n])
  <2>1. n > 1 /\ n \in 2 .. Length(c) - 1
    BY <1>1 DEF n
  <2>2. IsHost(request[c][n]) => n \in KeptAt(c)
    BY <2>1, RequestHeaders DEF IsHost, Header, Dropped
  <2>3. n \in KeptAt(c) => Place(c, n) \in 1 .. Len(msg)
    <3>1. n \in KeptAt(c) => Place(c, n) \in 2 .. Place(c, n)
      BY <1>1, Places
    <3> QED BY <1>2, <1>7, <3>1
  <2> QED BY <1>2, <2>1, <2>2, <2>3
<1>11. \E i \in DOMAIN msg' : IsHost(msg'[i])
  <2>1. CASE flag_host_hdr = 0
    BY <1>7, <1>8, <1>9, <2>1 DEF IsHost
  <2>2. CASE flag_host_hdr = 1
    <3>1. Place(c, n) \in DOMAIN msg'
      BY <1>7, <1>8, <1>9, <1>22, <2>2
    <3> QED BY <1>10, <1>22, <2>2, <3>1
  <2> QED BY <1>22, <2>1, <2>2
<1>23. ASSUME HostIsLast(c) PROVE Count(Header("Host"), msg') = 1
  <2>1. ASSUME NEW p \in DOMAIN msg, IsHost(msg[p]) PROVE flag_host_hdr = 1 /\ p = Place(c, n)
    <3>1. PICK i \in KeptAt(c) : i <= n /\ IsHost(request[c][i]) /\ p = Place(c, i)
      BY <1>2, <2>1
    <3>2. i = n
      BY <1>23, <3>1 DEF HostIsLast, n
    <3> QED BY <1>22, <3>1, <3>2
  <2>2. \A i \in 1 .. k : i \in 1 .. Len(msg) \/ (flag_host_hdr = 0 /\ i = k)
    BY <1>24
  <2>3. \A i \in 1 .. Len(msg') : i \in 1 .. k \/ i = k + 1 \/ i = k + 2 \/ i = k + 3 \/ i = k + 4
    BY <1>8
  <2>4. /\ ~IsHost(msg'[k + 1]) /\ ~IsHost(msg'[k + 2]) /\ ~IsHost(msg'[k + 3]) /\ ~IsHost(msg'[k + 4])
    BY <1>8 DEF IsHost, Header, CRLF
  <2>5. \A i \in 1 .. Len(msg) : i \in DOMAIN msg /\ msg'[i] = msg[i]
    BY <1>7, <1>8
  <2> DEFINE place == IF flag_host_hdr = 1 THEN Place(c, n) ELSE k
  <2>6. \A i \in 1 .. Len(msg') : IsHost(msg'[i]) => i = place
    <3> SUFFICES ASSUME NEW i \in 1 .. Len(msg'), IsHost(msg'[i]) PROVE i = place
      OBVIOUS
    <3>1. CASE i \in 1 .. Len(msg)
      <4>1. i \in DOMAIN msg /\ IsHost(msg[i])
        BY <2>5, <3>1
      <4> QED BY <2>1, <4>1
    <3>2. CASE i \notin 1 .. Len(msg)
      <4>1. flag_host_hdr = 0 /\ i = k
        BY <2>2, <2>3, <2>4, <3>2
      <4> QED BY <4>1
    <3> QED BY <3>1, <3>2
  <2>7. place \in 1 .. Len(msg') /\ IsHost(msg'[place])
    <3>1. CASE flag_host_hdr = 1
      BY <1>7, <1>8, <1>10, <1>22, <3>1
    <3>2. CASE flag_host_hdr = 0
      BY <1>7, <1>8, <3>2 DEF IsHost
    <3> QED BY <1>22, <3>1, <3>2
  <2>8. msg' \in Seq(MessageLines)
    BY <1>8
  <2> HIDE DEF place
  <2> QED BY <2>6, <2>7, <2>8, CountedOnce DEF IsHost
<1> DEFINE Own == {Header(name) : name \in Dropped} \cup {CRLF}
<1>12. \A i \in 1 .. k : msg'[i] \notin Own
  <2>1. msg[1] \notin Own
    <3>1. msg[1].type = "request"
      BY DEF Forwarded, Request
    <3>2. \A line \in Own : line.type # "request"
      BY DEF Header, CRLF
    <3> QED BY <3>1, <3>2
  <2>2. \A i \in 2 .. Len(msg) : msg[i] \notin Own
    BY <1>2 DEF IsKept, Header, CRLF
  <2>3. Header("Host") \notin Own
    <3>1. \A name \in Dropped : name # "Host"
      BY DEF Dropped
    <3>2. \A name : Header(name).name = name /\ Header(name).type = "header"
      BY DEF Header
    <3> QED BY <3>1, <3>2 DEF CRLF
  <2>4. \A i \in 1 .. k : i \in 1 .. Len(msg) \/ (flag_host_hdr = 0 /\ i = k)
    BY <1>24
  <2>5. \A i \in 1 .. Len(msg) : i = 1 \/ i \in 2 .. Len(msg)
    BY <1>7
  <2> QED BY <1>8, <2>1, <2>2, <2>3, <2>4, <2>5
<1>13. \A i \in 1 .. Len(msg') : i \in 1 .. k \/ i = k + 1 \/ i = k + 2 \/ i = k + 3 \/ i = k + 4
  BY <1>8
<1>14. k + 1 \in 1 .. Len(msg') /\ k + 2 \in 1 .. Len(msg') /\ k + 3 \in 1 .. Len(msg')
       /\ k + 4 \in 1 .. Len(msg')
  BY <1>8
<1>15. /\ Header("User-Agent") # Header("Connection") /\ Header("User-Agent") # Header("Proxy-Connection")
       /\ Header("Connection") # Header("Proxy-Connection") /\ \A name : Header(name) # CRLF
  <2>1. \A name : Header(name).name = name /\ Header(name).type = "header"
    BY DEF Header
  <2> QED BY <2>1 DEF CRLF
<1>16. /\ Header("User-Agent") \in Own /\ Header("Connection") \in Own
       /\ Header("Proxy-Connection") \in Own /\ CRLF \in Own
  BY DEF Dropped
<1> HIDE DEF Own
<1>17. /\ Count(Header("User-Agent"), msg') = 1 /\ Count(Header("Connection"), msg') = 1
       /\ Count(Header("Proxy-Connection"), msg') = 1 /\ Count(CRLF, msg') = 1
  <2>1. Count(Header("User-Agent"), msg') = 1
    <3>1. msg'[k + 2] # Header("User-Agent") /\ msg'[k + 3] # Header("User-Agent") /\ msg'[k + 4] # Header("User-Agent")
      BY <1>8, <1>15
    <3>2. \A i \in 1 .. k : msg'[i] # Header("User-Agent")
      BY <1>12, <1>16
    <3>3. \A i \in 1 .. Len(msg') : msg'[i] = Header("User-Agent") => i = k + 1
      BY <1>13, <3>1, <3>2
    <3>4. msg'[k + 1] = Header("User-Agent") /\ msg' \in Seq(MessageLines)
      BY <1>8
    <3> QED BY <1>14, <3>3, <3>4, CountedOnce
  <2>2. Count(Header("Connection"), msg') = 1
    <3>1. msg'[k + 1] # Header("Connection") /\ msg'[k + 3] # Header("Connection") /\ msg'[k + 4] # Header("Connection")
      BY <1>8, <1>15
    <3>2. \A i \in 1 .. k : msg'[i] # Header("Connection")
      BY <1>12, <1>16
    <3>3. \A i \in 1 .. Len(msg') : msg'[i] = Header("Connection") => i = k + 2
      BY <1>13, <3>1, <3>2
    <3>4. msg'[k + 2] = Header("Connection") /\ msg' \in Seq(MessageLines)
      BY <1>8
    <3> QED BY <1>14, <3>3, <3>4, CountedOnce
  <2>3. Count(Header("Proxy-Connection"), msg') = 1
    <3>1. msg'[k + 1] # Header("Proxy-Connection") /\ msg'[k + 2] # Header("Proxy-Connection") /\ msg'[k + 4] # Header("Proxy-Connection")
      BY <1>8, <1>15
    <3>2. \A i \in 1 .. k : msg'[i] # Header("Proxy-Connection")
      BY <1>12, <1>16
    <3>3. \A i \in 1 .. Len(msg') : msg'[i] = Header("Proxy-Connection") => i = k + 3
      BY <1>13, <3>1, <3>2
    <3>4. msg'[k + 3] = Header("Proxy-Connection") /\ msg' \in Seq(MessageLines)
      BY <1>8
    <3> QED BY <1>14, <3>3, <3>4, CountedOnce
  <2>4. Count(CRLF, msg') = 1
    <3>1. msg'[k + 1] # CRLF /\ msg'[k + 2] # CRLF /\ msg'[k + 3] # CRLF
      BY <1>8, <1>15
    <3>2. \A i \in 1 .. k : msg'[i] # CRLF
      BY <1>12, <1>16
    <3>3. \A i \in 1 .. Len(msg') : msg'[i] = CRLF => i = k + 4
      BY <1>13, <3>1, <3>2
    <3>4. msg'[k + 4] = CRLF /\ msg' \in Seq(MessageLines)
      BY <1>8
    <3> QED BY <1>14, <3>3, <3>4, CountedOnce
  <2> QED BY <2>1, <2>2, <2>3, <2>4
<1>18. Last(msg') = CRLF
  BY <1>8 DEF Last
<1>19. /\ KeptAt(c)' = KeptAt(c) /\ request'[c] = request[c] /\ \A i : Place(c, i)' = Place(c, i)
       /\ (HostIsLast(c)' <=> HostIsLast(c))
  BY SameRequest
<1>20. \A name \in Dropped : Count(Header(name), msg') = 1
  BY <1>17 DEF Dropped
<1>21. \A name : Count(Header(name), msg)' = Count(Header(name), msg') /\ Count(CRLF, msg)' = Count(CRLF, msg')
  BY DEF Count
<1> QED BY <1>10, <1>11, <1>17, <1>18, <1>19, <1>20, <1>21, <1>23 DEF IsForwarded, IsHost, Last

(* The message stays a request while it is not written.                    *)
LEMMA ForwardedStays ==
    ASSUME NEW c \in Clients, UNCHANGED <<msg, request>>
    PROVE  IsForwarded(c)' <=> IsForwarded(c)
<1>1. KeptAt(c)' = KeptAt(c) /\ (HostIsLast(c)' <=> HostIsLast(c)) /\ \A i : Place(c, i)' = Place(c, i)
  BY SameRequest
<1>2. \A line : Count(line, msg)' = Count(line, msg)
  BY DEF Count
<1> QED BY <1>1, <1>2 DEF IsForwarded, IsHost, Last

(* The request line begins the message.                                    *)
LEMMA RequestCollects ==
    ASSUME ProxyTypes, Connected, FirstLines, Message, p_Request, UNCHANGED clientVars,
           NEW c \in Clients, c = client', HasHeader(c)
    PROVE  pc' = "first header" /\ Reading(c, 1)'
<1>1. client \in Clients /\ pc = "request" /\ HasLine(client) /\ "none" \notin Clients
  BY ClientServed, Names DEF p_Request
<1>2. PICK line \in Understood(Head(up[client]).line) :
        LET m == append_msg([msg |-> msg, nleft |-> MAXLINE - 1], Forwarded(line))
        IN  /\ ReadsLine(client) /\ msg' = m.msg /\ nleft' = m.nleft /\ buf' = Forwarded(line)
            /\ pc' = "first header" /\ flag_host_hdr' = 0 /\ client' = client
  BY <1>1 DEF p_Request, clienterror, CloseClient, Done, Exits
<1> DEFINE m == append_msg([msg |-> msg, nleft |-> MAXLINE - 1], Forwarded(line))
<1>3. /\ ReadsLine(client) /\ msg' = m.msg /\ nleft' = m.nleft /\ buf' = Forwarded(line)
      /\ pc' = "first header" /\ flag_host_hdr' = 0 /\ client' = client
  BY <1>2
<1>4. c = client /\ c \in Conns /\ Unread(c) /\ request' = request /\ sent' = sent
      /\ sent[c] \in Nat /\ sent[c] <= Len(request[c]) /\ request[c] \in Seq(MessageLines)
      /\ Len(request[c]) \in Nat
  <2>1. request[c] \in Seq(MessageLines) /\ Len(request[c]) \in Nat
    BY FirstIsRequest
  <2> QED BY <1>1, <1>3, <2>1, Names DEF Unread, clientVars, ProxyTypes
<1>5. sent[c] > 0
  BY <1>1, <1>4, ReadsFirst
<1>6. up'[c] = SubSeq(request[c], 2, sent[c])
  <2>1. up[c] = SubSeq(request[c], 0 + 1, sent[c])
    <3>1. up[c] = SubSeq(request[c], 1, sent[c])
      BY <1>4, Zenon DEF FirstLines
    <3> QED BY <3>1
  <2>2. up'[c] = Tail(up[c]) /\ up[c] # <<>>
    BY <1>1, <1>3, <1>4 DEF ReadsLine, HasLine, ProxyTypes
  <2>3. Tail(SubSeq(request[c], 0 + 1, sent[c])) = SubSeq(request[c], 0 + 2, sent[c])
    BY <1>4, <2>1, <2>2, LineRead
  <2>4. 0 + 2 = 2
    OBVIOUS
  <2> QED BY <2>1, <2>2, <2>3, <2>4
<1>7. msg' = <<Forwarded(line)>> /\ nleft' = MAXLINE - 3
  <2>1. msg = <<>>
    BY <1>1 DEF Message
  <2>2. Size(Forwarded(line)) = 2 /\ Forwarded(line) # Nothing
    BY DEF Size, Forwarded, Request, Nothing
  <2>3. MAXLINE \in Nat /\ ~(2 > MAXLINE - 1) /\ MAXLINE - 1 - 2 = MAXLINE - 3
    BY MessageAssumption
  <2>4. m.msg = Append(<<>>, Forwarded(line)) /\ m.nleft = MAXLINE - 3
    BY <2>1, <2>2, <2>3 DEF append_msg
  <2>5. Append(<<>>, Forwarded(line)) = <<Forwarded(line)>>
    OBVIOUS
  <2> HIDE DEF m
  <2> QED BY <1>3, <2>4, <2>5
<1>8. Collected(c, 1)'
  <2>1. Len(msg') = 1
    BY <1>7
  <2>2. Place(c, 1) = 1 /\ Used(c)[1] = 2
    BY Places, Room
  <2>3. MAXLINE - 3 = MAXLINE - 1 - 2
    BY MessageAssumption
  <2>4. \A i \in KeptAt(c) : ~(i <= 1)
    <3>1. Length(c) \in Nat
      BY RequestHeaders
    <3> QED BY <3>1 DEF KeptAt
  <2>5. 2 .. Len(msg') = {}
    BY <2>1
  <2>6. KeptAt(c)' = KeptAt(c) /\ Used(c)' = Used(c) /\ Place(c, 1)' = Place(c, 1)
    BY <1>4, SameRequest
  <2>7. Len(msg') = Place(c, 1)' /\ nleft' = MAXLINE - 1 - Used(c)'[1]
    BY <1>7, <2>1, <2>2, <2>3, <2>6
  <2>8. flag_host_hdr' = IF 1 > 1 /\ IsHost(request'[c][1]) THEN 1 ELSE 0
    <3>1. ~(1 > 1)
      OBVIOUS
    <3>2. ~(1 > 1 /\ IsHost(request'[c][1]))
      BY <3>1, Zenon
    <3>3. flag_host_hdr' = 0
      BY <1>3
    <3> QED BY <3>2, <3>3, Zenon
  <2>9. \A p \in DOMAIN msg' : ~IsHost(msg'[p])
    <3>1. DOMAIN msg' = {1} /\ msg'[1] = Forwarded(line)
      BY <1>7
    <3> QED BY <3>1 DEF IsHost, Forwarded, Request, Header
  <2> QED BY <2>4, <2>5, <2>6, <2>7, <2>8, <2>9 DEF Collected, IsHost
<1>9. buf' # CRLF
  BY <1>3 DEF Forwarded, Request, CRLF
<1>10. sent'[c] = sent[c] /\ 1 <= sent'[c] /\ request'[c] = request[c]
  BY <1>4, <1>5
<1>11. up'[c] = SubSeq(request'[c], 1 + 1, sent'[c])
  BY <1>6, <1>10
<1>12. ~(1 > 1)
  OBVIOUS
<1>13. pc' = "first header"
  BY <1>3
<1> QED BY <1>8, <1>9, <1>10, <1>11, <1>12, <1>13 DEF Reading

(* A line that is not the empty one leaves the proxy reading.              *)
LEMMA HeaderCollects ==
    ASSUME ProxyTypes, Message, UNCHANGED <<near, clientVars>>,
           NEW c \in Clients, c = client, c \in Conns, HasHeader(c), ReadsHeaders,
           NEW k, k \in 1 .. Length(c) - 1, Reading(c, k),
           NEW line, ReadsInto(line), Checks(line), line # CRLF \/ pc # "headers"
    PROVE  \E j \in 1 .. Length(c) - 1 : Reading(c, j)'
<1>1. /\ Length(c) \in Nat /\ Length(c) > 2 /\ request[c] \in Seq(MessageLines) /\ Length(c) = Len(request[c])
      /\ request[c][Length(c)] = CRLF /\ sent[c] \in Nat /\ sent[c] <= Len(request[c])
      /\ request' = request /\ sent' = sent /\ pc' = "headers"
  <2>1. Length(c) \in Nat /\ request[c] \in Seq(MessageLines) /\ request[c][Length(c)] = CRLF
    BY FirstIsRequest, RequestHeaders
  <2> QED BY <2>1 DEF HasHeader, Length, ProxyTypes, clientVars, Checks
<1>2. CASE AtEOF(c)
  <2>1. up' = up /\ line = buf
    BY <1>2 DEF ReadsInto, AtEOF, HasLine
  <2>2. AtEOF(c)'
    BY <1>2, <2>1 DEF AtEOF
  <2>3. buf' # CRLF
    BY <2>1 DEF Reading, Checks, CheckedEntry, Nothing, CRLF
  <2> QED BY <1>1, <2>1, <2>2, <2>3 DEF Reading
<1>3. CASE ~AtEOF(c)
  <2>1. line = Head(up[c]) /\ up'[c] = Tail(up[c]) /\ up[c] # <<>>
    BY <1>3 DEF ReadsInto, ReadsLine, HasLine, ProxyTypes
  <2>2. k \in Nat /\ k <= sent[c] /\ up[c] = SubSeq(request[c], k + 1, sent[c])
    BY <1>1 DEF Reading
  <2>3. /\ k + 1 <= sent[c] /\ line = request[c][k + 1]
        /\ up'[c] = SubSeq(request[c], k + 2, sent[c])
    <3>1. request[c] \in Seq(MessageLines) /\ sent[c] \in Nat /\ sent[c] <= Len(request[c])
      BY <1>1
    <3>2. SubSeq(request[c], k + 1, sent[c]) # <<>>
      BY <2>1, <2>2
    <3>3. /\ k + 1 <= sent[c] /\ Head(SubSeq(request[c], k + 1, sent[c])) = request[c][k + 1]
          /\ Tail(SubSeq(request[c], k + 1, sent[c])) = SubSeq(request[c], k + 2, sent[c])
      BY <2>2, <3>1, <3>2, LineRead
    <3> QED BY <2>1, <2>2, <3>3
  <2>4. k + 1 # Length(c)
    <3>1. CASE pc # "headers"
      BY <1>1, <2>2, <3>1 DEF Reading
    <3>2. CASE line # CRLF
      BY <1>1, <2>3, <3>2
    <3> QED BY <3>1, <3>2
  <2>5. k \in 1 .. Length(c) - 2 /\ k + 1 \in 1 .. Length(c) - 1 /\ k + 1 \in 2 .. Length(c) - 1
        /\ (k + 1) + 1 = k + 2
    BY <1>1, <2>2, <2>4
  <2>6. line.type = "header"
    BY <2>3, <2>5, RequestHeaders
  <2>7. buf' # CRLF
    BY <2>6 DEF Checks, CheckedEntry, Nothing, CRLF
  <2>8. ASSUME Fits(c) PROVE Collected(c, k + 1)'
    <3>1. Collected(c, k)
      BY <1>3, <2>8 DEF Reading
    <3>2. msg # <<>>
      BY DEF Message, ReadsHeaders
    <3> QED BY <1>1, <2>3, <2>5, <2>8, <3>1, <3>2, HeaderRead
  <2>9. (Fits(c)' <=> Fits(c)) /\ request'[c] = request[c] /\ sent'[c] = sent[c]
    BY <1>1, SameRequest
  <2>10. Reading(c, k + 1)'
    BY <1>1, <2>3, <2>5, <2>7, <2>8, <2>9 DEF Reading
  <2> QED BY <2>5, <2>10
<1> QED BY <1>2, <1>3

(* The empty line ends the message.                                        *)
LEMMA EmptyLine ==
    ASSUME ProxyTypes, Message, request' = request,
           NEW c \in Clients, c = client, c \in Conns, HasHeader(c), Fits(c), pc = "headers",
           NEW k, k \in 1 .. Length(c) - 1, Reading(c, k), ReadsInto(CRLF),
           msg' = Finished(proxy_forw, flag_host_hdr).msg
    PROVE  IsForwarded(c)'
<1>1. /\ Length(c) \in Nat /\ request[c] \in Seq(MessageLines) /\ Length(c) = Len(request[c])
      /\ sent[c] \in Nat /\ sent[c] <= Len(request[c])
  <2>1. Length(c) \in Nat /\ request[c] \in Seq(MessageLines)
    BY FirstIsRequest, RequestHeaders
  <2> QED BY <2>1 DEF Length, ProxyTypes
<1>2. ~AtEOF(c) /\ CRLF = Head(up[c]) /\ up[c] # <<>>
  BY DEF Reading, ReadsInto, HasLine, AtEOF
<1>3. k \in Nat /\ k <= sent[c] /\ up[c] = SubSeq(request[c], k + 1, sent[c])
  BY <1>1 DEF Reading
<1>4. k + 1 <= sent[c] /\ request[c][k + 1] = CRLF
  BY <1>1, <1>2, <1>3, LineRead
<1>5. k + 1 \notin 2 .. Length(c) - 1
  BY <1>4, RequestHeaders DEF CRLF
<1>6. k = Length(c) - 1
  BY <1>1, <1>3, <1>4, <1>5
<1>7. Collected(c, k)
  BY <1>2 DEF Reading
<1>8. msg # <<>> /\ \E line \in Accepted(c) : msg[1] = Forwarded(line)
  BY DEF Message
<1> QED BY <1>6, <1>7, <1>8, HeadersEnd

(* What is collected stays the request's, step by step.                    *)
LEMMA CollectingStep ==
    ASSUME ProxyTypes, Connected, ForwardOnce, FirstLines, Message, Collecting, Next,
           NEW c \in Clients, c = client', HasHeader(c)'
    PROVE  /\ ReadsHeaders' => \E k \in 1 .. Length(c)' - 1 : Reading(c, k)'
           /\ pc' \in {"connect", "send"} /\ Fits(c)' => IsForwarded(c)'
<1>1. request' = request /\ HasHeader(c) /\ (Fits(c)' <=> Fits(c)) /\ Length(c)' = Length(c)
      /\ c # "none" /\ c \in Conns
  BY ClientsChange, SameRequest, Names
<1>2. c = client =>
        /\ ReadsHeaders => \E k \in 1 .. Length(c) - 1 : Reading(c, k)
        /\ pc \in {"connect", "send"} /\ Fits(c) => IsForwarded(c)
  BY <1>1 DEF Collecting
<1> USE <1>1
<1>3. CASE ~Proxies
  <2>1. UNCHANGED <<pc, client, msg>>
    BY <1>3 DEF Next, Serves, RunsCgi, Connect, Send, Close, proxyVars
  <2>2. (ReadsHeaders' <=> ReadsHeaders) /\ c = client
    BY <2>1 DEF ReadsHeaders
  <2>3. ASSUME ReadsHeaders PROVE \E k \in 1 .. Length(c) - 1 : Reading(c, k)'
    <3>1. PICK k \in 1 .. Length(c) - 1 : Reading(c, k)
      BY <1>2, <2>2, <2>3
    <3>2. Reading(c, k)'
      BY <1>3, <2>2, <2>3, <3>1, ReadingKeeps
    <3> QED BY <3>2
  <2>4. IsForwarded(c)' <=> IsForwarded(c)
    BY <2>1, ForwardedStays
  <2> QED BY <1>2, <2>1, <2>2, <2>3, <2>4
<1>4. CASE Proxies
  <2>1. UNCHANGED clientVars /\ ProxyStep
    BY <1>4 DEF Proxies
  <2>2. CASE p_Request
    <3>1. pc' = "first header" /\ Reading(c, 1)'
      BY <2>1, <2>2, RequestCollects
    <3>2. 1 \in 1 .. Length(c) - 1
      <4>1. Length(c) \in Nat /\ Length(c) >= 2
        BY RequestHeaders
      <4> QED BY <4>1
    <3> QED BY <3>1, <3>2
  <2>3. CASE p_FirstHeader \/ p_Header
    <3>1. UNCHANGED <<near, client>> /\ ReadsHeaders
      BY <2>3 DEF p_FirstHeader, p_Header, ReadsHeaders
    <3>2. PICK k \in 1 .. Length(c) - 1 : Reading(c, k)
      BY <1>2, <3>1
    <3>3. PICK line :
            /\ ReadsInto(line)
            /\ \/ Checks(line) /\ (line # CRLF \/ pc # "headers")
               \/ /\ pc = "headers" /\ line = CRLF /\ msg' = Finished(proxy_forw, flag_host_hdr).msg
                  /\ pc' = "connect"
      BY <2>3 DEF p_FirstHeader, p_Header
    <3>4. CASE Checks(line) /\ (line # CRLF \/ pc # "headers")
      <4>1. pc' = "headers"
        BY <3>4 DEF Checks
      <4>2. \E j \in 1 .. Length(c) - 1 : Reading(c, j)'
        BY <2>1, <3>1, <3>2, <3>3, <3>4, HeaderCollects
      <4> QED BY <4>1, <4>2
    <3>5. CASE /\ pc = "headers" /\ line = CRLF /\ msg' = Finished(proxy_forw, flag_host_hdr).msg
               /\ pc' = "connect"
      <4>1. ~ReadsHeaders'
        BY <3>5 DEF ReadsHeaders
      <4>2. Fits(c) => IsForwarded(c)'
        BY <3>1, <3>2, <3>3, <3>5, EmptyLine
      <4> QED BY <4>1, <4>2
    <3> QED BY <3>3, <3>4, <3>5
  <2>4. CASE p_Connect
    <3>1. pc = "connect" /\ pc' = "send" /\ client' = client /\ msg' = msg
      BY <2>4 DEF p_Connect, Exits
    <3>2. ~ReadsHeaders'
      BY <3>1 DEF ReadsHeaders
    <3>3. IsForwarded(c)' <=> IsForwarded(c)
      BY <3>1, ForwardedStays
    <3> QED BY <1>2, <3>1, <3>2, <3>3
  <2>5. CASE p_Accept \/ p_Garbled \/ p_NoRequest \/ p_Send \/ p_Reply \/ p_ReplyEnds \/ p_Entity
    <3>1. pc' \notin {"first header", "headers", "connect", "send"}
      BY <2>5 DEF p_Accept, p_Garbled, p_NoRequest, CloseClient, Done, p_Send, p_Reply, p_ReplyEnds, p_Entity, Exits
    <3> QED BY <3>1 DEF ReadsHeaders
  <2> QED BY <2>1, <2>2, <2>3, <2>4, <2>5 DEF ProxyStep
<1> QED BY <1>3, <1>4

LEMMA CollectingInductive ==
    ProxyInductive /\ Collecting /\ [Next]_vars => Collecting'
<1>1. ASSUME ProxyInductive, Collecting, Next PROVE Collecting'
  <2>1. ProxyTypes /\ Connected /\ ForwardOnce /\ FirstLines /\ Message
    BY <1>1 DEF ProxyInductive
  <2>2. ASSUME NEW c \in Clients, c = client', HasHeader(c)'
        PROVE  /\ ReadsHeaders' => \E k \in 1 .. Length(c)' - 1 : Reading(c, k)'
               /\ pc' \in {"connect", "send"} /\ Fits(c)' => IsForwarded(c)'
    BY <1>1, <2>1, <2>2, CollectingStep
  <2> QED BY <2>2 DEF Collecting
<1>2. ASSUME Collecting, UNCHANGED vars PROVE Collecting'
  <2>1. UNCHANGED <<up, near, pc, client, buf, flag_host_hdr, msg, nleft, request, sent>>
    BY <1>2 DEF vars
  <2>2. ASSUME NEW c \in Clients
        PROVE  /\ (ReadsHeaders' <=> ReadsHeaders) /\ (HasHeader(c)' <=> HasHeader(c))
               /\ (Fits(c)' <=> Fits(c)) /\ Length(c)' = Length(c)
               /\ (IsForwarded(c)' <=> IsForwarded(c)) /\ \A k : Reading(c, k)' <=> Reading(c, k)
    <3>1. \A k : Collected(c, k)' <=> Collected(c, k)
      BY <2>1, SameRequest DEF Collected
    <3>2. \A k : Reading(c, k)' <=> Reading(c, k)
      BY <2>1, <3>1, SameRequest DEF Reading, AtEOF
    <3> QED BY <2>1, <3>2, SameRequest, ForwardedStays DEF ReadsHeaders
  <2> QED BY <1>2, <2>1, <2>2 DEF Collecting
<1> QED BY <1>1, <1>2

-----------------------------------------------------------------------------
(* The inductive invariant. *)

LEMMA InitInductive == Init => ProxyInductive
<1> SUFFICES ASSUME Init PROVE ProxyInductive
  OBVIOUS
<1>1. /\ \A d \in Conns : up[d] = <<>> /\ down[d] = <<>> /\ near[d] = "none" /\ far[d] = "none"
      /\ queue = [s \in Servers |-> <<>>]
      /\ pc = "accept" /\ client = "none" /\ msg = <<>> /\ t_pc = "accept" /\ t_conn = "none" /\ cgi = "none"
      /\ sent = [c \in Clients |-> 0] /\ target \in [Clients -> Servers] /\ request \in [Clients -> Requests]
  BY DEF Init, NetInit, ProxyInit, TinyInit
<1>2. "none" \notin Conns /\ "forward" \in Conns /\ Clients \subseteq Conns
  BY Names
<1>3. ProxyTypes
  <2>1. <<>> \in Seq(MessageLines) /\ <<>> \in Seq(ReplyLines) /\ <<>> \in Seq(Conns)
    BY EmptySeq
  <2>2. /\ up = [d \in Conns |-> <<>>] /\ down = [d \in Conns |-> <<>>]
        /\ near = [d \in Conns |-> "none"] /\ far = [d \in Conns |-> "none"]
    BY DEF Init, NetInit
  <2>3. \A c \in Clients : sent[c] <= Len(request[c])
    <3> SUFFICES ASSUME NEW c \in Clients PROVE sent[c] <= Len(request[c])
      OBVIOUS
    <3>1. request[c] \in Seq(MessageLines)
      BY <1>1, RequestsAssumption DEF IsRequest
    <3> QED BY <1>1, <3>1, LenProperties
  <2> QED BY <1>1, <2>1, <2>2, <2>3 DEF ProxyTypes
<1>4. Connected
  <2>1. Serving("proxy") = "none" /\ Serving("tiny") = "none"
    BY <1>1 DEF Serving
  <2> QED BY <1>1, <2>1 DEF Connected, Servers
<1>5. Queued
  <2>1. \A s \in Servers : Len(queue[s]) = 0
    BY <1>1
  <2> QED BY <2>1 DEF Queued
<1>6. ForwardOnce
  BY <1>1, <1>2 DEF ForwardOnce
<1>7. FirstLines
  <2>1. \A c \in Clients : SubSeq(request[c], 1, sent[c]) = <<>>
    BY <1>1
  <2> QED BY <1>1, <1>2, <2>1 DEF FirstLines
<1>8. Message
  BY <1>1 DEF Message
<1>9. TinyServing
  BY <1>1 DEF TinyServing
<1>10. TinyOutput
  <2>1. \A c \in Clients : TinyWrote(c)
    BY <1>1, <1>2, Names DEF TinyWrote, Produced
  <2> QED BY <1>1, <2>1 DEF TinyOutput
<1>11. ProxyOutput
  BY <1>1, <1>2 DEF ProxyOutput
<1> QED BY <1>3, <1>4, <1>5, <1>6, <1>7, <1>8, <1>9, <1>10, <1>11 DEF ProxyInductive

LEMMA NextInductive == ProxyInductive /\ [Next]_vars => ProxyInductive'
<1>1. ASSUME ProxyInductive, Next PROVE ProxyInductive'
  <2>1. /\ ProxyTypes /\ Connected /\ Queued /\ ForwardOnce /\ FirstLines /\ Message
        /\ TinyServing /\ TinyOutput /\ ProxyOutput
    BY <1>1 DEF ProxyInductive
  <2>2. ProxyTypes'
    BY <1>1, <2>1, TypesStep
  <2>3. Connected' /\ Queued' /\ ForwardOnce'
    BY <1>1, <2>1, <2>2, ConnectionsStep
  <2>4. FirstLines'
    BY <1>1, <2>1, FirstLinesStep
  <2>5. Message'
    BY <1>1, <2>1, MessageStep
  <2>6. TinyServing'
    BY <1>1, <2>1, TinyServingStep
  <2>7. TinyOutput'
    <3>1. \A d \in Conns : Live(d) => TinyWrote(d)
      BY <2>1, TinyOutputIsLive
    <3>2. \A d \in Conns : Live(d)' => TinyWrote(d)'
      BY <1>1, <2>1, <2>2, <3>1, TinyOutputStep
    <3>3. Conns' = Conns
      BY DEF Conns
    <3>4. (ProxyTypes => (TinyOutput <=> \A d \in Conns : Live(d) => TinyWrote(d)))'
      BY TinyOutputIsLive, PTL
    <3> QED BY <2>2, <3>2, <3>3, <3>4
  <2>8. ProxyOutput'
    BY <1>1, <2>1, <2>2, <2>3, ProxyOutputStep
  <2> QED BY <2>2, <2>3, <2>4, <2>5, <2>6, <2>7, <2>8 DEF ProxyInductive
<1>2. ASSUME ProxyInductive, UNCHANGED vars PROVE ProxyInductive'
  <2>1. UNCHANGED <<up, down, near, far, queue, pc, client, buf, msg, t_pc, t_conn, t_line, cgi, target, request, sent>>
    BY <1>2 DEF vars
  <2>2. ProxyTypes' /\ Connected' /\ Queued' /\ ForwardOnce' /\ Message'
    <3>1. ProxyTypes' /\ ForwardOnce'
      <4>1. ProxyTypes'
        BY <1>2, <2>1 DEF ProxyInductive, ProxyTypes
      <4>2. ForwardOnce'
        BY <1>2, <2>1 DEF ProxyInductive, ForwardOnce
      <4> QED BY <4>1, <4>2
    <3>2. Connected'
      BY <1>2, <2>1 DEF ProxyInductive, Connected, Serving, ServerOf
    <3>3. Queued' /\ Message'
      BY <1>2, <2>1 DEF ProxyInductive, Queued, ServerOf, Message, Accepted, Line1
    <3> QED BY <3>1, <3>2, <3>3
  <2>3. FirstLines' /\ TinyServing'
    BY <1>2, <2>1 DEF ProxyInductive, FirstLines, TinyServing, Unread, Opening, Accepted, Line1
  <2>4. TinyOutput' /\ ProxyOutput'
    BY <1>2, <2>1 DEF ProxyInductive, TinyOutput, TinyWrote, Produced, AskedReplies, ProxyOutput, Replies,
                      Accepted, Line1
  <2> QED BY <2>2, <2>3, <2>4 DEF ProxyInductive
<1> QED BY <1>1, <1>2

(* ProxyInductive is an invariant: at every moment the connections, the    *)
(* messages and what was written on them are those of the requests being   *)
(* served (main, forward, doit and what they call).                        *)
THEOREM ProxyInductiveCorrect == Spec => []ProxyInductive
BY InitInductive, NextInductive, PTL DEF Spec

(* DescriptorsClosed: when the proxy accepts, no descriptor is left open   *)
(* (main and forward close what they open on every path).                  *)
THEOREM DescriptorsClosedCorrect == Spec => []DescriptorsClosed
<1>1. ProxyInductive => DescriptorsClosed
  <2> SUFFICES ASSUME ProxyInductive, pc \in {"accept", "request"} PROVE DescriptorsClosed
    BY DEF DescriptorsClosed
  <2>1. near["forward"] # "open"
    BY DEF ProxyInductive, ForwardOnce
  <2>2. ASSUME NEW c \in Clients \ {client}, target[c] = "proxy" PROVE far[c] # "open"
    BY <2>2, Names DEF ProxyInductive, Connected, Serving, ServerOf
  <2> QED BY <2>1, <2>2 DEF DescriptorsClosed
<1> QED BY <1>1, ProxyInductiveCorrect, PTL

(* RepliesMatch: what a client gets is the beginning of the reply to its   *)
(* own request, from the proxy, from Tiny through it, or from Tiny itself  *)
(* (forward, clienterror, serve_static and serve_dynamic).  A client whose *)
(* line has no URL, or one cut short, may get the reply to whatever URL    *)
(* the unwritten buffer holds: any of Garbage, on which nothing but        *)
(* GarbageAssumption is assumed.                                           *)
THEOREM RepliesMatchCorrect == Spec => []RepliesMatch
<1>1. ProxyInductive => RepliesMatch
  <2> SUFFICES ASSUME ProxyInductive, NEW c \in Clients
               PROVE  \E reply \in Replies(c) : IsPrefix(down[c], reply)
    BY DEF RepliesMatch
  <2>1. /\ ProxyTypes /\ Connected /\ Message /\ TinyServing /\ TinyOutput /\ ProxyOutput
        /\ c \in Conns /\ c # "forward" /\ target[c] \in {"proxy", "tiny"}
    BY Names DEF ProxyInductive, ProxyTypes
  <2>2. CASE target[c] = "proxy"
    BY <2>1, <2>2, ProxyReplies
  <2>3. CASE target[c] = "tiny"
    <3>1. Live(c) /\ TinyWrote(c)
      BY <2>1, <2>3 DEF Live, ServerOf, TinyOutput
    <3>2. \E reply \in AskedReplies(c) : IsPrefix(Produced(c), reply)
      BY <2>1, <3>1, ProducedIsReply
    <3> QED BY <2>1, <2>3, <3>2 DEF Produced, Replies
  <2> QED BY <2>1, <2>2, <2>3
<1> QED BY <1>1, ProxyInductiveCorrect, PTL

(* RequestForwarded: what the proxy sends is the client's request, its     *)
(* headers in order and the proxy's own in place of those it drops, with a *)
(* single Host unless the client's own stands before another header, for   *)
(* every request that has a header and fits (forward, append_msg and       *)
(* check_header).                                                          *)
THEOREM RequestForwardedCorrect == Spec => []RequestForwarded
<1>1. Init => Collecting
  BY DEF Init, ProxyInit, Collecting, ReadsHeaders
<1>2. ProxyInductive /\ Collecting => RequestForwarded
  <2> SUFFICES ASSUME ProxyInductive, Collecting, pc = "send", HasHeader(client), Fits(client)
               PROVE  /\ \E line \in Accepted(client) : msg[1] = Forwarded(line)
                      /\ IsForwarded(client)
    BY DEF RequestForwarded
  <2>1. ProxyTypes /\ Connected /\ Message
    BY DEF ProxyInductive
  <2>2. client \in Clients
    BY <2>1, ClientServed
  <2> QED BY <2>1, <2>2 DEF Collecting, Message
<1> QED BY <1>1, <1>2, ProxyInductiveCorrect, CollectingInductive, PTL DEF Spec
=============================================================================
