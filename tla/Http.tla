-------------------------------- MODULE Http --------------------------------
(***************************************************************************)
(* Requests and replies, line by line, as proxy.c and tiny.c tell them     *)
(* apart.  A line is a record: a request line, a header, the empty line    *)
(* (CRLF), a status line or a part of a page.                              *)
(***************************************************************************)
EXTENDS Naturals, Sequences

CONSTANT Garbage   \* the URLs a buffer may be read as that was not written

Request(line)   == [type |-> "request", line |-> line]
Header(name)    == [type |-> "header", name |-> name]
Status(errnum)  == [type |-> "status", errnum |-> errnum]
Body(what)      == [type |-> "body", what |-> what]
CRLF            == [type |-> "crlf"]
Nothing         == [type |-> "nothing"]   \* a buffer that holds the empty string

-----------------------------------------------------------------------------
(* parse_req_line and parse_url of proxy.c.  A request line is a record of *)
(* what they look at: whether it is too long, how many words it has (four  *)
(* are as good as three), method, URL and version.                         *)

parse_req_line(line) ==
    IF line.long THEN "414"
    ELSE IF line.words # 3 THEN "400"
    ELSE IF line.method # "GET" THEN "501"
    ELSE IF line.version \notin {"1.0", "1.1"} THEN "505"
    ELSE "none"

(* A URL: whether it begins with http:// and goes on, ends within these    *)
(* letters or right behind them ("cut short"), or begins with others; where *)
(* it has its first colon ("none", "host" or "path") and whether it has a  *)
(* slash, its port, question marks in the host and dots in the path, and   *)
(* the file it names.                                                      *)
URLs == [scheme : {"http", "cut short", "other"}, slash : BOOLEAN, colon : {"none", "host", "path"},
         port : {"valid", "letters", "above 65535"}, hostQuest : BOOLEAN, dots : BOOLEAN,
         file : {"static", "missing", "forbidden", "cgi"}, arguments : BOOLEAN]

MalformedURL(url) ==
    \/ url.scheme = "other" \/ ~url.slash \/ url.colon = "path"
    \/ url.port \in {"letters", "above 65535"}
    \/ url.hostQuest \/ url.dots

ASSUME GarbageAssumption == Garbage # {} /\ \A url \in Garbage : url \in URLs /\ url.scheme = "http"

RequestLines == [long : BOOLEAN, words : 0 .. 3, method : {"GET", "POST"},
                 version : {"1.0", "1.1", "other"}, url : URLs]

(* What parse_url finds in tmp.  For a URL cut short sscanf returns EOF,   *)
(* which is not 0: the test passes, and tmp was not written.               *)
Understood(line) ==
    {[line EXCEPT !.url = url] : url \in IF line.url.scheme = "cut short" THEN Garbage ELSE {line.url}}

(* What tiny.c's doit finds in method and uri: its sscanf writes as many   *)
(* of them as the line has words, and its result is not tested.            *)
Scanned(line) ==
    {[line EXCEPT !.method = method, !.url = url] :
        method \in IF line.words = 0 THEN {"GET", "POST"} ELSE {line.method},
        url \in IF line.words < 2 THEN Garbage ELSE {line.url}}

(* What the proxy answers to a line so understood, "none" if it forwards   *)
(* the request.                                                            *)
RequestError(line) ==
    IF parse_req_line(line) # "none" THEN parse_req_line(line)
    ELSE IF MalformedURL(line.url) THEN "422"
    ELSE "none"

(* The request line the proxy sends. *)
Forwarded(line) == Request([long |-> FALSE, words |-> 3, method |-> "GET",
                            version |-> "1.0", url |-> line.url])

-----------------------------------------------------------------------------
(* clienterror, in proxy.c and in tiny.c. *)
ErrorPage(errnum) ==
    <<Status(errnum), Header("Content-type"), CRLF, Body("error")>>

(* Tiny's replies: serve_static, and serve_dynamic with what the CGI        *)
(* program writes.                                                         *)
StaticHead ==
    <<Status("200"), Header("Server"), Header("Content-length"), Header("Content-type"), CRLF>>

StaticReply == StaticHead \o <<Body("file")>>

DynamicHead == <<Status("200"), Header("Server")>>

CgiOutput ==
    <<Header("Connection"), Header("Content-length"), Header("Content-type"), CRLF, Body("cgi")>>

ReplyLines ==
    [type : {"status"}, errnum : {"200", "400", "403", "404", "414", "422", "501", "505"}]
      \cup [type : {"header"}, name : {"Connection", "Content-length", "Content-type", "Server"}]
      \cup [type : {"body"}, what : {"error", "file", "cgi"}] \cup {CRLF}
=============================================================================
