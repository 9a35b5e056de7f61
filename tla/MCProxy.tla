------------------------------ MODULE MCProxy ------------------------------
(***************************************************************************)
(* Small instances of ProxyLab for TLC.                                    *)
(***************************************************************************)
EXTENDS ProxyProperties

Url(file) == [scheme |-> "http", slash |-> TRUE, colon |-> "host", port |-> "valid",
              hostQuest |-> FALSE, dots |-> FALSE, file |-> file, arguments |-> TRUE]

Get(url) == [long |-> FALSE, words |-> 3, method |-> "GET", version |-> "1.1", url |-> url]

Page    == Get(Url("static"))
Adder   == Get(Url("cgi"))
NoArgs  == Get([Url("cgi") EXCEPT !.arguments = FALSE])
Post    == [Page EXCEPT !.method = "POST"]
NoUrl   == [Page EXCEPT !.words = 1]
NoRest  == Get([Url("static") EXCEPT !.scheme = "cut short"])

MCGarbage == {[Url("missing") EXCEPT !.colon = "none"], [Url("static") EXCEPT !.slash = FALSE]}

Sent(line, names) ==
    <<Request(line)>> \o [i \in DOMAIN names |-> Header(names[i])] \o <<CRLF>>

MCRequests ==
    {Sent(Page, <<"Host", "Accept">>), Sent(Adder, <<"User-Agent", "Host">>),
     Sent(NoUrl, <<"Connection">>), Sent(NoRest, <<"Proxy-Connection">>),
     Sent(Page, <<"Cookie", "Accept">>), Sent(NoArgs, <<"Accept">>), Sent(Page, <<>>),
     Sent(Post, <<"Host">>)}

MCSizes == [name \in {"Host", "Accept", "User-Agent", "Connection", "Proxy-Connection", "Cookie"} |->
              IF name = "Cookie" THEN 5 ELSE 2]
=============================================================================
