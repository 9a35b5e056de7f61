------------------------------ MODULE ProxyLab ------------------------------
(***************************************************************************)
(* Clients, the proxy and Tiny: a client sends a request, to the proxy or  *)
(* to Tiny itself, and may close its connection at any time.               *)
(***************************************************************************)
EXTENDS Proxy, Tiny

CONSTANT Requests   \* what a client may send: a request line, headers and CRLF

IsRequest(lines) ==
    /\ lines \in Seq(MessageLines) /\ Len(lines) >= 2
    /\ lines[1].type = "request" /\ lines[Len(lines)] = CRLF
    /\ \A i \in 2 .. Len(lines) - 1 : lines[i].type = "header"

ASSUME ClientsAssumption == "forward" \notin Clients /\ "none" \notin Clients

ASSUME RequestsAssumption == \A lines \in Requests : IsRequest(lines)

VARIABLES
    target,    \* the server each client connects to
    request,   \* what it sends
    sent       \* how many lines of it are sent

clientVars == <<target, request, sent>>
vars == <<up, down, near, far, queue, listening, pc, client, buf, flag_host_hdr, msg, nleft,
          t_pc, t_conn, t_line, cgi, target, request, sent>>

-----------------------------------------------------------------------------

Connect(c) ==
    /\ near[c] = "none" /\ Connects(c, target[c])
    /\ UNCHANGED <<up, down, listening, proxyVars, tinyVars, clientVars>>

(* What is sent to a connection that is closed already is lost.            *)
Send(c) ==
    /\ near[c] = "open" /\ sent[c] < Len(request[c])
    /\ sent' = [sent EXCEPT ![c] = @ + 1]
    /\ up' = IF far[c] = "closed" THEN up
             ELSE [up EXCEPT ![c] = Append(@, request[c][sent[c] + 1])]
    /\ UNCHANGED <<down, near, far, queue, listening, proxyVars, tinyVars, target, request>>

Close(c) ==
    /\ near[c] = "open" /\ near' = [near EXCEPT ![c] = "closed"]
    /\ UNCHANGED <<up, down, far, queue, listening, proxyVars, tinyVars, clientVars>>

Proxies  == ProxyStep /\ UNCHANGED <<tinyVars, clientVars>>
Serves   == TinyStep /\ UNCHANGED <<proxyVars, clientVars>>
RunsCgi  == cgi_Ends /\ UNCHANGED <<proxyVars, clientVars>>

Init ==
    /\ NetInit /\ ProxyInit /\ TinyInit
    /\ target \in [Clients -> Servers] /\ request \in [Clients -> Requests]
    /\ sent = [c \in Clients |-> 0]

Next ==
    \/ Proxies \/ Serves \/ RunsCgi
    \/ \E c \in Clients : Connect(c) \/ Send(c) \/ Close(c)

(* The programs run on, and a client sends what it began to send unless it *)
(* closes.                                                                 *)
Fairness ==
    /\ WF_vars(Proxies) /\ WF_vars(Serves) /\ WF_vars(RunsCgi)
    /\ \A c \in Clients : WF_vars(Send(c))

Spec == Init /\ [][Next]_vars /\ Fairness
=============================================================================
