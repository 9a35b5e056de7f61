---------------------------- MODULE Connections ----------------------------
(***************************************************************************)
(* The connections between clients, the proxy and Tiny, as the socket      *)
(* calls of csapp.c see them: lines travel in order, a closed end is an    *)
(* end of file once everything sent was read, and writing to a closed end  *)
(* may kill the writer (SIGPIPE, which no program here handles).           *)
(***************************************************************************)
EXTENDS Http

CONSTANT Clients

Servers == {"proxy", "tiny"}
Conns   == Clients \cup {"forward"}   \* "forward" is the proxy's, to Tiny

VARIABLES
    up, down,   \* lines sent by the connecting end and not read yet; and lines
                \* sent by the accepting end
    near, far,  \* the connecting end: "none", "open" or "closed";
                \* the accepting end: "none", "queued", "open" or "closed"
    queue,      \* connections each server has not accepted yet
    listening   \* the servers that run

netVars == <<up, down, near, far, queue, listening>>

NetInit ==
    /\ up = [c \in Conns |-> <<>>] /\ down = [c \in Conns |-> <<>>]
    /\ near = [c \in Conns |-> "none"] /\ far = [c \in Conns |-> "none"]
    /\ queue = [s \in Servers |-> <<>>] /\ listening = Servers

Connects(c, s) ==
    /\ s \in listening
    /\ near' = [near EXCEPT ![c] = "open"] /\ far' = [far EXCEPT ![c] = "queued"]
    /\ queue' = [queue EXCEPT ![s] = Append(@, c)]

Accepts(s, c) ==
    /\ queue[s] # <<>> /\ c = Head(queue[s])
    /\ queue' = [queue EXCEPT ![s] = Tail(@)]
    /\ far' = [far EXCEPT ![c] = "open"]
    /\ UNCHANGED <<up, down, near, listening>>

(* Rio_readlineb by the accepting end: a line, or 0 at the end of file.    *)
HasLine(c) == up[c] # <<>>
AtEOF(c)   == up[c] = <<>> /\ near[c] = "closed"
ReadsLine(c) == up' = [up EXCEPT ![c] = Tail(@)]

(* What the connecting end finds. *)
ReplyHasLine(c) == down[c] # <<>>
ReplyAtEOF(c)   == down[c] = <<>> /\ far[c] = "closed"

Writes(c, lines) == down' = [down EXCEPT ![c] = @ \o lines]
CloseFar(c)      == far' = [far EXCEPT ![c] = "closed"]

(* A server that is killed or exits: its connections are closed, those it  *)
(* has not accepted too.                                                   *)
CloseAllOf(s, c) ==
    /\ far' = [d \in Conns |-> IF d = c \/ \E i \in DOMAIN queue[s] : queue[s][i] = d
                               THEN "closed" ELSE far[d]]
    /\ queue' = [queue EXCEPT ![s] = <<>>] /\ listening' = listening \ {s}
=============================================================================
