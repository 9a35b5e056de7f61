----------------------------- MODULE JobControl -----------------------------
(***************************************************************************)
(* What the shell promises about its jobs: each process is unknown (UNDEF) *)
(* or in the foreground, in the background or stopped, it moves along the  *)
(* transitions of the comment on job states in tsh.c, and the foreground   *)
(* is held by one job at a time.  A stop takes any running job, since a    *)
(* background job can be stopped by another process.                       *)
(***************************************************************************)
CONSTANT Pids

VARIABLE state   \* the job state of each process

Running == {"FG", "BG"}

NoForeground == \A p \in Pids : state[p] # "FG"

Init == state = [p \in Pids |-> "UNDEF"]

Launch(p) ==
    /\ state[p] = "UNDEF"
    /\ \/ NoForeground /\ state' = [state EXCEPT ![p] = "FG"]
       \/ state' = [state EXCEPT ![p] = "BG"]

Stop(p) == state[p] \in Running /\ state' = [state EXCEPT ![p] = "ST"]

Foreground(p) ==
    /\ state[p] \in {"ST", "BG"} /\ NoForeground
    /\ state' = [state EXCEPT ![p] = "FG"]

Background(p) == state[p] = "ST" /\ state' = [state EXCEPT ![p] = "BG"]

End(p) == state[p] # "UNDEF" /\ state' = [state EXCEPT ![p] = "UNDEF"]

Next ==
    \E p \in Pids : Launch(p) \/ Stop(p) \/ Foreground(p) \/ Background(p) \/ End(p)

Spec == Init /\ [][Next]_state
=============================================================================
