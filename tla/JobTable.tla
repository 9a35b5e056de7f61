------------------------------ MODULE JobTable ------------------------------
(***************************************************************************)
(* The job list on its own, driven by every order of calls the shell can   *)
(* make to it: addjob with the pid of a new child (FG or BG), deletejob    *)
(* with the pid of a reaped one, and a change of a listed job's state.     *)
(* Pids are reused once their job is gone, as the kernel does.             *)
(***************************************************************************)
EXTENDS JobList

CONSTANT MaxJid   \* bound on the numbers handed out, which the code lets grow

vars == <<jobs, nextjid>>

Init == jobs = initjobs /\ nextjid = 1

Add(pid) ==
    /\ nextjid <= MaxJid
    /\ \A s \in Slots : jobs[s].pid # pid
    /\ \E state \in {"FG", "BG"} : addjob(pid, state)

Delete(pid) == deletejob(pid)

SetState(s) ==
    /\ jobs[s].pid # 0
    /\ \E state \in {"FG", "BG", "ST"} : jobs' = [jobs EXCEPT ![s].state = state]
    /\ UNCHANGED nextjid

Next ==
    \/ \E p \in Pids : Add(p) \/ Delete(p)
    \/ \E s \in Slots : SetState(s)

Spec == Init /\ [][Next]_vars
=============================================================================
