-------------------------- MODULE ShellProperties --------------------------
(***************************************************************************)
(* What is checked of Shell: its type invariant, the invariants that tie   *)
(* the job list to the children, to the mask and to the handlers, the      *)
(* abstract job control it implements, and what it owes its user.          *)
(***************************************************************************)
EXTENDS Shell

(* Type invariant.                                                         *)
TypeOK ==
    /\ JobListTypeOK
    /\ pc \in Labels /\ cmd \in Commands \cup {NoCommand}
    /\ pid \in Pids \cup {-1, 0} /\ job \in Slots \cup {0}
    /\ pc = "bgfg" => job \in Slots
    /\ saved \in [Savers -> SUBSET Signals]
    /\ blocked \subseteq Signals /\ pending \subseteq Signals
    /\ stack \in Seq(Frame)
    /\ proc \in [Pids -> ProcStates]
    /\ intr \subseteq Pids
    /\ keys \in Nat

(* sigchld_handler has taken p's report from the kernel and has not yet    *)
(* told the job list.                                                      *)
Taken(p, what) ==
    \E i \in 1..Len(stack) :
        stack[i].at = "update" /\ stack[i].pid = p /\ stack[i].what = what

(* "At most 1 job can be in the FG state" (tsh.c's job states), and that    *)
(* job is the one waitfg is waiting for: main never is elsewhere, and no   *)
(* prompt is shown, while a job is in the foreground.                      *)
ForegroundIsWaitedFor ==
    \A s \in Slots : jobs[s].state = "FG" =>
        /\ pc \in {"waitfg", "check", "sigsuspend", "suspended", "exited", "crashed"}
        /\ jobs[s].pid = pid
        /\ \A t \in Slots : jobs[t].state = "FG" => t = s

(* The job list has no ghosts: a listed process exists, until the handler  *)
(* that reaped it deletes its job.  Without it fork could return the pid   *)
(* of a job that is still listed.                                          *)
NoGhostJob ==
    \A s \in Listed : proc[jobs[s].pid] = "none" => Taken(jobs[s].pid, "ended")

(* The list and the kernel agree on who is stopped: a job shown as stopped *)
(* is not running, and one whose stop was reported is shown as stopped,    *)
(* except while the handler that took the report has not finished.         *)
StoppedAgrees ==
    \A s \in Listed :
        LET p == jobs[s].pid
        IN  /\ jobs[s].state = "ST" => proc[p] \in {"stopped", "zombie", "none"}
            /\ proc[p] = "stopped" => jobs[s].state = "ST" \/ Taken(p, "stopped")

(* No wakeup is lost: while some child has something to report, either a   *)
(* SIGCHLD is pending or sigchld_handler is active and will call waitpid   *)
(* again, however the deaths and stops of children are merged into one     *)
(* pending signal.                                                         *)
NoLostReport ==
    Reportable # {} /\ ShellRuns =>
        "SIGCHLD" \in pending \/ \E i \in 1..Len(stack) : stack[i].sig = "SIGCHLD"

(* What ctrl-c and ctrl-z hit: a handler about to send its signal aims at   *)
(* the job main is waiting for, even if the job was reaped or stopped by   *)
(* a nested sigchld_handler since the handler read its pid.                *)
KeysHitTheWaitedJob ==
    \A i \in 1..Len(stack) : stack[i].at = "kill" =>
        pc \in {"check", "exited", "crashed"} /\ stack[i].pid = pid

(* The job pointer of do_bgfg is never stale: the slot still holds a job   *)
(* when its state is written.                                              *)
JobPointerValid == pc = "bgfg" => jobs[job].pid \in Pids

(* At the prompt the keyboard's signals are not blocked: whatever sequence *)
(* of masks eval, do_bgfg, waitfg and the handlers saved and restored.     *)
KeysWorkAtPrompt == pc = "prompt" /\ stack = <<>> => blocked \subseteq {"SIGCHLD"}

-----------------------------------------------------------------------------
(* What makes the invariants above inductive.                              *)

(* From the time eval blocks SIGCHLD until the job is listed, or do_bgfg   *)
(* has used its pointer, sigchld_handler neither runs nor can start.       *)
SigchldHeld ==
    pc \in {"lookup", "bgfg", "fork", "addjob"} =>
        /\ "SIGCHLD" \in blocked
        /\ \A i \in 1..Len(stack) : stack[i].sig # "SIGCHLD" /\ "SIGCHLD" \in stack[i].mask

(* waitfg is called and looks at the list with every signal blocked: the   *)
(* handlers run inside sigsuspend, and restore the full mask.              *)
WaitfgHoldsAll ==
    /\ pc \in {"waitfg", "sigsuspend"} => Len(stack) = 0 /\ blocked = Signals
    /\ pc = "suspended" => Len(stack) = 0 /\ saved["sigsuspend"] = Signals
    /\ pc = "check" => IF Len(stack) = 0 THEN blocked = Signals ELSE stack[1].mask = Signals

(* fork's child exists, is not listed when eval lists it, and no stop of   *)
(* it was reported before.                                                 *)
NewPidUnlisted ==
    pc = "addjob" /\ pid \in Pids =>
        proc[pid] \notin {"none", "stopped"} /\ \A s \in Slots : jobs[s].pid # pid

(* A free slot holds what clearjob leaves. *)
FreeSlotsClear == \A s \in Slots : jobs[s].pid \notin Pids => jobs[s] = clearjob

(* A listed job has a state. *)
ListedHasState == \A s \in Listed : jobs[s].state # "UNDEF"

(* A process whose stop a handler has in hand does not run: only main can  *)
(* continue it, and main waits for the handler.                            *)
TakenIsStopped == \A p \in Pids : Taken(p, "stopped") => proc[p] \in {"stopped", "zombie", "none"}

(* The masks that eval and do_bgfg save, and main's own mask outside their  *)
(* critical sections, block no key; a handler's first frame holds it.      *)
MainMask == IF Len(stack) = 0 THEN blocked ELSE stack[1].mask
MainLeavesKeysOpen ==
    /\ saved["eval"] \subseteq {"SIGCHLD"} /\ saved["do_bgfg"] \subseteq {"SIGCHLD"}
    /\ pc \in {"prompt", "eval", "lookup", "bgfg", "fork", "addjob"} => MainMask \subseteq {"SIGCHLD"}

Inductive ==
    /\ TypeOK /\ SigchldHeld /\ WaitfgHoldsAll /\ MainLeavesKeysOpen
    /\ JobPointerValid /\ NewPidUnlisted /\ FreeSlotsClear /\ ListedHasState
    /\ PidListedOnce /\ NoGhostJob /\ ForegroundIsWaitedFor
    /\ KeysHitTheWaitedJob /\ NoLostReport
    /\ TakenIsStopped /\ StoppedAgrees /\ NextJidFree

-----------------------------------------------------------------------------
(* The job list seen as job control: a process's state is its slot's.      *)
jobState == [p \in Pids |-> IF getjobpid(p) = 0 THEN "UNDEF" ELSE jobs[getjobpid(p)].state]

Abstract == INSTANCE JobControl WITH state <- jobState

(* The shell implements job control: every step of main, of a handler or   *)
(* of a child is a legal transition of one job, or changes no job.         *)
ImplementsJobControl == Abstract!Spec

-----------------------------------------------------------------------------
(* A foreground wait ends: when the job waitfg waits for ends or stops,     *)
(* the shell comes back to its prompt, whatever other children and the     *)
(* keyboard do in the meantime.                                            *)
ForegroundWaitEnds ==
    \A p \in Pids :
        pc = "suspended" /\ pid = p /\ proc[p] \in {"zombie", "stopping"}
            ~> pc \in {"prompt", "exited", "crashed"}

(* A child that ends while the shell waits for a foreground job is reaped, *)
(* even if that job never ends.                                            *)
ReapedWhileWaiting ==
    \A p \in Pids : pc = "suspended" /\ proc[p] = "zombie" ~> proc[p] # "zombie" \/ ~ShellRuns

(* sigchld_handler "is sent a SIGCHLD whenever a child ... stops" and       *)
(* records the stop: it never dereferences the NULL getjobpid may return.   *)
NeverCrashes == pc # "crashed"
=============================================================================
