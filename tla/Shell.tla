------------------------------- MODULE Shell -------------------------------
(***************************************************************************)
(* The shell of tsh.c: the read/eval loop, the four signal handlers that   *)
(* interrupt it, the signal mask they share, and the children.             *)
(*                                                                         *)
(* The shell is one thread.  It executes the topmost frame of `stack` (the *)
(* handlers that interrupted it, innermost last), and main code when there *)
(* is none.  A signal that is pending and not blocked is delivered before  *)
(* the thread takes another step; a step runs up to the next place where   *)
(* the order of system calls and of accesses to the job list can be seen.  *)
(* Children, the keyboard and other processes act at any time.             *)
(***************************************************************************)
EXTENDS JobList, SequencesExt

CONSTANTS
    MaxJid,    \* bound on the job IDs handed out, which the code lets grow
    MaxKeys    \* bound on the signals sent to the shell from outside

VARIABLES
    pc,        \* where main is: main, eval, do_bgfg and waitfg
    cmd,       \* the command line being evaluated
    pid,       \* eval's pid, then waitfg's argument
    job,       \* do_bgfg's job pointer: a slot, 0 for NULL
    saved,     \* the masks main saved: one per function that has a prev
    blocked,   \* the thread's signal mask
    pending,   \* signals generated and not yet delivered
    stack,     \* the active handlers
    proc,      \* the kernel's state of each process
    intr,      \* stopped processes with a SIGINT waiting for SIGCONT
    keys       \* signals sent from outside so far

mainVars   == <<pc, cmd, pid, job, saved>>
listVars   == <<jobs, nextjid>>
maskVars   == <<blocked, pending>>
childVars  == <<proc, intr>>
vars == <<pc, cmd, pid, job, saved, blocked, pending, stack, proc, intr, keys,
          jobs, nextjid>>

-----------------------------------------------------------------------------
(* Constant definitions.                                                   *)

Signals  == {"SIGCHLD", "SIGINT", "SIGTSTP", "SIGQUIT"}
Commands == {"run", "run &", "fg", "bg", "jobs", "quit"}
NoCommand == ""
Savers   == {"eval", "do_bgfg", "waitfg", "sigsuspend"}

Labels == {"prompt", "eval", "lookup", "bgfg", "fork", "addjob",
           "waitfg", "check", "sigsuspend", "suspended",
           "do_bgfg restores", "eval restores", "exited", "crashed"}

(* none: not a child.  forked: between fork and execve.  stopping and     *)
(* stopped: before and after waitpid reported the stop.                    *)
ProcStates == {"none", "forked", "running", "stopping", "stopped", "zombie"}

(* A handler that has taken a report, or is about to send its signal, has  *)
(* the pid of a process in hand.                                           *)
Frame == {f \in [sig  : Signals,
                 at   : {"waitpid", "update", "fgpid", "kill"},
                 pid  : Pids \cup {0},
                 what : {"", "ended", "stopped"},
                 mask : SUBSET Signals] : f.at \in {"update", "kill"} => f.pid \in Pids}

(* A handler's frame: where it starts, and the mask its return restores.  *)
HandlerFrame(sig, mask) ==
    [sig  |-> sig,
     at   |-> IF sig = "SIGCHLD" THEN "waitpid" ELSE "fgpid",
     pid  |-> 0, what |-> "", mask |-> mask]

NothingSaved == [f \in Savers |-> {}]

-----------------------------------------------------------------------------
(* What the shell's state says.                                            *)

ShellRuns == pc \notin {"exited", "crashed"}

NoDelivery == pending \subseteq blocked

(* Main executes at label l: nothing interrupts it.                        *)
MainAt(l) == pc = l /\ stack = <<>> /\ NoDelivery

(* The innermost handler executes, at label l.                             *)
HandlerAt(sigs, l) ==
    /\ ShellRuns /\ NoDelivery
    /\ stack # <<>> /\ Last(stack).sig \in sigs /\ Last(stack).at = l

(* What waitpid(-1, WNOHANG | WUNTRACED) has to report.                    *)
Reportable == {p \in Pids : proc[p] \in {"stopping", "zombie"}}

(* waitfg's loop condition: the job is listed and in the foreground.       *)
InForeground(p) == getjobpid(p) # 0 /\ jobs[getjobpid(p)].state = "FG"

-----------------------------------------------------------------------------
(* Main: the read/eval loop and eval.                                      *)

(* eval returns to the prompt: what its activation held is gone.           *)
EvalReturns ==
    pc' = "prompt" /\ cmd' = NoCommand /\ pid' = 0 /\ job' = 0 /\ saved' = NothingSaved

(* main reads a command line, or end of file; eval returns at once when it *)
(* is empty, which changes nothing.                                        *)
ReadCommand ==
    /\ MainAt("prompt")
    /\ \/ \E c \in Commands :
             /\ c \in {"run", "run &"} => maxjid(jobs) < MaxJid
             /\ cmd' = c /\ pc' = "eval"
       \/ pc' = "exited" /\ UNCHANGED cmd
    /\ UNCHANGED <<pid, job, saved, stack, keys, maskVars, childVars, listVars>>

(* Faulty: SIGCHLD is not blocked before fork.                             *)
EvalBlocks_Unmasked ==
    /\ MainAt("eval")
    /\ saved' = [saved EXCEPT !["eval"] = blocked]
    /\ pc' = CASE cmd = "quit"         -> "exited"
               [] cmd = "jobs"         -> "prompt"
               [] cmd \in {"fg", "bg"} -> "lookup"
               [] OTHER                -> "fork"
    /\ UNCHANGED <<cmd, pid, job, stack, keys, maskVars, childVars, listVars>>

(* eval blocks SIGCHLD and asks builtin_cmd.  listjobs changes nothing, and *)
(* a built-in returns without restoring the mask.                           *)
EvalBlocks ==
    /\ MainAt("eval")
    /\ blocked' = blocked \cup {"SIGCHLD"}
    /\ IF cmd = "jobs"
       THEN EvalReturns
       ELSE /\ saved' = [saved EXCEPT !["eval"] = blocked]
            /\ pc' = CASE cmd = "quit"         -> "exited"
                       [] cmd \in {"fg", "bg"} -> "lookup"
                       [] OTHER                -> "fork"
            /\ UNCHANGED <<cmd, pid, job>>
    /\ UNCHANGED <<pending, stack, keys, childVars, listVars>>

(* fork returns a free pid, or -1.                                         *)
Fork ==
    /\ MainAt("fork")
    /\ \/ \E p \in Pids : /\ proc[p] = "none"
                          /\ proc' = [proc EXCEPT ![p] = "forked"]
                          /\ pid' = p
       \/ pid' = -1 /\ UNCHANGED proc
    /\ pc' = "addjob"
    /\ UNCHANGED <<cmd, job, saved, stack, keys, intr, maskVars, listVars>>

(* eval blocks every signal and lists the job; addjob's result is ignored. *)
EvalAddsJob ==
    /\ MainAt("addjob")
    /\ blocked' = Signals
    /\ addjob(pid, IF cmd = "run" THEN "FG" ELSE "BG")
    /\ pc' = IF cmd = "run" THEN "waitfg" ELSE "eval restores"
    /\ UNCHANGED <<cmd, pid, job, saved, pending, stack, keys, childVars>>

(* Faulty: eval returns with every signal blocked.                         *)
EvalRestores_KeepsMask ==
    /\ MainAt("eval restores")
    /\ EvalReturns
    /\ UNCHANGED <<stack, keys, maskVars, childVars, listVars>>

(* eval restores its mask and returns.                                     *)
EvalRestores ==
    /\ MainAt("eval restores")
    /\ blocked' = saved["eval"]
    /\ EvalReturns
    /\ UNCHANGED <<pending, stack, keys, childVars, listVars>>

-----------------------------------------------------------------------------
(* Main: do_bgfg and waitfg.                                               *)

(* The effect of kill(p, SIGCONT): a stopped process resumes, or dies of   *)
(* the SIGINT that was waiting, and its parent is told of the change.      *)
Continue(p) ==
    IF p \in Pids /\ proc[p] \in {"stopping", "stopped"}
    THEN /\ proc' = [proc EXCEPT ![p] = IF p \in intr THEN "zombie" ELSE "running"]
         /\ intr' = intr \ {p}
         /\ pending' = pending \cup {"SIGCHLD"}
    ELSE UNCHANGED <<proc, intr, pending>>

(* do_bgfg looks up the job the user named, %jid or pid; it returns when   *)
(* the argument is missing, is not a number or names no job.               *)
Lookup ==
    /\ MainAt("lookup")
    /\ \/ \E found \in {getjobjid(j) : j \in 1..MaxJid} \cup {getjobpid(p) : p \in Pids} :
             found # 0 /\ job' = found /\ pc' = "bgfg" /\ UNCHANGED <<cmd, pid, saved>>
       \/ EvalReturns
    /\ UNCHANGED <<stack, keys, maskVars, childVars, listVars>>

(* Faulty: bg continues the job and leaves it listed as stopped.           *)
BgFg_KeepsState ==
    /\ MainAt("bgfg")
    /\ saved' = [saved EXCEPT !["do_bgfg"] = blocked]
    /\ blocked' = Signals
    /\ jobs' = [jobs EXCEPT ![job].state = IF cmd = "bg" THEN @ ELSE "FG"]
    /\ Continue(jobs[job].pid)
    /\ pid' = jobs[job].pid
    /\ job' = 0
    /\ pc' = IF cmd = "bg" THEN "do_bgfg restores" ELSE "waitfg"
    /\ UNCHANGED <<cmd, stack, keys, nextjid>>

(* Faulty: fg does not wait for the job.                                   *)
BgFg_NoWait ==
    /\ MainAt("bgfg")
    /\ saved' = [saved EXCEPT !["do_bgfg"] = blocked]
    /\ blocked' = Signals
    /\ jobs' = [jobs EXCEPT ![job].state = IF cmd = "bg" THEN "BG" ELSE "FG"]
    /\ Continue(jobs[job].pid)
    /\ pid' = jobs[job].pid
    /\ job' = 0
    /\ pc' = "do_bgfg restores"
    /\ UNCHANGED <<cmd, stack, keys, nextjid>>

(* do_bgfg blocks every signal, changes the job's state and continues it.  *)
BgFg ==
    /\ MainAt("bgfg")
    /\ saved' = [saved EXCEPT !["do_bgfg"] = blocked]
    /\ blocked' = Signals
    /\ jobs' = [jobs EXCEPT ![job].state = IF cmd = "bg" THEN "BG" ELSE "FG"]
    /\ Continue(jobs[job].pid)
    /\ pid' = jobs[job].pid
    /\ job' = 0
    /\ pc' = IF cmd = "bg" THEN "do_bgfg restores" ELSE "waitfg"
    /\ UNCHANGED <<cmd, stack, keys, nextjid>>

(* do_bgfg restores its caller's mask; eval returns after a built-in       *)
(* without restoring its own.                                              *)
BgFgRestores ==
    /\ MainAt("do_bgfg restores")
    /\ blocked' = saved["do_bgfg"]
    /\ EvalReturns
    /\ UNCHANGED <<pending, stack, keys, childVars, listVars>>

WaitfgBlocks ==
    /\ MainAt("waitfg")
    /\ saved' = [saved EXCEPT !["waitfg"] = blocked]
    /\ blocked' = blocked \cup {"SIGCHLD"}
    /\ pc' = "check"
    /\ UNCHANGED <<cmd, pid, job, pending, stack, keys, childVars, listVars>>

(* Faulty: waitfg suspends once, without looking at the job again.         *)
WaitfgChecks_Once ==
    /\ MainAt("check")
    /\ IF InForeground(pid) /\ saved["sigsuspend"] = {}
       THEN /\ pc' = IF fgpid = pid THEN "sigsuspend" ELSE "check"
            /\ UNCHANGED blocked
       ELSE /\ pc' = IF cmd = "run" THEN "eval restores" ELSE "do_bgfg restores"
            /\ blocked' = saved["waitfg"]
    /\ UNCHANGED <<cmd, pid, job, saved, pending, stack, keys, childVars, listVars>>

(* waitfg's loop: suspend while the job is the foreground job, spin with   *)
(* an error message if another job is, and return when it has left.        *)
WaitfgChecks ==
    /\ MainAt("check")
    /\ IF InForeground(pid)
       THEN /\ pc' = IF fgpid = pid THEN "sigsuspend" ELSE "check"
            /\ UNCHANGED blocked
       ELSE /\ pc' = IF cmd = "run" THEN "eval restores" ELSE "do_bgfg restores"
            /\ blocked' = saved["waitfg"]
    /\ UNCHANGED <<cmd, pid, job, saved, pending, stack, keys, childVars, listVars>>

(* Faulty: waitfg suspends with SIGCHLD still blocked.                     *)
Suspend_Masked ==
    /\ MainAt("sigsuspend")
    /\ saved' = [saved EXCEPT !["sigsuspend"] = blocked]
    /\ blocked' = {"SIGCHLD"}
    /\ pc' = "suspended"
    /\ UNCHANGED <<cmd, pid, job, pending, stack, keys, childVars, listVars>>

(* sigsuspend(&empty) unblocks everything and sleeps in one step; main     *)
(* goes on after the handlers it was woken by, with the mask it had.       *)
Suspend ==
    /\ MainAt("sigsuspend")
    /\ saved' = [saved EXCEPT !["sigsuspend"] = blocked]
    /\ blocked' = {}
    /\ pc' = "suspended"
    /\ UNCHANGED <<cmd, pid, job, pending, stack, keys, childVars, listVars>>

-----------------------------------------------------------------------------
(* Signal delivery and the handlers.                                       *)

(* The kernel pushes a handler's frame.  Signal installs every handler     *)
(* with an empty sa_mask, so only the signal itself is added to the mask.  *)
(* Waking sigsuspend restores the mask it replaced.  SIGQUIT's handler     *)
(* exits.                                                                  *)
Deliver(sig) ==
    /\ ShellRuns
    /\ sig \in pending \ blocked
    /\ pending' = pending \ {sig}
    /\ stack' = Append(stack,
                   HandlerFrame(sig, IF pc = "suspended" THEN saved["sigsuspend"] ELSE blocked))
    /\ blocked' = blocked \cup {sig}
    /\ pc' = IF sig = "SIGQUIT" THEN "exited"
             ELSE IF pc = "suspended" THEN "check" ELSE pc
    /\ UNCHANGED <<cmd, pid, job, saved, keys, childVars, listVars>>

(* A handler returns: its frame is popped and the mask restored.           *)
Return == stack' = Front(stack) /\ blocked' = Last(stack).mask

(* The innermost handler moves to label l with the given locals.           *)
GoTo(l, p, what) ==
    stack' = [stack EXCEPT ![Len(stack)] =
                 [sig |-> @.sig, at |-> l, pid |-> p, what |-> what, mask |-> @.mask]]

(* sigchld_handler calls waitpid: one report is taken, a zombie is freed;   *)
(* the handler returns when there is none.                                 *)
SigchldWaits ==
    /\ HandlerAt({"SIGCHLD"}, "waitpid")
    /\ \/ \E p \in Reportable :
             /\ GoTo("update", p, IF proc[p] = "zombie" THEN "ended" ELSE "stopped")
             /\ proc' = [proc EXCEPT ![p] = IF proc[p] = "zombie" THEN "none" ELSE "stopped"]
             /\ UNCHANGED blocked
       \/ Reportable = {} /\ Return /\ UNCHANGED proc
    /\ UNCHANGED <<pending, keys, intr, mainVars, listVars>>

(* Faulty: one waitpid per signal, `if` in place of `while`.               *)
SigchldUpdates_OnePerSignal ==
    /\ HandlerAt({"SIGCHLD"}, "update")
    /\ LET p == Last(stack).pid
           s == getjobpid(p)
       IN  \/ Last(stack).what = "ended" /\ deletejob(p)
           \/ /\ Last(stack).what = "stopped" /\ s # 0
              /\ jobs' = [jobs EXCEPT ![s].state = "ST"]
              /\ UNCHANGED nextjid
    /\ Return
    /\ UNCHANGED <<pending, keys, mainVars, childVars>>

(* With every signal blocked, sigchld_handler deletes the job of a child    *)
(* that ended, or marks the job of one that stopped: it dereferences the    *)
(* job getjobpid returns, which may be NULL.                                *)
SigchldUpdates ==
    /\ HandlerAt({"SIGCHLD"}, "update")
    /\ LET p == Last(stack).pid
           s == getjobpid(p)
       IN  \/ /\ Last(stack).what = "ended"
              /\ deletejob(p)
              /\ UNCHANGED pc
           \/ /\ Last(stack).what = "stopped" /\ s # 0
              /\ jobs' = [jobs EXCEPT ![s].state = "ST"]
              /\ UNCHANGED <<nextjid, pc>>
           \/ /\ Last(stack).what = "stopped" /\ s = 0
              /\ pc' = "crashed"
              /\ UNCHANGED listVars
    /\ GoTo("waitpid", 0, "")
    /\ UNCHANGED <<cmd, pid, job, saved, keys, maskVars, childVars>>

(* sigint_handler and sigtstp_handler read the foreground pid ...          *)
KeyHandlerReads ==
    /\ HandlerAt({"SIGINT", "SIGTSTP"}, "fgpid")
    /\ IF fgpid # 0
       THEN GoTo("kill", fgpid, "") /\ UNCHANGED blocked
       ELSE Return
    /\ UNCHANGED <<pending, keys, mainVars, childVars, listVars>>

(* ... and send their signal to its group.  A child that has not called    *)
(* execve has no group yet, or still has the shell's handlers, which find  *)
(* no job in its copy of the list: the signal is lost.                     *)
KeyHandlerKills ==
    /\ HandlerAt({"SIGINT", "SIGTSTP"}, "kill")
    /\ LET p   == Last(stack).pid
           sig == Last(stack).sig
       IN  /\ IF proc[p] = "running"
              THEN /\ proc' = [proc EXCEPT ![p] = IF sig = "SIGINT" THEN "zombie" ELSE "stopping"]
                   /\ pending' = pending \cup {"SIGCHLD"}
              ELSE UNCHANGED <<proc, pending>>
           /\ intr' = IF sig = "SIGINT" /\ proc[p] \in {"stopping", "stopped"}
                      THEN intr \cup {p} ELSE intr
    /\ Return
    /\ UNCHANGED <<keys, mainVars, listVars>>

-----------------------------------------------------------------------------
(* Children, the keyboard, other processes.                                *)

(* The child restores the mask, leaves the shell's group and executes.     *)
ChildExecs(p) ==
    /\ ShellRuns
    /\ proc[p] = "forked"
    /\ proc' = [proc EXCEPT ![p] = "running"]
    /\ UNCHANGED <<intr, stack, keys, mainVars, maskVars, listVars>>

(* A child exits (also from "Bad Command"), or is killed by another process. *)
ChildEnds(p) ==
    /\ ShellRuns
    /\ proc[p] \in {"forked", "running", "stopping", "stopped"}
    /\ proc' = [proc EXCEPT ![p] = "zombie"]
    /\ intr' = intr \ {p}
    /\ pending' = pending \cup {"SIGCHLD"}
    /\ UNCHANGED <<blocked, stack, keys, mainVars, listVars>>

(* A child stops itself, or another process stops it.                      *)
ChildStops(p) ==
    /\ ShellRuns
    /\ proc[p] = "running"
    /\ proc' = [proc EXCEPT ![p] = "stopping"]
    /\ pending' = pending \cup {"SIGCHLD"}
    /\ UNCHANGED <<blocked, intr, stack, keys, mainVars, listVars>>

(* ctrl-c, ctrl-z, or the driver's SIGQUIT, reaches the shell.             *)
Key(sig) ==
    /\ ShellRuns
    /\ keys < MaxKeys
    /\ sig \in {"SIGINT", "SIGTSTP", "SIGQUIT"} \ pending
    /\ pending' = pending \cup {sig}
    /\ keys' = keys + 1
    /\ UNCHANGED <<blocked, stack, mainVars, childVars, listVars>>

(* The shell has exited, or has crashed.                                   *)
Over == ~ShellRuns /\ UNCHANGED vars

-----------------------------------------------------------------------------

Init ==
    /\ pc = "prompt" /\ cmd = NoCommand /\ pid = 0 /\ job = 0
    /\ saved = NothingSaved
    /\ blocked = {} /\ pending = {}
    /\ stack = <<>>
    /\ proc = [p \in Pids |-> "none"]
    /\ intr = {}
    /\ keys = 0
    /\ jobs = initjobs /\ nextjid = 1

Main ==
    \/ EvalBlocks \/ Fork \/ EvalAddsJob \/ EvalRestores
    \/ Lookup \/ BgFg \/ BgFgRestores
    \/ WaitfgBlocks \/ WaitfgChecks \/ Suspend

Handlers == SigchldWaits \/ SigchldUpdates \/ KeyHandlerReads \/ KeyHandlerKills

Child(p) == ChildExecs(p) \/ ChildEnds(p) \/ ChildStops(p)

Next ==
    \/ ReadCommand \/ Main
    \/ Handlers \/ \E sig \in Signals : Deliver(sig)
    \/ \E p \in Pids : Child(p)
    \/ \E sig \in Signals : Key(sig)
    \/ Over

Spec == Init /\ [][Next]_vars

(* The shell's thread runs while it can, pending signals are delivered and *)
(* a forked child gets to execve.  Nothing else is owed: users may stop    *)
(* typing, children may run forever.                                       *)
Fairness ==
    /\ WF_vars(Main) /\ WF_vars(Handlers)
    /\ WF_vars(\E sig \in Signals : Deliver(sig))
    /\ \A p \in Pids : WF_vars(ChildExecs(p))

FairSpec == Spec /\ Fairness
=============================================================================
