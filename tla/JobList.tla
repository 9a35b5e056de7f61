------------------------------- MODULE JobList -------------------------------
(***************************************************************************)
(* The job list of tsh.c: the array jobs[MAXJOBS], the allocation counter  *)
(* nextjid, and the helper routines that scan and change them.  The array  *)
(* is a function on the slots 1..MAXJOBS; a pointer to a job is its slot,  *)
(* and the NULL pointer is slot 0.  Command lines are left out.            *)
(*                                                                         *)
(* Changing a list and moving the counter is one operator per routine,     *)
(* written on values, so that a caller primes the variables it owns.       *)
(***************************************************************************)
EXTENDS Integers, FiniteSetsExt

CONSTANTS
    MAXJOBS,   \* number of slots of the array
    Pids       \* the process ids that fork can return, all of them >= 1

ASSUME MaxJobsAssumption == MAXJOBS \in Nat \ {0}

(* 0 marks a free slot and -1 is what a failed fork returns. *)
ASSUME PidsAssumption == 0 \notin Pids /\ -1 \notin Pids

VARIABLES
    jobs,      \* the array: slot -> [pid, jid, state]
    nextjid    \* next job ID to allocate

-----------------------------------------------------------------------------

Slots     == 1..MAXJOBS
JobStates == {"UNDEF", "FG", "BG", "ST"}
Job       == [pid : Pids \cup {0}, jid : Nat, state : JobStates]

(* What clearjob leaves in a slot, and the list initjobs builds from it. *)
clearjob == [pid |-> 0, jid |-> 0, state |-> "UNDEF"]
initjobs == [s \in Slots |-> clearjob]

(* The first slot of a scan that satisfies its test, NULL (0) if none does. *)
FirstSlot(S) == IF S = {} THEN 0 ELSE CHOOSE s \in S : \A t \in S : s <= t

(* The scans.  A pid or a jid below 1 is refused before the scan starts.  *)
getjobpid(pid) == IF pid \in Pids THEN FirstSlot({s \in Slots : jobs[s].pid = pid}) ELSE 0
getjobjid(jid) == IF jid >= 1 THEN FirstSlot({s \in Slots : jobs[s].jid = jid}) ELSE 0

(* Faulty: the first listed job, whatever its state. *)
fgpid_AnyJob == LET s == FirstSlot({t \in Slots : jobs[t].pid # 0})
                IN  IF s = 0 THEN 0 ELSE jobs[s].pid

(* The pid of the foreground job, 0 if there is none. *)
fgpid == LET s == FirstSlot({t \in Slots : jobs[t].state = "FG"})
         IN  IF s = 0 THEN 0 ELSE jobs[s].pid

maxjid(list) == Max({0} \cup {list[s].jid : s \in Slots})

FreeSlots == {s \in Slots : jobs[s].pid = 0}

(* nextjid++ followed by the wrap to 1. *)
NextJidAfterAdd == IF nextjid + 1 > MAXJOBS THEN 1 ELSE nextjid + 1

(* Faulty: a pid below 1, fork's error among them, is listed. *)
addjob_NoPidCheck(pid, state) ==
    IF FreeSlots # {}
    THEN /\ jobs' = [jobs EXCEPT ![FirstSlot(FreeSlots)] =
                        [pid |-> pid, jid |-> nextjid, state |-> state]]
         /\ nextjid' = NextJidAfterAdd
    ELSE UNCHANGED <<jobs, nextjid>>

(* addjob: no effect when the pid is refused or no slot is free (returns 0). *)
addjob(pid, state) ==
    IF pid \in Pids /\ FreeSlots # {}
    THEN /\ jobs' = [jobs EXCEPT ![FirstSlot(FreeSlots)] =
                        [pid |-> pid, jid |-> nextjid, state |-> state]]
         /\ nextjid' = NextJidAfterAdd
    ELSE UNCHANGED <<jobs, nextjid>>

(* Faulty: numbering restarts at the largest jid still listed. *)
deletejob_ReusesJid(pid) ==
    LET s    == getjobpid(pid)
        list == [jobs EXCEPT ![s] = clearjob]
    IN  IF s # 0
        THEN jobs' = list /\ nextjid' = Max({1, maxjid(list)})
        ELSE UNCHANGED <<jobs, nextjid>>

(* Faulty: the job of a reaped child stays listed. *)
deletejob_KeepsEntry(pid) == UNCHANGED <<jobs, nextjid>>

(* deletejob: clears the job's slot and restarts numbering after the      *)
(* largest jid still listed; no effect when the pid is not listed.        *)
deletejob(pid) ==
    LET s    == getjobpid(pid)
        list == [jobs EXCEPT ![s] = clearjob]
    IN  IF s # 0
        THEN jobs' = list /\ nextjid' = maxjid(list) + 1
        ELSE UNCHANGED <<jobs, nextjid>>

-----------------------------------------------------------------------------

Listed == {s \in Slots : jobs[s].pid \in Pids}

JobListTypeOK == jobs \in [Slots -> Job] /\ nextjid \in Nat \ {0}

(* No process is listed in two slots, so the scans by pid are lookups. *)
PidListedOnce ==
    \A s, t \in Listed : jobs[s].pid = jobs[t].pid => s = t

(* The job ID that addjob hands out next is in use by no job, except      *)
(* after numbering has wrapped (some job has a jid >= MAXJOBS).           *)
NextJidFree ==
    (\A s \in Listed : jobs[s].jid < MAXJOBS) =>
        \A s \in Listed : jobs[s].jid < nextjid

(* A job ID names one job: "job ID [1, 2, ...]" of struct job_t, and what *)
(* bg %n and fg %n rely on.                                               *)
JidNamesOneJob ==
    \A s, t \in Listed : jobs[s].jid = jobs[t].jid => s = t
=============================================================================
