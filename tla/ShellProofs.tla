---------------------------- MODULE ShellProofs ----------------------------
(***************************************************************************)
(* Proofs about Shell, for any number of slots, processes and keys.        *)
(***************************************************************************)
EXTENDS ShellProperties, SequenceTheorems, WellFoundedInduction, TLAPS

-----------------------------------------------------------------------------
(* The routines of JobList: what the scans return, and what addjob and     *)
(* deletejob do to the type, the pids and the job IDs.                     *)

(* A nonempty set of naturals has a least element. *)
LEMMA LeastNatural ==
    ASSUME NEW T \in SUBSET Nat, T # {}
    PROVE  \E x \in T : \A y \in T : x <= y
<1>1. \E x \in T : \A y \in T : ~ (<<y, x>> \in OpToRel(<, Nat))
  BY NatLessThanWellFounded, WFMin
<1>2. PICK x \in T : \A y \in T : ~ (<<y, x>> \in OpToRel(<, Nat))
  BY <1>1
<1>3. \A y \in T : ~ (y < x)
  BY <1>2 DEF OpToRel
<1> QED  BY <1>3

(* FirstSlot scans in slot order: it returns NULL for the empty set only,   *)
(* and otherwise the least member.                                          *)
LEMMA FirstSlotProperties ==
    ASSUME NEW S \in SUBSET Slots
    PROVE  /\ FirstSlot(S) \in Slots \cup {0}
           /\ S # {} => FirstSlot(S) \in S
           /\ S = {} <=> FirstSlot(S) = 0
<1>1. CASE S = {}
  BY <1>1 DEF FirstSlot
<1>2. CASE S # {}
  <2>1. \E s \in S : \A t \in S : s <= t
    BY <1>2, LeastNatural, MaxJobsAssumption DEF Slots
  <2>2. FirstSlot(S) \in S
    BY <1>2, <2>1 DEF FirstSlot
  <2>3. 0 \notin Slots
    BY MaxJobsAssumption DEF Slots
  <2> QED  BY <1>2, <2>2, <2>3
<1> QED  BY <1>1, <1>2

(* The job IDs of a list are bounded: an array has finitely many slots.     *)
LEMMA JidsBounded ==
    ASSUME NEW list \in [Slots -> Job]
    PROVE  \E b \in Nat : \A s \in Slots : list[s].jid <= b
<1> DEFINE Bounded(k) == \E b \in Nat : \A s \in 1..k : list[s].jid <= b
           Unbounded  == {k \in 0..MAXJOBS : ~Bounded(k)}
<1>1. Unbounded \subseteq Nat
  BY MaxJobsAssumption
<1>2. Bounded(0)
  OBVIOUS
<1>3. ASSUME NEW k \in 1..MAXJOBS, Bounded(k - 1)
      PROVE  Bounded(k)
  <2>1. PICK b \in Nat : \A s \in 1..(k - 1) : list[s].jid <= b
    BY <1>3
  <2>2. \A s \in 1..k : list[s].jid \in Nat
    BY MaxJobsAssumption DEF Slots, Job
  <2>3. \A s \in 1..k : list[s].jid <= b + list[k].jid
    <3>1. SUFFICES ASSUME NEW s \in 1..k PROVE list[s].jid <= b + list[k].jid
      OBVIOUS
    <3>2. CASE s = k
      BY <3>2, <2>2
    <3>3. CASE s # k
      BY <3>3, <2>1, <2>2, MaxJobsAssumption
    <3> QED  BY <3>2, <3>3
  <2>4. b + list[k].jid \in Nat
    BY <2>2, MaxJobsAssumption
  <2> QED  BY <2>3, <2>4
<1>4. ASSUME Unbounded # {} PROVE FALSE
  <2>1. PICK k \in Unbounded : \A j \in Unbounded : k <= j
    BY <1>1, <1>4, LeastNatural
  <2>2. k \in 0..MAXJOBS /\ ~Bounded(k)
    BY <2>1
  <2>3. k # 0
    BY <1>2, <2>2
  <2>4. k \in 1..MAXJOBS /\ k - 1 \in 0..MAXJOBS
    BY <2>2, <2>3, MaxJobsAssumption
  <2>5. k - 1 \notin Unbounded
    <3>1. ~ (k <= k - 1)
      BY <2>4
    <3> QED  BY <3>1, <2>1
  <2>6. Bounded(k - 1)
    BY <2>4, <2>5
  <2> QED  BY <1>3, <2>2, <2>4, <2>6
<1>5. MAXJOBS \in 0..MAXJOBS
  BY MaxJobsAssumption
<1>6. Bounded(MAXJOBS)
  BY <1>4, <1>5
<1> QED  BY <1>6 DEF Slots

(* maxjid is the largest job ID of the list, 0 for an empty one.            *)
LEMMA MaxJidProperties ==
    ASSUME NEW list \in [Slots -> Job]
    PROVE  /\ maxjid(list) \in Nat
           /\ \A s \in Slots : list[s].jid <= maxjid(list)
           /\ maxjid(list) = 0 \/ \E s \in Slots : list[s].jid = maxjid(list)
<1> DEFINE J == {0} \cup {list[s].jid : s \in Slots}
           U == {b \in Nat : \A x \in J : x <= b}
<1>1. J \subseteq Nat
  BY DEF Job
<1>2. U # {}
  <2>1. PICK b \in Nat : \A s \in Slots : list[s].jid <= b
    BY JidsBounded
  <2>2. \A x \in J : x <= b
    BY <2>1
  <2> QED  BY <2>2
<1>3. PICK u \in U : \A v \in U : u <= v
  BY <1>2, LeastNatural
<1>4. u \in J
  <2>1. SUFFICES ASSUME u \notin J PROVE FALSE
    OBVIOUS
  <2>2. u # 0
    BY <2>1
  <2>3. u - 1 \in Nat /\ \A x \in J : x <= u - 1
    BY <2>1, <2>2, <1>1, <1>3
  <2>4. u - 1 \in U
    BY <2>3
  <2> QED  BY <2>4, <1>3
<1>5. \E x \in J : \A y \in J : x >= y
  BY <1>1, <1>3, <1>4
<1>6. maxjid(list) = CHOOSE x \in J : \A y \in J : x >= y
  BY DEF maxjid, Max
<1>7. maxjid(list) \in J /\ \A y \in J : maxjid(list) >= y
  BY <1>5, <1>6
<1> QED  BY <1>1, <1>7

(* The scans by pid, by jid and for the foreground job return a job that    *)
(* has what was asked for, and fail only if there is none.                  *)
LEMMA GetjobpidProperties ==
    ASSUME NEW p
    PROVE  /\ getjobpid(p) \in Slots \cup {0}
           /\ getjobpid(p) # 0 => getjobpid(p) \in Slots /\ p \in Pids /\ jobs[getjobpid(p)].pid = p
           /\ getjobpid(p) = 0 => p \notin Pids \/ \A s \in Slots : jobs[s].pid # p
<1> DEFINE S == {s \in Slots : jobs[s].pid = p}
<1>1. S \in SUBSET Slots
  OBVIOUS
<1>2. FirstSlot(S) \in Slots \cup {0} /\ (S # {} => FirstSlot(S) \in S) /\ (S = {} <=> FirstSlot(S) = 0)
  BY <1>1, FirstSlotProperties
<1>3. getjobpid(p) = IF p \in Pids THEN FirstSlot(S) ELSE 0
  BY DEF getjobpid
<1> QED  BY <1>2, <1>3

LEMMA GetjobjidProperties ==
    ASSUME NEW j \in Int
    PROVE  /\ getjobjid(j) \in Slots \cup {0}
           /\ getjobjid(j) # 0 => j >= 1 /\ getjobjid(j) \in Slots /\ jobs[getjobjid(j)].jid = j
<1> DEFINE S == {s \in Slots : jobs[s].jid = j}
<1>1. S \in SUBSET Slots
  OBVIOUS
<1>2. FirstSlot(S) \in Slots \cup {0} /\ (S # {} => FirstSlot(S) \in S) /\ (S = {} <=> FirstSlot(S) = 0)
  BY <1>1, FirstSlotProperties
<1>3. getjobjid(j) = IF j >= 1 THEN FirstSlot(S) ELSE 0
  BY DEF getjobjid
<1> QED  BY <1>2, <1>3

LEMMA FgpidProperties ==
    ASSUME JobListTypeOK, fgpid # 0
    PROVE  fgpid \in Pids /\ \E s \in Slots : jobs[s].state = "FG" /\ jobs[s].pid = fgpid
<1> DEFINE S == {s \in Slots : jobs[s].state = "FG"}
<1>1. S \in SUBSET Slots
  OBVIOUS
<1>2. FirstSlot(S) \in Slots \cup {0} /\ (S # {} => FirstSlot(S) \in S) /\ (S = {} <=> FirstSlot(S) = 0)
  BY <1>1, FirstSlotProperties
<1>3. fgpid = IF FirstSlot(S) = 0 THEN 0 ELSE jobs[FirstSlot(S)].pid
  BY DEF fgpid
<1>4. FirstSlot(S) \in S
  BY <1>2, <1>3
<1> QED  BY <1>3, <1>4 DEF JobListTypeOK, Job

(* The slot addjob fills. *)
NewSlot == FirstSlot(FreeSlots)

(* addjob leaves the list alone, or fills one free slot with the next jid.  *)
LEMMA AddjobProperties ==
    ASSUME JobListTypeOK, NEW p, NEW state \in JobStates, addjob(p, state)
    PROVE  /\ JobListTypeOK'
           /\ \/ UNCHANGED <<jobs, nextjid>>
              \/ /\ p \in Pids
                 /\ NewSlot \in Slots /\ jobs[NewSlot].pid = 0
                 /\ jobs' = [jobs EXCEPT ![NewSlot] = [pid |-> p, jid |-> nextjid, state |-> state]]
                 /\ nextjid' = IF nextjid + 1 > MAXJOBS THEN 1 ELSE nextjid + 1
<1>1. CASE ~ (p \in Pids /\ FreeSlots # {})
  BY <1>1 DEF addjob, JobListTypeOK
<1>2. CASE p \in Pids /\ FreeSlots # {}
  <2>1. FirstSlot(FreeSlots) \in Slots /\ jobs[FirstSlot(FreeSlots)].pid = 0
    <3>1. FreeSlots \in SUBSET Slots
      BY DEF FreeSlots
    <3>2. FirstSlot(FreeSlots) \in FreeSlots
      BY <3>1, <1>2, FirstSlotProperties
    <3> QED  BY <3>2 DEF FreeSlots
  <2>2. /\ jobs' = [jobs EXCEPT ![FirstSlot(FreeSlots)] = [pid |-> p, jid |-> nextjid, state |-> state]]
        /\ nextjid' = IF nextjid + 1 > MAXJOBS THEN 1 ELSE nextjid + 1
    BY <1>2 DEF addjob, NextJidAfterAdd
  <2>3. JobListTypeOK'
    BY <1>2, <2>1, <2>2, MaxJobsAssumption DEF JobListTypeOK, Job
  <2> QED  BY <1>2, <2>1, <2>2, <2>3 DEF NewSlot
<1> QED  BY <1>1, <1>2

(* deletejob clears the job's slot and numbers on after the largest jid.    *)
LEMMA DeletejobProperties ==
    ASSUME JobListTypeOK, NEW p \in Pids \cup {0}, deletejob(p)
    PROVE  /\ JobListTypeOK'
           /\ \/ (p \notin Pids \/ \A s \in Slots : jobs[s].pid # p) /\ UNCHANGED <<jobs, nextjid>>
              \/ /\ getjobpid(p) \in Slots /\ jobs[getjobpid(p)].pid = p /\ p \in Pids
                 /\ jobs' = [jobs EXCEPT ![getjobpid(p)] = clearjob]
                 /\ \A s \in Slots : jobs'[s].jid < nextjid'
<1>1. CASE getjobpid(p) = 0
  BY <1>1, GetjobpidProperties DEF deletejob, JobListTypeOK
<1>2. CASE getjobpid(p) # 0
  <2> DEFINE s == getjobpid(p)
             list == [jobs EXCEPT ![s] = clearjob]
  <2>1. s \in Slots /\ jobs[s].pid = p /\ p \in Pids
    BY <1>2, GetjobpidProperties
  <2>2. jobs' = list /\ nextjid' = maxjid(list) + 1
    BY <1>2 DEF deletejob
  <2>3. list \in [Slots -> Job]
    BY <2>1 DEF JobListTypeOK, Job, JobStates, clearjob
  <2> HIDE DEF list
  <2>4. maxjid(list) \in Nat /\ \A t \in Slots : list[t].jid <= maxjid(list)
    BY <2>3, MaxJidProperties
  <2>5. \A t \in Slots : list[t].jid \in Nat
    BY <2>3 DEF Job
  <2>6. JobListTypeOK'
    BY <2>2, <2>3, <2>4 DEF JobListTypeOK
  <2>7. \A t \in Slots : jobs'[t].jid < nextjid'
    BY <2>2, <2>4, <2>5
  <2>8. jobs' = [jobs EXCEPT ![s] = clearjob]
    BY <2>2 DEF list
  <2> QED  BY <2>1, <2>6, <2>7, <2>8
<1> QED  BY <1>1, <1>2

-----------------------------------------------------------------------------
(* The stack of handlers.                                                  *)

LEMMA StackTop ==
    ASSUME stack \in Seq(Frame), stack # <<>>
    PROVE  /\ Len(stack) \in Nat /\ Len(stack) >= 1
           /\ Len(stack) \in 1..Len(stack)
           /\ Last(stack) = stack[Len(stack)]
           /\ Last(stack) \in Frame
<1>1. Len(stack) \in Nat /\ Len(stack) # 0
  BY EmptySeq, LenProperties
<1>2. Len(stack) \in 1..Len(stack)
  BY <1>1
<1>3. stack[Len(stack)] \in Frame
  BY <1>2, ElementOfSeq
<1> QED  BY <1>1, <1>2, <1>3 DEF Last

LEMMA ReturnProperties ==
    ASSUME stack \in Seq(Frame), stack # <<>>, Return
    PROVE  /\ stack' \in Seq(Frame)
           /\ Len(stack') = Len(stack) - 1
           /\ \A i \in 1..Len(stack') : stack'[i] = stack[i]
           /\ blocked' = stack[Len(stack)].mask
           /\ blocked' \subseteq Signals
<1>1. stack' = SubSeq(stack, 1, Len(stack) - 1)
  BY DEF Return, Front
<1>2. /\ stack' \in Seq(Frame)
      /\ Len(stack') = Len(stack) - 1
      /\ \A i \in 1..Len(stack') : stack'[i] = stack[i]
  <2>1. /\ Len(stack) \in Nat /\ Len(stack) >= 1
        /\ 1 \in 1..(Len(stack) + 1) /\ Len(stack) - 1 \in (1 - 1)..Len(stack)
    BY StackTop
  <2> DEFINE n == Len(stack) - 1
  <2>2. /\ SubSeq(stack, 1, n) \in Seq(Frame)
        /\ Len(SubSeq(stack, 1, n)) = n
        /\ \A i \in 1..n : SubSeq(stack, 1, n)[i] = stack[i]
    <3>1. n \in Nat /\ n <= Len(stack)
      BY <2>1
    <3> HIDE DEF n
    <3> QED  BY <3>1
  <2> QED  BY <1>1, <2>2
<1>3. blocked' = stack[Len(stack)].mask
  BY StackTop DEF Return
<1>4. stack[Len(stack)].mask \in SUBSET Signals
  BY StackTop DEF Frame
<1> QED  BY <1>2, <1>3, <1>4

LEMMA TopReplaced ==
    ASSUME stack \in Seq(Frame), Len(stack) \in 1..Len(stack), NEW f \in Frame,
           stack' = [stack EXCEPT ![Len(stack)] = f]
    PROVE  /\ stack' \in Seq(Frame) /\ Len(stack') = Len(stack)
           /\ stack'[Len(stack)] = f
           /\ \A i \in 1..Len(stack) : i # Len(stack) => stack'[i] = stack[i]
BY ExceptSeq

LEMMA GoToProperties ==
    ASSUME stack \in Seq(Frame), stack # <<>>,
           NEW l \in {"waitpid", "update", "fgpid", "kill"},
           NEW p \in Pids \cup {0},
           NEW what \in {"", "ended", "stopped"},
           l \in {"update", "kill"} => p \in Pids,
           GoTo(l, p, what)
    PROVE  /\ stack' \in Seq(Frame)
           /\ Len(stack') = Len(stack)
           /\ \A i \in 1..Len(stack) : i # Len(stack) => stack'[i] = stack[i]
           /\ stack'[Len(stack)].sig = Last(stack).sig
           /\ stack'[Len(stack)].mask = Last(stack).mask
           /\ stack'[Len(stack)].at = l
           /\ stack'[Len(stack)].pid = p
           /\ stack'[Len(stack)].what = what
<1>1. PICK f \in Frame :
        f = [sig |-> Last(stack).sig, at |-> l, pid |-> p, what |-> what, mask |-> Last(stack).mask]
  BY StackTop DEF Frame
<1>2. Len(stack) \in 1..Len(stack)
  BY StackTop
<1>3. stack' = [stack EXCEPT ![Len(stack)] = f]
  BY <1>1, StackTop DEF GoTo
<1>4. /\ stack' \in Seq(Frame) /\ Len(stack') = Len(stack)
      /\ stack'[Len(stack)] = f
      /\ \A i \in 1..Len(stack) : i # Len(stack) => stack'[i] = stack[i]
  BY <1>2, <1>3, TopReplaced
<1>5. /\ f.sig = Last(stack).sig /\ f.mask = Last(stack).mask
      /\ f.at = l /\ f.pid = p /\ f.what = what
  BY <1>1
<1> QED  BY <1>4, <1>5

LEMMA DeliverProperties ==
    ASSUME TypeOK, NEW sig \in Signals, Deliver(sig)
    PROVE  /\ stack' \in Seq(Frame)
           /\ Len(stack') = Len(stack) + 1
           /\ Len(stack) \in Nat
           /\ \A i \in 1..Len(stack) : stack'[i] = stack[i]
           /\ stack'[Len(stack) + 1].sig = sig
           /\ stack'[Len(stack) + 1].mask = IF pc = "suspended" THEN saved["sigsuspend"] ELSE blocked
           /\ stack'[Len(stack) + 1].at \notin {"update", "kill"}
<1> DEFINE m == IF pc = "suspended" THEN saved["sigsuspend"] ELSE blocked
<1>1. m \in SUBSET Signals
  BY DEF TypeOK, Savers
<1>2. PICK f \in Frame : f = HandlerFrame(sig, m)
  <2> HIDE DEF m
  <2>1. HandlerFrame(sig, m) \in Frame
    BY <1>1 DEF HandlerFrame, Frame
  <2> QED  BY <2>1
<1>3. f.sig = sig /\ f.mask = m /\ f.at \notin {"update", "kill"}
  BY <1>2 DEF HandlerFrame
<1>4. stack' = Append(stack, f)
  BY <1>2 DEF Deliver
<1>5. stack \in Seq(Frame)
  BY DEF TypeOK
<1>6. /\ stack' \in Seq(Frame) /\ Len(stack') = Len(stack) + 1
      /\ Len(stack) \in Nat
      /\ \A i \in 1..Len(stack) : stack'[i] = stack[i]
      /\ stack'[Len(stack) + 1] = f
  BY <1>4, <1>5, AppendProperties, LenProperties
<1> QED  BY <1>3, <1>6

-----------------------------------------------------------------------------
(* Type correctness.                                                       *)

LEMMA InitType == Init => TypeOK
<1> SUFFICES ASSUME Init PROVE TypeOK
  OBVIOUS
<1>1. JobListTypeOK
  BY DEF Init, JobListTypeOK, initjobs, clearjob, Job, JobStates
<1>2. saved \in [Savers -> SUBSET Signals]
  BY DEF Init, NothingSaved
<1>3. stack \in Seq(Frame)
  BY EmptySeq DEF Init
<1>4. proc \in [Pids -> ProcStates]
  BY DEF Init, ProcStates
<1> QED  BY <1>1, <1>2, <1>3, <1>4 DEF Init, TypeOK, Labels

LEMMA MainType ==
    ASSUME TypeOK, ReadCommand \/ Main
    PROVE  TypeOK'
<1> USE DEF TypeOK, mainVars, maskVars, childVars, listVars
<1>1. CASE ReadCommand
  BY <1>1 DEF ReadCommand, Labels, JobListTypeOK
<1>2. CASE EvalBlocks
  <2>1. JobListTypeOK'
    BY <1>2 DEF EvalBlocks, JobListTypeOK
  <2>2. saved' \in [Savers -> SUBSET Signals] /\ blocked' \subseteq Signals
    BY <1>2 DEF EvalBlocks, EvalReturns, NothingSaved, Signals, Savers
  <2>3. pc' \in Labels /\ pc' # "bgfg"
    BY <1>2 DEF EvalBlocks, EvalReturns, Labels
  <2>4. cmd' \in Commands \cup {NoCommand} /\ pid' \in Pids \cup {-1, 0} /\ job' \in Slots \cup {0}
    BY <1>2 DEF EvalBlocks, EvalReturns
  <2> QED  BY <1>2, <2>1, <2>2, <2>3, <2>4 DEF EvalBlocks
<1>3. CASE Fork
  BY <1>3 DEF Fork, Labels, ProcStates, JobListTypeOK
<1>4. CASE EvalAddsJob
  <2>1. JobListTypeOK'
    BY <1>4, AddjobProperties DEF EvalAddsJob, JobStates
  <2> QED  BY <1>4, <2>1 DEF EvalAddsJob, Labels
<1>5. CASE EvalRestores
  BY <1>5 DEF EvalRestores, EvalReturns, NothingSaved, Savers, Labels, JobListTypeOK
<1>6. CASE Lookup
  <2>1. \A j \in 1..MaxJid : getjobjid(j) \in Slots \cup {0}
    BY GetjobjidProperties
  <2>2. \A p \in Pids : getjobpid(p) \in Slots \cup {0}
    BY GetjobpidProperties
  <2> QED  BY <1>6, <2>1, <2>2 DEF Lookup, EvalReturns, NothingSaved, Savers, Labels, JobListTypeOK
<1>7. CASE BgFg
  <2>1. jobs' \in [Slots -> Job]
    BY <1>7 DEF BgFg, JobListTypeOK, Job, JobStates
  <2>2. proc' \in [Pids -> ProcStates] /\ intr' \subseteq Pids /\ pending' \subseteq Signals
    BY <1>7 DEF BgFg, Continue, ProcStates, Signals
  <2>3. pid' \in Pids \cup {-1, 0}
    BY <1>7 DEF BgFg, MainAt, JobListTypeOK, Job
  <2> QED  BY <1>7, <2>1, <2>2, <2>3 DEF BgFg, Savers, Labels, JobListTypeOK
<1>8. CASE BgFgRestores
  BY <1>8 DEF BgFgRestores, EvalReturns, NothingSaved, Savers, Labels, JobListTypeOK
<1>9. CASE WaitfgBlocks
  BY <1>9 DEF WaitfgBlocks, Signals, Savers, Labels, JobListTypeOK
<1>10. CASE WaitfgChecks
  BY <1>10 DEF WaitfgChecks, Savers, Labels, JobListTypeOK
<1>11. CASE Suspend
  BY <1>11 DEF Suspend, Savers, Labels, JobListTypeOK
<1> QED
  BY <1>1, <1>2, <1>3, <1>4, <1>5, <1>6, <1>7, <1>8, <1>9, <1>10, <1>11 DEF Main

LEMMA HandlerType ==
    ASSUME TypeOK, Handlers
    PROVE  TypeOK'
<1> USE DEF TypeOK, mainVars, maskVars, childVars, listVars
<1>1. stack \in Seq(Frame) /\ stack # <<>>
  BY DEF Handlers, SigchldWaits, SigchldUpdates, KeyHandlerReads, KeyHandlerKills, HandlerAt
<1>2. Last(stack) \in Frame
  BY <1>1, StackTop
<1>3. CASE SigchldWaits
  <2>1. stack' \in Seq(Frame) /\ blocked' \subseteq Signals /\ proc' \in [Pids -> ProcStates]
    <3>1. CASE \E p \in Reportable :
                  /\ GoTo("update", p, IF proc[p] = "zombie" THEN "ended" ELSE "stopped")
                  /\ proc' = [proc EXCEPT ![p] = IF proc[p] = "zombie" THEN "none" ELSE "stopped"]
                  /\ UNCHANGED blocked
      <4>1. PICK p \in Reportable :
               /\ GoTo("update", p, IF proc[p] = "zombie" THEN "ended" ELSE "stopped")
               /\ proc' = [proc EXCEPT ![p] = IF proc[p] = "zombie" THEN "none" ELSE "stopped"]
               /\ UNCHANGED blocked
        BY <3>1
      <4>2. p \in Pids
        BY DEF Reportable
      <4>3. stack' \in Seq(Frame)
        BY <1>1, <4>1, <4>2, GoToProperties
      <4> QED  BY <4>1, <4>2, <4>3 DEF ProcStates
    <3>2. CASE Return /\ UNCHANGED proc
      BY <1>1, <3>2, ReturnProperties
    <3> QED  BY <1>3, <3>1, <3>2 DEF SigchldWaits
  <2> QED  BY <1>3, <2>1 DEF SigchldWaits, JobListTypeOK
<1>4. CASE SigchldUpdates
  <2> DEFINE p == Last(stack).pid
             s == getjobpid(p)
  <2>1. p \in Pids \cup {0}
    BY <1>2 DEF Frame
  <2>2. stack' \in Seq(Frame)
    BY <1>1, <1>4, GoToProperties DEF SigchldUpdates
  <2>3. JobListTypeOK' /\ pc' \in Labels /\ (pc' = pc \/ pc' = "crashed")
    <3>1. CASE deletejob(p) /\ UNCHANGED pc
      BY <3>1, <2>1, DeletejobProperties
    <3>2. CASE s # 0 /\ jobs' = [jobs EXCEPT ![s].state = "ST"] /\ UNCHANGED <<nextjid, pc>>
      <4>1. s \in Slots
        BY <3>2, GetjobpidProperties
      <4> QED  BY <3>2, <4>1 DEF JobListTypeOK, Job, JobStates
    <3>3. CASE pc' = "crashed" /\ UNCHANGED listVars
      BY <3>3 DEF JobListTypeOK, Labels
    <3> QED  BY <1>4, <3>1, <3>2, <3>3 DEF SigchldUpdates
  <2> QED  BY <1>4, <2>2, <2>3 DEF SigchldUpdates
<1>5. CASE KeyHandlerReads
  <2>1. stack' \in Seq(Frame) /\ blocked' \subseteq Signals
    <3>1. CASE fgpid # 0 /\ GoTo("kill", fgpid, "") /\ UNCHANGED blocked
      <4>1. fgpid \in Pids
        BY <3>1, FgpidProperties
      <4> QED  BY <1>1, <3>1, <4>1, GoToProperties
    <3>2. CASE Return
      BY <1>1, <3>2, ReturnProperties
    <3> QED  BY <1>5, <3>1, <3>2 DEF KeyHandlerReads
  <2> QED  BY <1>5, <2>1 DEF KeyHandlerReads, JobListTypeOK
<1>6. CASE KeyHandlerKills
  <2>1. stack' \in Seq(Frame) /\ blocked' \subseteq Signals
    BY <1>1, <1>6, ReturnProperties DEF KeyHandlerKills
  <2>2. proc' \in [Pids -> ProcStates] /\ pending' \subseteq Signals
    BY <1>6 DEF KeyHandlerKills, ProcStates, Signals
  <2>3. intr' \subseteq Pids
    <3>1. CASE UNCHANGED intr
      BY <3>1
    <3>2. CASE intr' = intr \cup {Last(stack).pid} /\ Last(stack).pid \in Pids
      BY <3>2
    <3>3. Last(stack).pid \in Pids
      BY <1>2, <1>6 DEF Frame, KeyHandlerKills, HandlerAt
    <3> QED  BY <1>6, <3>1, <3>2, <3>3 DEF KeyHandlerKills
  <2> QED  BY <1>6, <2>1, <2>2, <2>3 DEF KeyHandlerKills, JobListTypeOK
<1> QED  BY <1>3, <1>4, <1>5, <1>6 DEF Handlers

LEMMA OutsideType ==
    ASSUME TypeOK, (\E sig \in Signals : Deliver(sig) \/ Key(sig)) \/ (\E p \in Pids : Child(p))
    PROVE  TypeOK'
<1> USE DEF TypeOK, mainVars, maskVars, childVars, listVars
<1>1. ASSUME NEW sig \in Signals, Deliver(sig) PROVE TypeOK'
  <2>1. stack' \in Seq(Frame)
    BY <1>1, DeliverProperties
  <2> QED  BY <1>1, <2>1 DEF Deliver, Labels, JobListTypeOK
<1>2. ASSUME NEW sig \in Signals, Key(sig) PROVE TypeOK'
  BY <1>2 DEF Key, Signals, JobListTypeOK
<1>3. ASSUME NEW p \in Pids, Child(p) PROVE TypeOK'
  BY <1>3 DEF Child, ChildExecs, ChildEnds, ChildStops, Signals, ProcStates, JobListTypeOK
<1> QED  BY <1>1, <1>2, <1>3

LEMMA NextType == TypeOK /\ [Next]_vars => TypeOK'
<1> SUFFICES ASSUME TypeOK, [Next]_vars PROVE TypeOK'
  OBVIOUS
<1>1. CASE Next
  <2>1. CASE Over
    BY <2>1 DEF Over, vars, TypeOK, JobListTypeOK
  <2> QED  BY <1>1, <2>1, MainType, HandlerType, OutsideType DEF Next
<1>2. CASE UNCHANGED vars
  BY <1>2 DEF vars, TypeOK, JobListTypeOK
<1> QED  BY <1>1, <1>2

(* Every variable of the shell keeps its type; in particular the job list   *)
(* is never written outside its slots and the handlers' stack always holds  *)
(* well-formed frames.                                                      *)
THEOREM TypeCorrect == Spec => []TypeOK
BY InitType, NextType, PTL DEF Spec

-----------------------------------------------------------------------------
(* How a step of a handler changes the stack: it returns, or its frame      *)
(* keeps its signal and its mask.                                           *)

Returns ==
    /\ Len(stack) \in Nat /\ Len(stack) >= 1
    /\ Len(stack') = Len(stack) - 1
    /\ \A i \in 1..Len(stack') : stack'[i] = stack[i]
    /\ blocked' = stack[Len(stack)].mask

Moves ==
    /\ Len(stack) \in Nat /\ Len(stack) >= 1
    /\ Len(stack') = Len(stack)
    /\ \A i \in 1..Len(stack) : i # Len(stack) => stack'[i] = stack[i]
    /\ stack'[Len(stack)].sig = stack[Len(stack)].sig
    /\ stack'[Len(stack)].mask = stack[Len(stack)].mask
    /\ blocked' = blocked

LEMMA ReturnReturns == ASSUME TypeOK, stack # <<>>, Return PROVE Returns
BY ReturnProperties, StackTop DEF TypeOK, Returns

LEMMA GoToMoves ==
    ASSUME TypeOK, stack # <<>>, UNCHANGED blocked,
           NEW l \in {"waitpid", "update", "fgpid", "kill"},
           NEW p \in Pids \cup {0},
           NEW what \in {"", "ended", "stopped"},
           l \in {"update", "kill"} => p \in Pids,
           GoTo(l, p, what)
    PROVE  Moves
<1>1. stack \in Seq(Frame)
  BY DEF TypeOK
<1>2. /\ Len(stack') = Len(stack)
      /\ \A i \in 1..Len(stack) : i # Len(stack) => stack'[i] = stack[i]
      /\ stack'[Len(stack)].sig = Last(stack).sig
      /\ stack'[Len(stack)].mask = Last(stack).mask
  BY <1>1, GoToProperties
<1>3. Len(stack) \in Nat /\ Len(stack) >= 1 /\ Last(stack) = stack[Len(stack)]
  BY <1>1, StackTop
<1> QED  BY <1>2, <1>3 DEF Moves

LEMMA HandlerSteps ==
    ASSUME TypeOK, Handlers
    PROVE  /\ Returns \/ Moves
           /\ pc' = pc \/ pc' = "crashed"
           /\ UNCHANGED <<pid, job, saved>>
<1>1. stack # <<>>
  BY DEF Handlers, SigchldWaits, SigchldUpdates, KeyHandlerReads, KeyHandlerKills, HandlerAt
<1>2. Last(stack).pid \in Pids \cup {0}
  BY <1>1, StackTop DEF TypeOK, Frame
<1>3. CASE SigchldWaits
  <2>1. CASE Return
    BY <1>1, <1>3, <2>1, ReturnReturns DEF SigchldWaits, mainVars
  <2>2. CASE ~Return
    <3>1. PICK p \in Reportable :
             GoTo("update", p, IF proc[p] = "zombie" THEN "ended" ELSE "stopped")
             /\ UNCHANGED blocked
      BY <1>3, <2>2 DEF SigchldWaits
    <3>2. p \in Pids
      BY DEF Reportable
    <3>3. Moves
      BY <1>1, <3>1, <3>2, GoToMoves
    <3> QED  BY <1>3, <3>3 DEF SigchldWaits, mainVars
  <2> QED  BY <2>1, <2>2
<1>4. CASE SigchldUpdates
  <2>1. Moves
    BY <1>1, <1>4, GoToMoves DEF SigchldUpdates, maskVars
  <2> QED  BY <1>4, <2>1 DEF SigchldUpdates
<1>5. CASE KeyHandlerReads
  <2>1. CASE fgpid # 0
    <3>1. fgpid \in Pids
      BY <2>1, FgpidProperties DEF TypeOK
    <3>2. Moves
      BY <1>1, <1>5, <2>1, <3>1, GoToMoves DEF KeyHandlerReads
    <3> QED  BY <1>5, <3>2 DEF KeyHandlerReads, mainVars
  <2>2. CASE fgpid = 0
    BY <1>1, <1>5, <2>2, ReturnReturns DEF KeyHandlerReads, mainVars
  <2> QED  BY <2>1, <2>2
<1>6. CASE KeyHandlerKills
  BY <1>1, <1>6, ReturnReturns DEF KeyHandlerKills, mainVars
<1> QED  BY <1>3, <1>4, <1>5, <1>6 DEF Handlers

(* Main runs when no handler does. *)
LEMMA MainOnEmptyStack ==
    ASSUME ReadCommand \/ Main
    PROVE  UNCHANGED stack /\ Len(stack) = 0 /\ Len(stack') = 0
<1>1. stack = <<>> /\ UNCHANGED stack
  BY DEF ReadCommand, Main, MainAt, EvalBlocks, Fork, EvalAddsJob, EvalRestores, Lookup,
         BgFg, BgFgRestores, WaitfgBlocks, WaitfgChecks, Suspend
<1> QED  BY <1>1

-----------------------------------------------------------------------------
(* The masks.                                                              *)

LEMMA SigchldHeldStep ==
    ASSUME TypeOK, SigchldHeld, [Next]_vars
    PROVE  SigchldHeld'
<1>1. CASE ReadCommand \/ Main
  <2>1. Len(stack') = 0
    BY <1>1, MainOnEmptyStack
  <2>2. pc' \in {"lookup", "bgfg", "fork", "addjob"} => "SIGCHLD" \in blocked'
    BY <1>1 DEF SigchldHeld, EvalReturns, maskVars,
                ReadCommand, Main, MainAt, EvalBlocks, Fork, EvalAddsJob, EvalRestores, Lookup,
                BgFg, BgFgRestores, WaitfgBlocks, WaitfgChecks, Suspend
  <2> QED  BY <2>1, <2>2 DEF SigchldHeld
<1>2. CASE Handlers
  <2>1. (Returns \/ Moves) /\ (pc' = pc \/ pc' = "crashed")
    BY <1>2, HandlerSteps
  <2> SUFFICES ASSUME pc' \in {"lookup", "bgfg", "fork", "addjob"}
               PROVE  /\ "SIGCHLD" \in blocked'
                      /\ \A i \in 1..Len(stack') :
                           stack'[i].sig # "SIGCHLD" /\ "SIGCHLD" \in stack'[i].mask
    BY DEF SigchldHeld
  <2>2. /\ "SIGCHLD" \in blocked
        /\ \A i \in 1..Len(stack) : stack[i].sig # "SIGCHLD" /\ "SIGCHLD" \in stack[i].mask
    BY <2>1 DEF SigchldHeld
  <2>3. CASE Returns
    BY <2>2, <2>3 DEF Returns
  <2>4. CASE Moves
    BY <2>2, <2>4 DEF Moves
  <2> QED  BY <2>1, <2>3, <2>4
<1>3. ASSUME NEW sig \in Signals, Deliver(sig) PROVE SigchldHeld'
  <2> SUFFICES ASSUME pc' \in {"lookup", "bgfg", "fork", "addjob"}
               PROVE  /\ "SIGCHLD" \in blocked'
                      /\ \A i \in 1..Len(stack') :
                           stack'[i].sig # "SIGCHLD" /\ "SIGCHLD" \in stack'[i].mask
    BY DEF SigchldHeld
  <2>1. pc' = pc /\ pc # "suspended"
    BY <1>3 DEF Deliver
  <2>2. /\ "SIGCHLD" \in blocked
        /\ \A i \in 1..Len(stack) : stack[i].sig # "SIGCHLD" /\ "SIGCHLD" \in stack[i].mask
    BY <2>1 DEF SigchldHeld
  <2>3. sig # "SIGCHLD" /\ blocked' = blocked \cup {sig}
    BY <1>3, <2>2 DEF Deliver
  <2>4. stack'[Len(stack) + 1].sig = sig /\ stack'[Len(stack) + 1].mask = blocked
    BY <1>3, <2>1, DeliverProperties
  <2>5. /\ Len(stack) \in Nat /\ Len(stack') = Len(stack) + 1
        /\ \A i \in 1..Len(stack) : stack'[i] = stack[i]
    BY <1>3, DeliverProperties
  <2> QED  BY <2>2, <2>3, <2>4, <2>5
<1>4. CASE UNCHANGED <<pc, stack, blocked>>
  BY <1>4 DEF SigchldHeld
<1>5. CASE (\E p \in Pids : Child(p)) \/ (\E sig \in Signals : Key(sig)) \/ Over \/ UNCHANGED vars
  BY <1>4, <1>5 DEF Child, ChildExecs, ChildEnds, ChildStops, Key, Over, vars, mainVars, maskVars
<1> QED  BY <1>1, <1>2, <1>3, <1>5 DEF Next

LEMMA WaitfgHoldsAllStep ==
    ASSUME TypeOK, WaitfgHoldsAll, [Next]_vars
    PROVE  WaitfgHoldsAll'
<1>1. CASE ReadCommand \/ Main
  <2>1. Len(stack) = 0 /\ Len(stack') = 0
    BY <1>1, MainOnEmptyStack
  <2>2. pc' \in {"waitfg", "sigsuspend", "check"} => blocked' = Signals
    BY <1>1, <2>1 DEF WaitfgHoldsAll, EvalReturns, maskVars, Signals,
                ReadCommand, Main, MainAt, EvalBlocks, Fork, EvalAddsJob, EvalRestores, Lookup,
                BgFg, BgFgRestores, WaitfgBlocks, WaitfgChecks, Suspend
  <2>3. pc' = "suspended" => saved'["sigsuspend"] = Signals
    BY <1>1, <2>1 DEF WaitfgHoldsAll, EvalReturns, TypeOK, Savers,
                ReadCommand, Main, MainAt, EvalBlocks, Fork, EvalAddsJob, EvalRestores, Lookup,
                BgFg, BgFgRestores, WaitfgBlocks, WaitfgChecks, Suspend
  <2> QED  BY <2>1, <2>2, <2>3 DEF WaitfgHoldsAll
<1>2. CASE Handlers
  <2>1. (Returns \/ Moves) /\ (pc' = pc \/ pc' = "crashed") /\ saved' = saved
    BY <1>2, HandlerSteps
  <2>2. Len(stack) # 0
    BY <2>1 DEF Returns, Moves
  <2>3. pc' # "crashed" => pc' = pc /\ pc \notin {"waitfg", "sigsuspend", "suspended"}
    BY <2>1, <2>2 DEF WaitfgHoldsAll
  <2>4. ASSUME pc' = "check"
        PROVE  IF Len(stack') = 0 THEN blocked' = Signals ELSE stack'[1].mask = Signals
    <3>1. stack[1].mask = Signals
      BY <2>2, <2>3, <2>4 DEF WaitfgHoldsAll
    <3>2. CASE Returns
      BY <3>1, <3>2 DEF Returns
    <3>3. CASE Moves
      BY <3>1, <3>3 DEF Moves
    <3> QED  BY <2>1, <3>2, <3>3
  <2> QED  BY <2>3, <2>4 DEF WaitfgHoldsAll
<1>3. ASSUME NEW sig \in Signals, Deliver(sig) PROVE WaitfgHoldsAll'
  <2>1. /\ Len(stack) \in Nat /\ Len(stack') = Len(stack) + 1
        /\ \A i \in 1..Len(stack) : stack'[i] = stack[i]
    BY <1>3, DeliverProperties
  <2>2. stack'[Len(stack) + 1].mask = IF pc = "suspended" THEN saved["sigsuspend"] ELSE blocked
    BY <1>3, DeliverProperties
  <2>3. blocked # Signals
    BY <1>3 DEF Deliver
  <2>4. pc \notin {"waitfg", "sigsuspend"}
    BY <2>3 DEF WaitfgHoldsAll
  <2>5. pc' \in {"waitfg", "sigsuspend", "suspended"} => FALSE
    BY <1>3, <2>4 DEF Deliver
  <2>6. ASSUME pc' = "check" PROVE stack'[1].mask = Signals
    <3>1. CASE pc = "suspended"
      BY <2>1, <2>2, <3>1 DEF WaitfgHoldsAll
    <3>2. CASE pc = "check"
      <4>1. Len(stack) # 0 /\ stack[1].mask = Signals
        BY <2>3, <3>2 DEF WaitfgHoldsAll
      <4> QED  BY <2>1, <4>1
    <3> QED  BY <1>3, <2>6, <3>1, <3>2 DEF Deliver
  <2> QED  BY <2>1, <2>5, <2>6 DEF WaitfgHoldsAll
<1>4. CASE UNCHANGED <<pc, stack, blocked, saved>>
  BY <1>4 DEF WaitfgHoldsAll
<1>5. CASE (\E p \in Pids : Child(p)) \/ (\E sig \in Signals : Key(sig)) \/ Over \/ UNCHANGED vars
  BY <1>4, <1>5 DEF Child, ChildExecs, ChildEnds, ChildStops, Key, Over, vars, mainVars, maskVars
<1> QED  BY <1>1, <1>2, <1>3, <1>5 DEF Next

-----------------------------------------------------------------------------
(* The job list.                                                           *)

(* Three steps write the list; sigchld_handler is active in the third.      *)
LEMMA JobsWriters ==
    ASSUME [Next]_vars
    PROVE  UNCHANGED <<jobs, nextjid>> \/ EvalAddsJob \/ BgFg \/ SigchldUpdates
BY DEF Next, Main, Handlers, Child, vars, listVars,
       ReadCommand, EvalBlocks, Fork, EvalRestores, Lookup, BgFgRestores, WaitfgBlocks,
       WaitfgChecks, Suspend, Deliver, SigchldWaits, KeyHandlerReads, KeyHandlerKills,
       ChildExecs, ChildEnds, ChildStops, Key, Over

LEMMA EvalAddsJobProperties ==
    ASSUME TypeOK, EvalAddsJob
    PROVE  \/ UNCHANGED jobs
           \/ /\ pid \in Pids
              /\ NewSlot \in Slots /\ jobs[NewSlot].pid = 0
              /\ \A t \in Slots : t # NewSlot => jobs'[t] = jobs[t]
              /\ jobs'[NewSlot].pid = pid
              /\ jobs'[NewSlot].state = IF cmd = "run" THEN "FG" ELSE "BG"
<1> DEFINE state == IF cmd = "run" THEN "FG" ELSE "BG"
<1>1. addjob(pid, state) /\ state \in JobStates
  BY DEF EvalAddsJob, JobStates
<1>2. JobListTypeOK
  BY DEF TypeOK
<1> HIDE DEF state
<1>3. CASE UNCHANGED jobs
  BY <1>3
<1>4. CASE ~UNCHANGED jobs
  <2>1. /\ pid \in Pids /\ NewSlot \in Slots /\ jobs[NewSlot].pid = 0
        /\ jobs' = [jobs EXCEPT ![NewSlot] = [pid |-> pid, jid |-> nextjid, state |-> state]]
    BY <1>1, <1>2, <1>4, AddjobProperties
  <2>2. /\ \A t \in Slots : t # NewSlot => jobs'[t] = jobs[t]
        /\ jobs'[NewSlot] = [pid |-> pid, jid |-> nextjid, state |-> state]
    BY <1>2, <2>1 DEF JobListTypeOK
  <2> QED  BY <2>1, <2>2 DEF state
<1> QED  BY <1>3, <1>4

LEMMA BgFgProperties ==
    ASSUME TypeOK, BgFg
    PROVE  /\ job \in Slots
           /\ \A t \in Slots : t # job => jobs'[t] = jobs[t]
           /\ jobs'[job].pid = jobs[job].pid /\ jobs'[job].jid = jobs[job].jid
           /\ jobs'[job].state = IF cmd = "bg" THEN "BG" ELSE "FG"
           /\ pid' = jobs[job].pid
           /\ pc' = IF cmd = "bg" THEN "do_bgfg restores" ELSE "waitfg"
<1>1. job \in Slots /\ jobs \in [Slots -> Job]
  BY DEF BgFg, MainAt, TypeOK, JobListTypeOK
<1>2. jobs' = [jobs EXCEPT ![job].state = IF cmd = "bg" THEN "BG" ELSE "FG"]
  BY DEF BgFg
<1>3. jobs[job] \in Job
  BY <1>1
<1> QED  BY <1>1, <1>2, <1>3 DEF BgFg, Job

(* The slot sigchld_handler works on. *)
HandledSlot == getjobpid(Last(stack).pid)

(* sigchld_handler clears the entry of a process, or marks it stopped.      *)
LEMMA SigchldUpdatesProperties ==
    ASSUME TypeOK, SigchldUpdates
    PROVE  /\ Last(stack).pid \in Pids
           /\ Last(stack) = stack[Len(stack)] /\ Len(stack) \in 1..Len(stack)
           /\ Last(stack).sig = "SIGCHLD"
           /\ \/ UNCHANGED jobs /\ pc' = "crashed" /\ Last(stack).what = "stopped"
              \/ /\ UNCHANGED <<jobs, pc>> /\ Last(stack).what = "ended"
                 /\ \A s \in Slots : jobs[s].pid # Last(stack).pid
              \/ /\ UNCHANGED pc
                 /\ HandledSlot \in Slots /\ jobs[HandledSlot].pid = Last(stack).pid
                 /\ \A t \in Slots : t # HandledSlot => jobs'[t] = jobs[t]
                 /\ \/ Last(stack).what = "ended" /\ jobs'[HandledSlot] = clearjob
                    \/ /\ Last(stack).what = "stopped"
                       /\ jobs'[HandledSlot].pid = Last(stack).pid
                       /\ jobs'[HandledSlot].jid = jobs[HandledSlot].jid
                       /\ jobs'[HandledSlot].state = "ST"
<1> DEFINE p == Last(stack).pid
<1>1. /\ Last(stack) \in Frame /\ Last(stack).sig = "SIGCHLD" /\ Last(stack).at = "update"
      /\ Last(stack) = stack[Len(stack)] /\ Len(stack) \in 1..Len(stack)
  BY StackTop DEF SigchldUpdates, HandlerAt, TypeOK
<1>2. p \in Pids
  BY <1>1 DEF Frame
<1>3. JobListTypeOK /\ jobs \in [Slots -> Job]
  BY DEF TypeOK, JobListTypeOK
<1>4. CASE Last(stack).what = "ended" /\ deletejob(p) /\ UNCHANGED pc
  <2>1. \/ (\A s \in Slots : jobs[s].pid # p) /\ UNCHANGED jobs
        \/ /\ HandledSlot \in Slots /\ jobs[HandledSlot].pid = p
           /\ jobs' = [jobs EXCEPT ![HandledSlot] = clearjob]
    BY <1>2, <1>3, <1>4, DeletejobProperties DEF HandledSlot
  <2>2. CASE (\A s \in Slots : jobs[s].pid # p) /\ UNCHANGED jobs
    BY <1>1, <1>2, <1>4, <2>2
  <2>3. ASSUME HandledSlot \in Slots, jobs' = [jobs EXCEPT ![HandledSlot] = clearjob]
        PROVE  /\ \A t \in Slots : t # HandledSlot => jobs'[t] = jobs[t]
               /\ jobs'[HandledSlot] = clearjob
    BY <1>3, <2>3
  <2> QED  BY <1>1, <1>2, <1>4, <2>1, <2>2, <2>3
<1>5. CASE /\ Last(stack).what = "stopped" /\ getjobpid(p) # 0
           /\ jobs' = [jobs EXCEPT ![getjobpid(p)].state = "ST"] /\ UNCHANGED pc
  <2> DEFINE s == HandledSlot
  <2>1. s \in Slots /\ jobs[s].pid = p /\ jobs' = [jobs EXCEPT ![s].state = "ST"]
    BY <1>5, GetjobpidProperties DEF HandledSlot
  <2>2. jobs[s] \in Job
    BY <1>3, <2>1
  <2>3. /\ \A t \in Slots : t # s => jobs'[t] = jobs[t]
        /\ jobs'[s].pid = jobs[s].pid /\ jobs'[s].jid = jobs[s].jid /\ jobs'[s].state = "ST"
    BY <1>3, <2>1, <2>2 DEF Job
  <2> QED  BY <1>1, <1>2, <1>5, <2>1, <2>3
<1>6. CASE Last(stack).what = "stopped" /\ pc' = "crashed" /\ UNCHANGED jobs
  BY <1>1, <1>2, <1>6
<1> QED  BY <1>4, <1>5, <1>6 DEF SigchldUpdates, listVars

(* While SIGCHLD is held, sigchld_handler does not run. *)
LEMMA HeldMeansIdle ==
    ASSUME TypeOK, SigchldHeld, pc \in {"lookup", "bgfg", "fork", "addjob"}
    PROVE  ~SigchldWaits /\ ~SigchldUpdates
<1>1. ASSUME stack # <<>>, Last(stack).sig = "SIGCHLD" PROVE FALSE
  BY <1>1, StackTop DEF TypeOK, SigchldHeld
<1> QED  BY <1>1 DEF SigchldWaits, SigchldUpdates, HandlerAt

LEMMA FreeSlotsClearStep ==
    ASSUME TypeOK, SigchldHeld, JobPointerValid, FreeSlotsClear, [Next]_vars
    PROVE  FreeSlotsClear'
<1> SUFFICES ASSUME NEW s \in Slots, jobs'[s].pid \notin Pids PROVE jobs'[s] = clearjob
  BY DEF FreeSlotsClear
<1>1. CASE UNCHANGED jobs
  BY <1>1 DEF FreeSlotsClear
<1>2. CASE EvalAddsJob
  BY <1>1, <1>2, EvalAddsJobProperties DEF FreeSlotsClear
<1>3. CASE BgFg
  <2>1. jobs[job].pid \in Pids
    BY <1>3 DEF JobPointerValid, BgFg, MainAt
  <2>2. jobs'[job].pid \in Pids
    BY <1>3, <2>1, BgFgProperties
  <2>3. s # job
    BY <2>2
  <2>4. jobs'[s] = jobs[s]
    BY <1>3, <2>3, BgFgProperties
  <2> QED  BY <2>4 DEF FreeSlotsClear
<1>4. CASE SigchldUpdates
  <2>1. jobs'[s] = jobs[s] \/ jobs'[s] = clearjob \/ jobs'[s].pid \in Pids
    BY <1>4, SigchldUpdatesProperties
  <2> QED  BY <2>1 DEF FreeSlotsClear
<1> QED  BY <1>1, <1>2, <1>3, <1>4, JobsWriters

LEMMA JobPointerValidStep ==
    ASSUME TypeOK, SigchldHeld, FreeSlotsClear, JobPointerValid, [Next]_vars
    PROVE  JobPointerValid'
<1> SUFFICES ASSUME pc' = "bgfg" PROVE jobs'[job'].pid \in Pids
  BY DEF JobPointerValid
<1>1. CASE Lookup
  <2>1. job' \in Slots /\ UNCHANGED jobs
    BY <1>1, NextType, MaxJobsAssumption DEF Lookup, TypeOK, listVars
  <2>2. CASE \E p \in Pids : job' = getjobpid(p)
    BY <1>1, <2>1, <2>2, GetjobpidProperties, MaxJobsAssumption DEF Slots
  <2>3. CASE \E j \in 1..MaxJid : job' = getjobjid(j)
    <3>1. jobs[job'].jid >= 1
      BY <2>1, <2>3, GetjobjidProperties, MaxJobsAssumption DEF Slots
    <3>2. jobs[job'] # clearjob
      BY <3>1 DEF clearjob
    <3> QED  BY <2>1, <3>2 DEF FreeSlotsClear
  <2> QED  BY <1>1, <2>2, <2>3 DEF Lookup, EvalReturns
<1>2. CASE ~Lookup
  <2>1. pc = "bgfg" /\ UNCHANGED job
    BY <1>2 DEF Next, Main, Handlers, Child, vars, mainVars, EvalReturns,
         ReadCommand, EvalBlocks, Fork, EvalAddsJob, EvalRestores, BgFg, BgFgRestores, WaitfgBlocks,
         WaitfgChecks, Suspend, Deliver, SigchldWaits, SigchldUpdates, KeyHandlerReads,
         KeyHandlerKills, ChildExecs, ChildEnds, ChildStops, Key, Over
  <2>2. UNCHANGED jobs
    BY <2>1, JobsWriters, HeldMeansIdle DEF EvalAddsJob, BgFg, MainAt
  <2> QED  BY <2>1, <2>2 DEF JobPointerValid
<1> QED  BY <1>1, <1>2

(* fork and waitpid are the only steps that make a process exist or not;    *)
(* waitpid alone reports a stop, and only main's SIGCONT ends one alive.    *)
LEMMA ProcWriters ==
    ASSUME TypeOK, [Next]_vars, NEW p \in Pids
    PROVE  /\ proc[p] = "none" /\ proc'[p] # "none" => Fork
           /\ proc[p] # "none" /\ proc'[p] = "none" => SigchldWaits
           /\ proc[p] # "stopped" /\ proc'[p] = "stopped" => SigchldWaits
           /\ /\ proc[p] \in {"stopped", "zombie", "none"}
              /\ proc'[p] \notin {"stopped", "zombie", "none"}
              => Fork \/ BgFg
<1>1. CASE Handlers /\ ~SigchldWaits
  BY <1>1 DEF TypeOK, Handlers, SigchldUpdates, KeyHandlerReads, KeyHandlerKills, childVars
<1>2. CASE ReadCommand \/ Main
  <2>1. CASE BgFg
    BY <2>1 DEF TypeOK, BgFg, Continue
  <2>2. CASE ~BgFg /\ ~Fork
    BY <1>2, <2>2 DEF Main, childVars, ReadCommand, EvalBlocks, EvalAddsJob, EvalRestores, Lookup,
         BgFgRestores, WaitfgBlocks, WaitfgChecks, Suspend
  <2>3. CASE Fork
    BY <2>3 DEF TypeOK, Fork
  <2> QED  BY <2>1, <2>2, <2>3
<1>3. CASE \E q \in Pids : Child(q)
  BY <1>3 DEF TypeOK, Child, ChildExecs, ChildEnds, ChildStops
<1>4. CASE (\E sig \in Signals : Deliver(sig) \/ Key(sig)) \/ Over \/ UNCHANGED vars
  BY <1>4 DEF Deliver, Key, Over, vars, childVars
<1>5. CASE SigchldWaits
  BY <1>5 DEF TypeOK, SigchldWaits, Reportable
<1> QED  BY <1>1, <1>2, <1>3, <1>4, <1>5 DEF Next

LEMMA NewPidUnlistedStep ==
    ASSUME TypeOK, SigchldHeld, NoGhostJob, NewPidUnlisted, [Next]_vars
    PROVE  NewPidUnlisted'
<1> SUFFICES ASSUME pc' = "addjob", pid' \in Pids
             PROVE  /\ proc'[pid'] \notin {"none", "stopped"}
                    /\ \A s \in Slots : jobs'[s].pid # pid'
  BY DEF NewPidUnlisted
<1>1. CASE Fork
  <2>1. /\ proc[pid'] = "none" /\ proc'[pid'] = "forked" /\ UNCHANGED jobs
        /\ Len(stack) = 0
    BY <1>1, PidsAssumption, MainOnEmptyStack DEF Fork, Main, TypeOK, listVars
  <2>2. ASSUME NEW s \in Slots, jobs[s].pid = pid' PROVE FALSE
    <3>1. s \in Listed
      BY <2>2, PidsAssumption DEF Listed
    <3>2. Taken(pid', "ended")
      BY <2>1, <2>2, <3>1 DEF NoGhostJob
    <3> QED  BY <2>1, <3>2 DEF Taken
  <2> QED  BY <2>1, <2>2
<1>2. CASE ~Fork
  <2>1. pc = "addjob" /\ UNCHANGED pid
    BY <1>2 DEF Next, Main, Handlers, Child, vars, mainVars, EvalReturns,
         ReadCommand, EvalBlocks, EvalAddsJob, EvalRestores, Lookup, BgFg, BgFgRestores,
         WaitfgBlocks, WaitfgChecks, Suspend, Deliver, SigchldWaits, SigchldUpdates,
         KeyHandlerReads, KeyHandlerKills, ChildExecs, ChildEnds, ChildStops, Key, Over
  <2>2. ~EvalAddsJob
    BY <2>1, MainOnEmptyStack DEF EvalAddsJob
  <2>3. UNCHANGED jobs
    BY <2>1, <2>2, JobsWriters, HeldMeansIdle DEF BgFg, MainAt
  <2>4. proc'[pid] \notin {"none", "stopped"}
    BY <2>1, ProcWriters, HeldMeansIdle DEF NewPidUnlisted
  <2> QED  BY <2>1, <2>3, <2>4 DEF NewPidUnlisted
<1> QED  BY <1>1, <1>2

LEMMA PidListedOnceStep ==
    ASSUME TypeOK, NewPidUnlisted, PidListedOnce, [Next]_vars
    PROVE  PidListedOnce'
<1> SUFFICES ASSUME NEW s \in Slots, NEW t \in Slots,
                    jobs'[s].pid \in Pids, jobs'[s].pid = jobs'[t].pid
             PROVE  s = t
  BY DEF PidListedOnce, Listed
<1>1. \A u, v \in Slots : jobs[u].pid \in Pids /\ jobs[u].pid = jobs[v].pid => u = v
  BY DEF PidListedOnce, Listed
<1>2. CASE UNCHANGED jobs
  BY <1>1, <1>2
<1>3. CASE EvalAddsJob
  <2>1. pid \in Pids => \A u \in Slots : jobs[u].pid # pid
    BY <1>3 DEF NewPidUnlisted, EvalAddsJob, MainAt
  <2> QED  BY <1>1, <1>2, <1>3, <2>1, EvalAddsJobProperties
<1>4. CASE BgFg
  BY <1>1, <1>4, BgFgProperties
<1>5. CASE SigchldUpdates
  BY <1>1, <1>2, <1>5, SigchldUpdatesProperties, PidsAssumption DEF clearjob
<1> QED  BY <1>2, <1>3, <1>4, <1>5, JobsWriters

(* A report sigchld_handler took stays taken until the handler uses it.     *)
LEMMA TakenKept ==
    ASSUME TypeOK, [Next]_vars, NEW i \in 1..Len(stack), stack[i].at = "update",
           i # Len(stack) \/ ~SigchldUpdates
    PROVE  i \in 1..Len(stack') /\ stack'[i] = stack[i]
<1>1. Len(stack) \in Nat /\ Len(stack) >= 1 /\ stack # <<>>
  BY LenProperties, EmptySeq DEF TypeOK
<1>2. CASE Handlers
  <2>1. CASE i = Len(stack)
    <3>1. Last(stack).at = "update"
      BY <1>1, <2>1, StackTop DEF TypeOK
    <3> QED
      BY <1>2, <2>1, <3>1 DEF Handlers, HandlerAt, SigchldWaits, KeyHandlerReads, KeyHandlerKills
  <2>2. CASE i # Len(stack)
    BY <1>1, <1>2, <2>2, HandlerSteps DEF Returns, Moves
  <2> QED  BY <2>1, <2>2
<1>3. CASE ReadCommand \/ Main
  BY <1>1, <1>3, MainOnEmptyStack
<1>4. ASSUME NEW sig \in Signals, Deliver(sig)
      PROVE  i \in 1..Len(stack') /\ stack'[i] = stack[i]
  BY <1>4, DeliverProperties
<1>5. CASE UNCHANGED stack
  BY <1>5
<1>6. CASE (\E p \in Pids : Child(p)) \/ (\E sig \in Signals : Key(sig)) \/ Over \/ UNCHANGED vars
  BY <1>5, <1>6 DEF Child, ChildExecs, ChildEnds, ChildStops, Key, Over, vars
<1> QED  BY <1>2, <1>3, <1>4, <1>6 DEF Next

(* What waitpid does: a zombie disappears only into a handler's hands.      *)
LEMMA SigchldWaitsTakes ==
    ASSUME TypeOK, SigchldWaits, NEW p \in Pids, proc[p] # "none", proc'[p] = "none"
    PROVE  Taken(p, "ended")'
<1>1. PICK q \in Reportable :
        /\ GoTo("update", q, IF proc[q] = "zombie" THEN "ended" ELSE "stopped")
        /\ proc' = [proc EXCEPT ![q] = IF proc[q] = "zombie" THEN "none" ELSE "stopped"]
  BY DEF SigchldWaits
<1>2. q \in Pids /\ q = p /\ proc[p] = "zombie"
  BY <1>1 DEF Reportable, TypeOK
<1>3. stack \in Seq(Frame) /\ stack # <<>>
  BY DEF TypeOK, SigchldWaits, HandlerAt
<1>4. GoTo("update", p, "ended")
  BY <1>1, <1>2
<1>5. /\ Len(stack') = Len(stack) /\ stack'[Len(stack)].at = "update"
      /\ stack'[Len(stack)].pid = p /\ stack'[Len(stack)].what = "ended"
  BY <1>3, <1>4, GoToProperties
<1>6. Len(stack) \in 1..Len(stack')
  BY <1>3, <1>5, StackTop
<1> QED  BY <1>5, <1>6 DEF Taken

LEMMA NoGhostJobStep ==
    ASSUME TypeOK, PidListedOnce, NewPidUnlisted, NoGhostJob, [Next]_vars
    PROVE  NoGhostJob'
<1> SUFFICES ASSUME NEW s \in Slots, NEW p \in Pids, jobs'[s].pid = p, proc'[p] = "none"
             PROVE  Taken(p, "ended")'
  BY DEF NoGhostJob, Listed, Taken
<1>1. ASSUME NEW i \in 1..Len(stack), stack[i].at = "update", stack[i].pid = p,
             stack[i].what = "ended", i # Len(stack) \/ ~SigchldUpdates
      PROVE  Taken(p, "ended")'
  <2>1. i \in 1..Len(stack') /\ stack'[i] = stack[i]
    BY <1>1, TakenKept
  <2> QED  BY <1>1, <2>1 DEF Taken
<1>2. ASSUME jobs[s].pid = p, ~SigchldUpdates PROVE Taken(p, "ended")'
  <2>1. CASE proc[p] = "none"
    <3>1. Taken(p, "ended")
      BY <1>2, <2>1 DEF NoGhostJob, Listed
    <3> QED  BY <1>1, <1>2, <3>1 DEF Taken
  <2>2. CASE proc[p] # "none"
    BY <2>2, ProcWriters, SigchldWaitsTakes
  <2> QED  BY <2>1, <2>2
<1>3. CASE UNCHANGED <<jobs, nextjid>> /\ ~SigchldUpdates
  BY <1>2, <1>3
<1>4. CASE EvalAddsJob
  <2>1. ~SigchldUpdates
    BY <1>4, MainOnEmptyStack DEF Main, SigchldUpdates, HandlerAt, EvalAddsJob, MainAt
  <2>2. CASE jobs'[s] = jobs[s]
    BY <1>2, <2>1, <2>2
  <2>3. CASE jobs'[s].pid = pid
    BY <1>4, <2>3 DEF NewPidUnlisted, EvalAddsJob, MainAt, childVars
  <2> QED  BY <1>4, <2>2, <2>3, EvalAddsJobProperties
<1>5. CASE BgFg
  <2>1. ~SigchldUpdates
    BY <1>5 DEF SigchldUpdates, HandlerAt, BgFg, MainAt
  <2>2. jobs[s].pid = p
    BY <1>5, BgFgProperties
  <2> QED  BY <1>2, <2>1, <2>2
<1>6. CASE SigchldUpdates
  <2>1. jobs[s].pid = p /\ (p # Last(stack).pid \/ Last(stack).what # "ended")
    BY <1>6, SigchldUpdatesProperties, PidsAssumption DEF clearjob, PidListedOnce, Listed
  <2>2. UNCHANGED proc
    BY <1>6 DEF SigchldUpdates, childVars
  <2>3. Taken(p, "ended")
    BY <2>1, <2>2 DEF NoGhostJob, Listed
  <2>4. PICK i \in 1..Len(stack) :
           stack[i].at = "update" /\ stack[i].pid = p /\ stack[i].what = "ended"
    BY <2>3 DEF Taken
  <2>5. i # Len(stack)
    BY <1>6, <2>1, <2>4, SigchldUpdatesProperties
  <2> QED  BY <1>1, <2>4, <2>5
<1> QED  BY <1>3, <1>4, <1>5, <1>6, JobsWriters

-----------------------------------------------------------------------------
(* The foreground job and the keyboard.                                    *)

(* A job in the foreground is listed. *)
LEMMA ForegroundIsListed ==
    ASSUME TypeOK, FreeSlotsClear, NEW s \in Slots, jobs[s].state = "FG"
    PROVE  jobs[s].pid \in Pids
BY DEF FreeSlotsClear, clearjob

(* waitfg does not return, and its pid does not change, while its job is    *)
(* in the foreground.                                                      *)
LEMMA WaitGoesOn ==
    ASSUME TypeOK, FreeSlotsClear, PidListedOnce, ForegroundIsWaitedFor, [Next]_vars,
           NEW s \in Slots, jobs[s].state = "FG"
    PROVE  /\ pc' \in {"waitfg", "check", "sigsuspend", "suspended", "exited", "crashed"}
           /\ jobs[s].pid = pid'
           /\ ~EvalAddsJob /\ ~BgFg
<1> DEFINE Waiting == {"waitfg", "check", "sigsuspend", "suspended", "exited", "crashed"}
<1>1. pc \in Waiting /\ jobs[s].pid = pid
  BY DEF ForegroundIsWaitedFor
<1>2. ~EvalAddsJob /\ ~BgFg
  BY <1>1 DEF EvalAddsJob, BgFg, MainAt
<1>3. CASE ReadCommand \/ Main
  <2>1. CASE WaitfgChecks
    <3>1. InForeground(pid)
      <4>1. pid \in Pids
        BY <1>1, ForegroundIsListed
      <4>2. getjobpid(pid) \in Slots /\ jobs[getjobpid(pid)].pid = pid
        BY <1>1, <4>1, GetjobpidProperties
      <4>3. getjobpid(pid) = s
        BY <1>1, <4>1, <4>2 DEF PidListedOnce, Listed
      <4> QED  BY <4>2, <4>3, MaxJobsAssumption DEF InForeground, Slots
    <3> QED  BY <1>1, <1>2, <2>1, <3>1 DEF WaitfgChecks
  <2>2. CASE WaitfgBlocks \/ Suspend
    BY <1>1, <1>2, <2>2 DEF WaitfgBlocks, Suspend
  <2>3. CASE ~ (WaitfgChecks \/ WaitfgBlocks \/ Suspend)
    BY <1>1, <1>3, <2>3 DEF Main, MainAt, ReadCommand, EvalBlocks, Fork, EvalAddsJob, EvalRestores,
         Lookup, BgFg, BgFgRestores
  <2> QED  BY <2>1, <2>2, <2>3
<1>4. CASE Handlers
  BY <1>1, <1>2, <1>4, HandlerSteps
<1>5. CASE ~ (ReadCommand \/ Main \/ Handlers)
  <2>1. UNCHANGED pid /\ pc' \in {pc, "exited", "check"} /\ (pc' = "check" => pc \in {"check", "suspended"})
    BY <1>5 DEF Next, Child, Deliver, ChildExecs, ChildEnds, ChildStops, Key, Over, vars, mainVars
  <2> QED  BY <1>1, <1>2, <2>1
<1> QED  BY <1>3, <1>4, <1>5

LEMMA ForegroundIsWaitedForStep ==
    ASSUME TypeOK, FreeSlotsClear, PidListedOnce, ForegroundIsWaitedFor, [Next]_vars
    PROVE  ForegroundIsWaitedFor'
<1> SUFFICES ASSUME NEW s \in Slots, jobs'[s].state = "FG"
             PROVE  /\ pc' \in {"waitfg", "check", "sigsuspend", "suspended", "exited", "crashed"}
                    /\ jobs'[s].pid = pid'
                    /\ \A t \in Slots : jobs'[t].state = "FG" => t = s
  BY DEF ForegroundIsWaitedFor
<1>1. \A t, u \in Slots : jobs[t].state = "FG" /\ jobs[u].state = "FG" => t = u
  BY DEF ForegroundIsWaitedFor
<1>2. CASE UNCHANGED jobs
  BY <1>1, <1>2, WaitGoesOn
<1>3. CASE EvalAddsJob
  <2>1. \A t \in Slots : jobs[t].state # "FG"
    BY <1>3, WaitGoesOn
  <2>2. pid' = pid /\ (cmd = "run" => pc' = "waitfg")
    BY <1>3 DEF EvalAddsJob
  <2> QED  BY <1>2, <1>3, <2>1, <2>2, EvalAddsJobProperties
<1>4. CASE BgFg
  <2>1. \A t \in Slots : jobs[t].state # "FG"
    BY <1>4, WaitGoesOn
  <2> QED  BY <1>4, <2>1, BgFgProperties
<1>5. CASE SigchldUpdates
  <2>1. CASE UNCHANGED jobs
    BY <1>2, <2>1
  <2>2. CASE ~UNCHANGED jobs
    <3>1. \A t \in Slots : jobs'[t].state = "FG" => jobs'[t] = jobs[t]
      BY <1>5, <2>2, SigchldUpdatesProperties DEF clearjob
    <3>2. jobs[s].state = "FG" /\ jobs'[s].pid = jobs[s].pid
      BY <3>1
    <3> QED  BY <1>1, <3>1, <3>2, WaitGoesOn
  <2> QED  BY <2>1, <2>2
<1> QED  BY <1>2, <1>3, <1>4, <1>5, JobsWriters

LEMMA KeyHandlerAims ==
    ASSUME TypeOK, FreeSlotsClear, WaitfgHoldsAll, ForegroundIsWaitedFor, KeyHandlerReads, fgpid # 0
    PROVE  pc = "check" /\ fgpid = pid
<1>1. PICK s \in Slots : jobs[s].state = "FG" /\ jobs[s].pid = fgpid
  BY FgpidProperties DEF TypeOK
<1>2. /\ pc \in {"waitfg", "check", "sigsuspend", "suspended", "exited", "crashed"}
      /\ fgpid = pid
  BY <1>1 DEF ForegroundIsWaitedFor
<1>3. Len(stack) # 0
  <2>1. stack \in Seq(Frame) /\ stack # <<>>
    BY DEF KeyHandlerReads, HandlerAt, TypeOK
  <2> QED  BY <2>1, StackTop
<1> QED  BY <1>2, <1>3 DEF WaitfgHoldsAll, KeyHandlerReads, HandlerAt, ShellRuns

LEMMA KeysHitTheWaitedJobStep ==
    ASSUME TypeOK, FreeSlotsClear, WaitfgHoldsAll, ForegroundIsWaitedFor,
           KeysHitTheWaitedJob, [Next]_vars
    PROVE  KeysHitTheWaitedJob'
<1> SUFFICES ASSUME NEW i \in 1..Len(stack'), stack'[i].at = "kill"
             PROVE  pc' \in {"check", "exited", "crashed"} /\ stack'[i].pid = pid'
  BY DEF KeysHitTheWaitedJob
<1>1. ASSUME i \in 1..Len(stack), stack'[i] = stack[i]
      PROVE  pc \in {"check", "exited", "crashed"} /\ stack'[i].pid = pid
  BY <1>1 DEF KeysHitTheWaitedJob
<1>2. CASE ReadCommand \/ Main
  BY <1>2, MainOnEmptyStack
<1>3. CASE Handlers
  <2>1. (Returns \/ Moves) /\ (pc' = pc \/ pc' = "crashed") /\ UNCHANGED pid
    BY <1>3, HandlerSteps
  <2>2. stack \in Seq(Frame) /\ stack # <<>>
    BY <1>3 DEF TypeOK, Handlers, SigchldWaits, SigchldUpdates, KeyHandlerReads, KeyHandlerKills,
         HandlerAt
  <2>3. CASE stack'[i] = stack[i] /\ i \in 1..Len(stack)
    BY <1>1, <2>1, <2>3
  <2>4. CASE ~ (stack'[i] = stack[i] /\ i \in 1..Len(stack))
    <3>1. Moves /\ i = Len(stack) /\ ~Returns
      BY <2>1, <2>4 DEF Returns, Moves
    <3>2. ~Return
      BY <2>2, <3>1, ReturnReturns
    <3>3. CASE KeyHandlerReads
      <4>1. fgpid # 0 /\ GoTo("kill", fgpid, "")
        BY <3>2, <3>3 DEF KeyHandlerReads
      <4>2. fgpid \in Pids
        BY <4>1, FgpidProperties DEF TypeOK
      <4>3. stack'[i].pid = fgpid
        BY <2>2, <3>1, <4>1, <4>2, GoToProperties
      <4> QED  BY <2>1, <3>3, <4>1, <4>3, KeyHandlerAims
    <3>4. CASE SigchldWaits
      <4>1. PICK p \in Reportable :
              GoTo("update", p, IF proc[p] = "zombie" THEN "ended" ELSE "stopped")
        BY <3>2, <3>4 DEF SigchldWaits
      <4>2. p \in Pids
        BY DEF Reportable
      <4>3. stack'[i].at = "update"
        BY <2>2, <3>1, <4>1, <4>2, GoToProperties
      <4> QED  BY <4>3
    <3>5. CASE SigchldUpdates
      <4>1. GoTo("waitpid", 0, "")
        BY <3>5 DEF SigchldUpdates
      <4>2. stack'[i].at = "waitpid"
        BY <2>2, <3>1, <4>1, GoToProperties
      <4> QED  BY <4>2
    <3>6. CASE KeyHandlerKills
      BY <3>2, <3>6 DEF KeyHandlerKills
    <3> QED  BY <1>3, <3>3, <3>4, <3>5, <3>6 DEF Handlers
  <2> QED  BY <2>3, <2>4
<1>4. ASSUME NEW sig \in Signals, Deliver(sig)
      PROVE  pc' \in {"check", "exited", "crashed"} /\ stack'[i].pid = pid'
  <2>1. i \in 1..Len(stack) /\ stack'[i] = stack[i]
    BY <1>4, DeliverProperties
  <2> QED  BY <1>1, <1>4, <2>1 DEF Deliver
<1>5. CASE (\E p \in Pids : Child(p)) \/ (\E sig \in Signals : Key(sig)) \/ Over \/ UNCHANGED vars
  <2>1. UNCHANGED <<stack, pc, pid>>
    BY <1>5 DEF Child, ChildExecs, ChildEnds, ChildStops, Key, Over, vars, mainVars
  <2> QED  BY <1>1, <2>1
<1> QED  BY <1>2, <1>3, <1>4, <1>5 DEF Next

(* The two ways a SIGCHLD that is due is not forgotten. *)
SigchldDue == "SIGCHLD" \in pending \/ \E i \in 1..Len(stack) : stack[i].sig = "SIGCHLD"

LEMMA HandlersKeepSigchld ==
    ASSUME TypeOK, Handlers, NoLostReport, Reportable' # {}, ShellRuns'
    PROVE  SigchldDue'
<1>1. stack \in Seq(Frame) /\ stack # <<>> /\ ShellRuns
  BY DEF TypeOK, Handlers, SigchldWaits, SigchldUpdates, KeyHandlerReads, KeyHandlerKills,
         HandlerAt
<1>2. Returns \/ Moves
  BY HandlerSteps
<1>3. /\ Last(stack) = stack[Len(stack)] /\ Len(stack) \in 1..Len(stack)
      /\ Len(stack) \in Nat
  BY <1>1, StackTop
<1>4. CASE SigchldWaits \/ SigchldUpdates
  <2>1. stack[Len(stack)].sig = "SIGCHLD"
    BY <1>3, <1>4 DEF SigchldWaits, SigchldUpdates, HandlerAt
  <2>2. CASE Moves
    BY <1>3, <2>1, <2>2 DEF Moves, SigchldDue
  <2>3. CASE ~Moves
    <3>1. Reportable = {} /\ UNCHANGED proc
      <4>1. CASE SigchldWaits
        <5>1. ASSUME NEW p \in Reportable,
                     GoTo("update", p, IF proc[p] = "zombie" THEN "ended" ELSE "stopped"),
                     UNCHANGED blocked
              PROVE  Moves
          BY <1>1, <5>1, GoToMoves DEF Reportable
        <5> QED  BY <2>3, <4>1, <5>1 DEF SigchldWaits
      <4>2. CASE SigchldUpdates
        BY <1>1, <2>3, <4>2, GoToMoves DEF SigchldUpdates, maskVars
      <4> QED  BY <1>4, <4>1, <4>2
    <3>2. Reportable' = {}
      BY <3>1 DEF Reportable
    <3> QED  BY <3>2
  <2> QED  BY <2>2, <2>3
<1>5. CASE KeyHandlerReads \/ KeyHandlerKills
  <2>1. stack[Len(stack)].sig # "SIGCHLD"
    BY <1>3, <1>5 DEF KeyHandlerReads, KeyHandlerKills, HandlerAt
  <2>2. ASSUME NEW i \in 1..Len(stack), stack[i].sig = "SIGCHLD"
        PROVE  i \in 1..Len(stack') /\ stack'[i] = stack[i]
    BY <1>2, <1>3, <2>1, <2>2 DEF Returns, Moves
  <2>3. CASE UNCHANGED <<proc, pending>>
    <3>1. Reportable # {}
      BY <2>3 DEF Reportable
    <3>2. SigchldDue
      BY <1>1, <3>1 DEF NoLostReport, SigchldDue
    <3>3. CASE "SIGCHLD" \in pending
      BY <2>3, <3>3 DEF SigchldDue
    <3>4. CASE \E i \in 1..Len(stack) : stack[i].sig = "SIGCHLD"
      BY <2>2, <3>4 DEF SigchldDue
    <3> QED  BY <3>2, <3>3, <3>4 DEF SigchldDue
  <2>4. CASE "SIGCHLD" \in pending'
    BY <2>4 DEF SigchldDue
  <2> QED  BY <1>5, <2>3, <2>4 DEF KeyHandlerReads, KeyHandlerKills, childVars
<1> QED  BY <1>4, <1>5 DEF Handlers

LEMMA NoLostReportStep ==
    ASSUME TypeOK, NoLostReport, [Next]_vars
    PROVE  NoLostReport'
<1> SUFFICES ASSUME Reportable' # {}, ShellRuns'
             PROVE  SigchldDue'
  BY DEF NoLostReport, SigchldDue
<1>1. ASSUME Reportable' \subseteq Reportable, ShellRuns,
             pending \subseteq pending', UNCHANGED stack
      PROVE  SigchldDue'
  BY <1>1 DEF NoLostReport, SigchldDue
<1>2. CASE "SIGCHLD" \in pending'
  BY <1>2 DEF SigchldDue
<1>3. CASE Handlers
  BY <1>3, HandlersKeepSigchld
<1>4. CASE ReadCommand \/ Main
  <2>1. UNCHANGED stack
    BY <1>4, MainOnEmptyStack
  <2>2. ShellRuns
    BY <1>4 DEF Main, MainAt, ShellRuns, ReadCommand, EvalBlocks, Fork, EvalAddsJob, EvalRestores,
         Lookup, BgFg, BgFgRestores, WaitfgBlocks, WaitfgChecks, Suspend
  <2>3. CASE Fork
    <3>1. Reportable' \subseteq Reportable
      BY <2>3 DEF Fork, Reportable, TypeOK
    <3> QED  BY <1>1, <2>1, <2>2, <2>3, <3>1 DEF Fork, maskVars
  <2>4. CASE BgFg
    <3>1. CASE UNCHANGED <<proc, pending>>
      BY <1>1, <2>1, <2>2, <3>1 DEF Reportable
    <3> QED  BY <1>2, <2>4, <3>1 DEF BgFg, Continue
  <2>5. CASE ~Fork /\ ~BgFg
    <3>1. UNCHANGED <<proc, pending>>
      BY <1>4, <2>5 DEF Main, ReadCommand, EvalBlocks, EvalAddsJob, EvalRestores, Lookup,
           BgFgRestores, WaitfgBlocks, WaitfgChecks, Suspend, childVars, maskVars
    <3> QED  BY <1>1, <2>1, <2>2, <3>1 DEF Reportable
  <2> QED  BY <2>3, <2>4, <2>5
<1>5. ASSUME NEW sig \in Signals, Deliver(sig) PROVE SigchldDue'
  <2>1. /\ Len(stack) \in Nat /\ Len(stack') = Len(stack) + 1
        /\ \A i \in 1..Len(stack) : stack'[i] = stack[i]
        /\ stack'[Len(stack) + 1].sig = sig
    BY <1>5, DeliverProperties
  <2>2. Reportable' = Reportable /\ ShellRuns
    BY <1>5 DEF Deliver, Reportable, childVars
  <2>3. SigchldDue
    BY <2>2 DEF NoLostReport, SigchldDue
  <2>4. CASE sig = "SIGCHLD"
    BY <2>1, <2>4 DEF SigchldDue
  <2>5. CASE sig # "SIGCHLD" /\ "SIGCHLD" \in pending
    BY <1>2, <1>5, <2>5 DEF Deliver
  <2>6. CASE \E i \in 1..Len(stack) : stack[i].sig = "SIGCHLD"
    BY <2>1, <2>6 DEF SigchldDue
  <2> QED  BY <2>3, <2>4, <2>5, <2>6 DEF SigchldDue
<1>6. ASSUME NEW p \in Pids, Child(p) PROVE SigchldDue'
  <2>1. CASE ChildExecs(p)
    <3>1. Reportable' \subseteq Reportable
      BY <2>1 DEF ChildExecs, Reportable, TypeOK
    <3> QED  BY <1>1, <2>1, <3>1 DEF ChildExecs, maskVars
  <2> QED  BY <1>2, <1>6, <2>1 DEF Child, ChildEnds, ChildStops
<1>7. CASE (\E sig \in Signals : Key(sig)) \/ Over \/ UNCHANGED vars
  <2>1. UNCHANGED <<proc, stack, pc>> /\ pending \subseteq pending'
    BY <1>7 DEF Key, Over, vars, mainVars, childVars
  <2>2. Reportable' \subseteq Reportable /\ ShellRuns
    BY <2>1 DEF Reportable, ShellRuns
  <2> QED  BY <1>1, <2>1, <2>2
<1> QED  BY <1>3, <1>4, <1>5, <1>6, <1>7 DEF Next

-----------------------------------------------------------------------------
(* Main's own mask.                                                        *)

LEMMA MainLeavesKeysOpenStep ==
    ASSUME TypeOK, MainLeavesKeysOpen, [Next]_vars
    PROVE  MainLeavesKeysOpen'
<1> DEFINE Open == {"prompt", "eval", "lookup", "bgfg", "fork", "addjob"}
<1>1. CASE ReadCommand \/ Main
  <2>1. Len(stack) = 0 /\ Len(stack') = 0
    BY <1>1, MainOnEmptyStack
  <2>2. pc \in Open => blocked \subseteq {"SIGCHLD"}
    BY <2>1 DEF MainLeavesKeysOpen, MainMask
  <2>3. saved'["eval"] \subseteq {"SIGCHLD"} /\ saved'["do_bgfg"] \subseteq {"SIGCHLD"}
    BY <1>1, <2>2 DEF MainLeavesKeysOpen, TypeOK, EvalReturns, NothingSaved, Savers,
         ReadCommand, Main, MainAt, EvalBlocks, Fork, EvalAddsJob, EvalRestores, Lookup,
         BgFg, BgFgRestores, WaitfgBlocks, WaitfgChecks, Suspend
  <2>4. pc' \in Open => blocked' \subseteq {"SIGCHLD"}
    BY <1>1, <2>2 DEF MainLeavesKeysOpen, EvalReturns, maskVars,
         ReadCommand, Main, MainAt, EvalBlocks, Fork, EvalAddsJob, EvalRestores, Lookup,
         BgFg, BgFgRestores, WaitfgBlocks, WaitfgChecks, Suspend
  <2> QED  BY <2>1, <2>3, <2>4 DEF MainLeavesKeysOpen, MainMask
<1>2. CASE Handlers
  <2>1. (Returns \/ Moves) /\ (pc' = pc \/ pc' = "crashed") /\ saved' = saved
    BY <1>2, HandlerSteps
  <2>2. MainMask' = MainMask
    BY <2>1 DEF Returns, Moves, MainMask
  <2> QED  BY <2>1, <2>2 DEF MainLeavesKeysOpen
<1>3. ASSUME NEW sig \in Signals, Deliver(sig) PROVE MainLeavesKeysOpen'
  <2>1. /\ Len(stack) \in Nat /\ Len(stack') = Len(stack) + 1
        /\ \A i \in 1..Len(stack) : stack'[i] = stack[i]
        /\ pc # "suspended" => stack'[Len(stack) + 1].mask = blocked
    BY <1>3, DeliverProperties
  <2>2. saved' = saved /\ (pc' \in Open => pc' = pc /\ pc # "suspended")
    BY <1>3 DEF Deliver
  <2>3. pc # "suspended" => MainMask' = MainMask
    BY <2>1 DEF MainMask
  <2> QED  BY <2>2, <2>3 DEF MainLeavesKeysOpen
<1>4. CASE (\E p \in Pids : Child(p)) \/ (\E sig \in Signals : Key(sig)) \/ Over \/ UNCHANGED vars
  <2>1. UNCHANGED <<pc, stack, blocked, saved>>
    BY <1>4 DEF Child, ChildExecs, ChildEnds, ChildStops, Key, Over, vars, mainVars, maskVars
  <2> QED  BY <2>1 DEF MainLeavesKeysOpen, MainMask
<1> QED  BY <1>1, <1>2, <1>3, <1>4 DEF Next

-----------------------------------------------------------------------------
(* Stopped jobs.                                                           *)

LEMMA ListedHasStateStep ==
    ASSUME TypeOK, ListedHasState, [Next]_vars
    PROVE  ListedHasState'
<1> SUFFICES ASSUME NEW s \in Slots, jobs'[s].pid \in Pids PROVE jobs'[s].state # "UNDEF"
  BY DEF ListedHasState, Listed
<1>1. jobs[s].pid \in Pids => jobs[s].state # "UNDEF"
  BY DEF ListedHasState, Listed
<1>2. CASE UNCHANGED jobs
  BY <1>1, <1>2
<1>3. CASE EvalAddsJob
  BY <1>1, <1>3, EvalAddsJobProperties
<1>4. CASE BgFg
  BY <1>1, <1>4, BgFgProperties
<1>5. CASE SigchldUpdates
  BY <1>1, <1>5, SigchldUpdatesProperties, PidsAssumption DEF clearjob
<1> QED  BY <1>2, <1>3, <1>4, <1>5, JobsWriters

(* A report in a handler's hands was there before the step, or is the one   *)
(* this step's waitpid returned.                                           *)
LEMMA TakenComes ==
    ASSUME TypeOK, [Next]_vars, NEW p \in Pids, Taken(p, "stopped")'
    PROVE  \/ Taken(p, "stopped")
           \/ SigchldWaits /\ proc'[p] = "stopped"
<1>1. PICK i \in 1..Len(stack') :
        stack'[i].at = "update" /\ stack'[i].pid = p /\ stack'[i].what = "stopped"
  BY DEF Taken
<1>2. CASE i \in 1..Len(stack) /\ stack'[i] = stack[i]
  BY <1>1, <1>2 DEF Taken
<1>3. CASE ReadCommand \/ Main
  BY <1>1, <1>3, MainOnEmptyStack
<1>4. CASE Handlers
  <2>1. Returns \/ Moves
    BY <1>4, HandlerSteps
  <2>2. stack \in Seq(Frame) /\ stack # <<>>
    BY <1>4 DEF TypeOK, Handlers, SigchldWaits, SigchldUpdates, KeyHandlerReads, KeyHandlerKills,
         HandlerAt
  <2> SUFFICES ASSUME ~ (i \in 1..Len(stack) /\ stack'[i] = stack[i])
               PROVE  SigchldWaits /\ proc'[p] = "stopped"
    BY <1>2
  <2>3. Moves /\ i = Len(stack) /\ ~Returns
    BY <2>1 DEF Returns, Moves
  <2>4. ~Return
    BY <2>2, <2>3, ReturnReturns
  <2>5. ASSUME SigchldWaits PROVE proc'[p] = "stopped"
    <3>1. PICK q \in Reportable :
            /\ GoTo("update", q, IF proc[q] = "zombie" THEN "ended" ELSE "stopped")
            /\ proc' = [proc EXCEPT ![q] = IF proc[q] = "zombie" THEN "none" ELSE "stopped"]
      BY <2>4, <2>5 DEF SigchldWaits
    <3>2. q \in Pids
      BY DEF Reportable
    <3>3. /\ stack'[i].pid = q
          /\ stack'[i].what = IF proc[q] = "zombie" THEN "ended" ELSE "stopped"
      BY <2>2, <2>3, <3>1, <3>2, GoToProperties
    <3>4. q = p /\ proc[q] # "zombie"
      BY <1>1, <3>3
    <3> QED  BY <3>1, <3>2, <3>4 DEF TypeOK
  <2>6. ~SigchldUpdates
    <3>1. ASSUME GoTo("waitpid", 0, "") PROVE FALSE
      <4>1. stack'[i].at = "waitpid"
        BY <2>2, <2>3, <3>1, GoToProperties
      <4> QED  BY <1>1, <4>1
    <3> QED  BY <3>1 DEF SigchldUpdates
  <2>7. ~KeyHandlerReads
    <3>1. ASSUME fgpid # 0, GoTo("kill", fgpid, "") PROVE FALSE
      <4>1. fgpid \in Pids
        BY <3>1, FgpidProperties DEF TypeOK
      <4>2. stack'[i].at = "kill"
        BY <2>2, <2>3, <3>1, <4>1, GoToProperties
      <4> QED  BY <1>1, <4>2
    <3> QED  BY <2>4, <3>1 DEF KeyHandlerReads
  <2>8. ~KeyHandlerKills
    BY <2>4 DEF KeyHandlerKills
  <2> QED  BY <1>4, <2>5, <2>6, <2>7, <2>8 DEF Handlers
<1>5. ASSUME NEW sig \in Signals, Deliver(sig) PROVE i \in 1..Len(stack) /\ stack'[i] = stack[i]
  BY <1>1, <1>5, DeliverProperties
<1>6. CASE (\E q \in Pids : Child(q)) \/ (\E sig \in Signals : Key(sig)) \/ Over \/ UNCHANGED vars
  <2>1. UNCHANGED stack
    BY <1>6 DEF Child, ChildExecs, ChildEnds, ChildStops, Key, Over, vars
  <2> QED  BY <1>2, <2>1
<1> QED  BY <1>2, <1>3, <1>4, <1>5, <1>6 DEF Next

LEMMA TakenIsStoppedStep ==
    ASSUME TypeOK, TakenIsStopped, [Next]_vars
    PROVE  TakenIsStopped'
<1> SUFFICES ASSUME NEW p \in Pids, Taken(p, "stopped")'
             PROVE  proc'[p] \in {"stopped", "zombie", "none"}
  BY DEF TakenIsStopped, Taken
<1>1. CASE proc'[p] = "stopped"
  BY <1>1
<1>2. CASE Taken(p, "stopped")
  <2>1. proc[p] \in {"stopped", "zombie", "none"}
    BY <1>2 DEF TakenIsStopped
  <2>2. ~Fork /\ ~BgFg
    <3>1. Len(stack) # 0
      BY <1>2 DEF Taken
    <3> QED  BY <3>1, MainOnEmptyStack DEF Main
  <2> QED  BY <2>1, <2>2, ProcWriters
<1> QED  BY <1>1, <1>2, TakenComes

(* The first half of StoppedAgrees: a job shown as stopped is not running.  *)
LEMMA StoppedJobStep ==
    ASSUME TypeOK, FreeSlotsClear, PidListedOnce, NoGhostJob, TakenIsStopped, StoppedAgrees,
           [Next]_vars, NEW s \in Slots, NEW p \in Pids, jobs'[s].pid = p, jobs'[s].state = "ST"
    PROVE  proc'[p] \in {"stopped", "zombie", "none"}
<1>1. ASSUME jobs[s].pid = p, jobs[s].state = "ST", ~BgFg
      PROVE  proc'[p] \in {"stopped", "zombie", "none"}
  <2>1. proc[p] \in {"stopped", "zombie", "none"}
    BY <1>1 DEF StoppedAgrees, Listed
  <2>2. CASE Fork
    <3>1. Len(stack) = 0
      BY <2>2, MainOnEmptyStack DEF Main
    <3>2. ~Taken(p, "ended")
      BY <3>1 DEF Taken
    <3>3. proc[p] # "none"
      BY <1>1, <3>2 DEF NoGhostJob, Listed
    <3> QED  BY <2>1, <2>2, <3>3 DEF Fork, TypeOK
  <2> QED  BY <1>1, <2>1, <2>2, ProcWriters
<1>2. CASE UNCHANGED <<jobs, nextjid>> /\ ~BgFg
  BY <1>1, <1>2
<1>3. CASE EvalAddsJob
  <2>1. jobs[s].pid = p /\ jobs[s].state = "ST"
    BY <1>3, EvalAddsJobProperties
  <2>2. UNCHANGED proc
    BY <1>3 DEF EvalAddsJob, childVars
  <2> QED  BY <2>1, <2>2 DEF StoppedAgrees, Listed
<1>4. CASE BgFg
  <2>1. s # job /\ jobs[s].pid = p /\ jobs[s].state = "ST" /\ job \in Slots
    BY <1>4, BgFgProperties
  <2>2. jobs[job].pid # p
    BY <2>1 DEF PidListedOnce, Listed
  <2>3. proc'[p] = proc[p]
    BY <1>4, <2>2 DEF BgFg, Continue, TypeOK
  <2> QED  BY <2>1, <2>3 DEF StoppedAgrees, Listed
<1>5. CASE SigchldUpdates
  <2>1. UNCHANGED proc
    BY <1>5 DEF SigchldUpdates, childVars
  <2>2. CASE jobs'[s] = jobs[s]
    BY <2>1, <2>2 DEF StoppedAgrees, Listed
  <2>3. CASE jobs'[s] # jobs[s]
    <3>1. /\ Last(stack).pid = p /\ Last(stack).what = "stopped"
          /\ Last(stack) = stack[Len(stack)] /\ Len(stack) \in 1..Len(stack)
      BY <1>5, <2>3, SigchldUpdatesProperties DEF clearjob
    <3>2. Last(stack).at = "update"
      BY <1>5 DEF SigchldUpdates, HandlerAt
    <3>3. Taken(p, "stopped")
      BY <3>1, <3>2 DEF Taken
    <3> QED  BY <2>1, <3>3 DEF TakenIsStopped
  <2> QED  BY <2>2, <2>3
<1> QED  BY <1>2, <1>3, <1>4, <1>5, JobsWriters

(* waitpid reports a stop into the hands of the handler that called it.     *)
LEMMA SigchldWaitsTakesStop ==
    ASSUME TypeOK, SigchldWaits, NEW p \in Pids, proc[p] # "stopped", proc'[p] = "stopped"
    PROVE  Taken(p, "stopped")'
<1>1. PICK q \in Reportable :
        /\ GoTo("update", q, IF proc[q] = "zombie" THEN "ended" ELSE "stopped")
        /\ proc' = [proc EXCEPT ![q] = IF proc[q] = "zombie" THEN "none" ELSE "stopped"]
  BY DEF SigchldWaits
<1>2. q \in Pids /\ q = p /\ proc[p] # "zombie"
  BY <1>1 DEF Reportable, TypeOK
<1>3. stack \in Seq(Frame) /\ stack # <<>>
  BY DEF TypeOK, SigchldWaits, HandlerAt
<1>4. GoTo("update", p, "stopped")
  BY <1>1, <1>2
<1>5. /\ Len(stack') = Len(stack) /\ stack'[Len(stack)].at = "update"
      /\ stack'[Len(stack)].pid = p /\ stack'[Len(stack)].what = "stopped"
  BY <1>3, <1>4, GoToProperties
<1>6. Len(stack) \in 1..Len(stack')
  BY <1>3, <1>5, StackTop
<1> QED  BY <1>5, <1>6 DEF Taken

(* The second half: a stop that was reported is shown, or is in a handler's *)
(* hands.                                                                  *)
LEMMA StoppedProcessStep ==
    ASSUME TypeOK, SigchldHeld, PidListedOnce, NewPidUnlisted, StoppedAgrees, [Next]_vars,
           NEW s \in Slots, NEW p \in Pids, jobs'[s].pid = p, proc'[p] = "stopped"
    PROVE  jobs'[s].state = "ST" \/ Taken(p, "stopped")'
<1>1. ASSUME Taken(p, "stopped"), ~SigchldUpdates \/ Last(stack).pid # p \/ Last(stack).what # "stopped"
      PROVE  Taken(p, "stopped")'
  <2>1. PICK i \in 1..Len(stack) :
           stack[i].at = "update" /\ stack[i].pid = p /\ stack[i].what = "stopped"
    BY <1>1 DEF Taken
  <2>2. i # Len(stack) \/ ~SigchldUpdates
    BY <1>1, <2>1, SigchldUpdatesProperties
  <2>3. i \in 1..Len(stack') /\ stack'[i] = stack[i]
    BY <2>1, <2>2, TakenKept
  <2> QED  BY <2>1, <2>3 DEF Taken
<1>2. CASE proc[p] # "stopped"
  BY <1>2, ProcWriters, SigchldWaitsTakesStop
<1>3. CASE proc[p] = "stopped" /\ ~SigchldUpdates /\ ~BgFg /\ ~EvalAddsJob
  BY <1>1, <1>3, JobsWriters DEF StoppedAgrees, Listed
<1>4. CASE proc[p] = "stopped" /\ EvalAddsJob
  <2>1. pid # p
    BY <1>4 DEF NewPidUnlisted, EvalAddsJob, MainAt
  <2>2. jobs'[s] = jobs[s]
    BY <1>4, <2>1, EvalAddsJobProperties
  <2>3. ~SigchldUpdates
    BY <1>4 DEF SigchldUpdates, HandlerAt, EvalAddsJob, MainAt
  <2> QED  BY <1>1, <1>4, <2>2, <2>3 DEF StoppedAgrees, Listed
<1>5. CASE proc[p] = "stopped" /\ BgFg
  <2>1. job \in Slots /\ jobs[job].pid # p
    BY <1>5, BgFgProperties DEF BgFg, Continue, TypeOK
  <2>2. jobs'[s] = jobs[s]
    BY <1>5, <2>1, BgFgProperties
  <2>3. ~SigchldUpdates
    BY <1>5 DEF SigchldUpdates, HandlerAt, BgFg, MainAt
  <2> QED  BY <1>1, <1>5, <2>2, <2>3 DEF StoppedAgrees, Listed
<1>6. CASE proc[p] = "stopped" /\ SigchldUpdates
  <2>1. jobs[s].pid = p
    BY <1>6, SigchldUpdatesProperties, PidsAssumption DEF clearjob
  <2>2. jobs[s].state = "ST" \/ Taken(p, "stopped")
    BY <1>6, <2>1 DEF StoppedAgrees, Listed
  <2>3. jobs[s].state = "ST" => jobs'[s].state = "ST"
    BY <1>6, <2>1, SigchldUpdatesProperties, PidsAssumption DEF clearjob
  <2>4. CASE Last(stack).pid = p /\ Last(stack).what = "stopped"
    <3>1. CASE UNCHANGED jobs /\ pc' = "crashed"
      <4>1. getjobpid(p) = 0
        BY <1>6, <2>4, <3>1 DEF SigchldUpdates, HandlerAt, ShellRuns
      <4> QED  BY <2>1, <4>1, GetjobpidProperties
    <3>2. CASE ~ (UNCHANGED jobs /\ pc' = "crashed")
      <4>1. HandledSlot \in Slots /\ jobs[HandledSlot].pid = p /\ jobs'[HandledSlot].state = "ST"
        BY <1>6, <2>4, <3>2, SigchldUpdatesProperties
      <4>2. HandledSlot = s
        BY <2>1, <4>1 DEF PidListedOnce, Listed
      <4> QED  BY <4>1, <4>2
    <3> QED  BY <3>1, <3>2
  <2> QED  BY <1>1, <2>2, <2>3, <2>4
<1> QED  BY <1>2, <1>3, <1>4, <1>5, <1>6

LEMMA StoppedAgreesStep ==
    ASSUME TypeOK, SigchldHeld, FreeSlotsClear, PidListedOnce, NoGhostJob, NewPidUnlisted,
           TakenIsStopped, StoppedAgrees, [Next]_vars
    PROVE  StoppedAgrees'
<1> SUFFICES ASSUME NEW s \in Slots, NEW p \in Pids, jobs'[s].pid = p
             PROVE  /\ jobs'[s].state = "ST" => proc'[p] \in {"stopped", "zombie", "none"}
                    /\ proc'[p] = "stopped" => jobs'[s].state = "ST" \/ Taken(p, "stopped")'
  BY DEF StoppedAgrees, Listed, Taken
<1> QED  BY StoppedJobStep, StoppedProcessStep

-----------------------------------------------------------------------------
(* The number handed out next.                                             *)

LEMMA NextJidFreeStep ==
    ASSUME TypeOK, NextJidFree, [Next]_vars
    PROVE  NextJidFree'
<1> SUFFICES ASSUME \A s \in Slots : jobs'[s].pid \in Pids => jobs'[s].jid < MAXJOBS,
                    NEW s \in Slots, jobs'[s].pid \in Pids
             PROVE  jobs'[s].jid < nextjid'
  BY DEF NextJidFree, Listed
<1>1. JobListTypeOK /\ jobs \in [Slots -> Job] /\ nextjid \in Nat \ {0}
  BY DEF TypeOK, JobListTypeOK
<1>2. (\A t \in Slots : jobs[t].pid \in Pids => jobs[t].jid < MAXJOBS)
        => \A t \in Slots : jobs[t].pid \in Pids => jobs[t].jid < nextjid
  BY DEF NextJidFree, Listed
<1>3. CASE UNCHANGED <<jobs, nextjid>>
  BY <1>2, <1>3
<1>4. CASE EvalAddsJob
  <2>1. PICK state \in JobStates : addjob(pid, state)
    BY <1>4 DEF EvalAddsJob, JobStates
  <2>2. CASE ~UNCHANGED <<jobs, nextjid>>
    <3>1. /\ pid \in Pids /\ NewSlot \in Slots /\ jobs[NewSlot].pid = 0
          /\ jobs' = [jobs EXCEPT ![NewSlot] = [pid |-> pid, jid |-> nextjid, state |-> state]]
          /\ nextjid' = IF nextjid + 1 > MAXJOBS THEN 1 ELSE nextjid + 1
      BY <1>1, <2>1, <2>2, AddjobProperties
    <3>2. /\ jobs'[NewSlot].pid = pid /\ jobs'[NewSlot].jid = nextjid
          /\ \A t \in Slots : t # NewSlot => jobs'[t] = jobs[t]
      BY <1>1, <3>1
    <3>3. nextjid < MAXJOBS /\ nextjid' = nextjid + 1
      BY <1>1, <3>1, <3>2, MaxJobsAssumption
    <3>4. \A t \in Slots : jobs[t].pid \in Pids => jobs[t].jid < MAXJOBS
      BY <3>1, <3>2, PidsAssumption
    <3>5. \A t \in Slots : jobs[t].jid \in Nat
      BY <1>1 DEF Job
    <3>6. CASE s = NewSlot
      BY <1>1, <3>2, <3>3, <3>6
    <3>7. CASE s # NewSlot
      BY <1>1, <1>2, <3>2, <3>3, <3>4, <3>5, <3>7
    <3> QED  BY <3>6, <3>7
  <2> QED  BY <1>3, <2>2
<1>5. CASE BgFg
  <2>1. /\ UNCHANGED nextjid
        /\ \A t \in Slots : jobs'[t].pid = jobs[t].pid /\ jobs'[t].jid = jobs[t].jid
    BY <1>5, BgFgProperties DEF BgFg
  <2> QED  BY <1>2, <2>1
<1>6. CASE SigchldUpdates
  <2> DEFINE p == Last(stack).pid
  <2>1. p \in Pids
    BY <1>6, SigchldUpdatesProperties
  <2>2. CASE deletejob(p)
    <3>1. UNCHANGED <<jobs, nextjid>> \/ \A t \in Slots : jobs'[t].jid < nextjid'
      BY <1>1, <2>1, <2>2, DeletejobProperties
    <3> QED  BY <1>3, <3>1
  <2>3. CASE getjobpid(p) # 0 /\ jobs' = [jobs EXCEPT ![getjobpid(p)].state = "ST"] /\ UNCHANGED nextjid
    <3>1. getjobpid(p) \in Slots
      BY <2>3, GetjobpidProperties
    <3>2. \A t \in Slots : jobs'[t].pid = jobs[t].pid /\ jobs'[t].jid = jobs[t].jid
      BY <1>1, <2>3, <3>1 DEF Job
    <3> QED  BY <1>2, <2>3, <3>2
  <2> QED  BY <1>3, <1>6, <2>2, <2>3 DEF SigchldUpdates, listVars
<1> QED  BY <1>3, <1>4, <1>5, <1>6, JobsWriters

-----------------------------------------------------------------------------
(* The theorems.                                                           *)

LEMMA InitInductive == Init => Inductive
<1> SUFFICES ASSUME Init PROVE Inductive
  OBVIOUS
<1>1. TypeOK
  BY InitType
<1>2. \A s \in Slots : jobs[s] = clearjob
  BY DEF Init, initjobs
<1>3. Listed = {} /\ \A s \in Slots : jobs[s].state # "FG"
  BY <1>2, PidsAssumption DEF Listed, clearjob
<1>4. Len(stack) = 0 /\ pc = "prompt" /\ Reportable = {}
  BY DEF Init, Reportable
<1>5. SigchldHeld /\ WaitfgHoldsAll /\ KeysHitTheWaitedJob /\ NoLostReport
  BY <1>4 DEF SigchldHeld, WaitfgHoldsAll, KeysHitTheWaitedJob, NoLostReport
<1>6. JobPointerValid /\ NewPidUnlisted /\ FreeSlotsClear
  BY <1>2, <1>4 DEF JobPointerValid, NewPidUnlisted, FreeSlotsClear
<1>7. PidListedOnce /\ NoGhostJob /\ ForegroundIsWaitedFor
  BY <1>3 DEF PidListedOnce, NoGhostJob, ForegroundIsWaitedFor
<1>8. ListedHasState /\ TakenIsStopped /\ StoppedAgrees /\ NextJidFree
  BY <1>3, <1>4 DEF ListedHasState, TakenIsStopped, Taken, StoppedAgrees, NextJidFree
<1>9. MainLeavesKeysOpen
  BY <1>4 DEF MainLeavesKeysOpen, MainMask, Init, NothingSaved, Savers
<1> QED  BY <1>1, <1>5, <1>6, <1>7, <1>8, <1>9 DEF Inductive

LEMMA NextInductive == Inductive /\ [Next]_vars => Inductive'
<1> SUFFICES ASSUME Inductive, [Next]_vars PROVE Inductive'
  OBVIOUS
<1> USE DEF Inductive
<1>1. TypeOK'
  BY NextType
<1>2. SigchldHeld' /\ WaitfgHoldsAll'
  BY SigchldHeldStep, WaitfgHoldsAllStep
<1>3. JobPointerValid' /\ FreeSlotsClear'
  BY JobPointerValidStep, FreeSlotsClearStep
<1>4. NewPidUnlisted' /\ PidListedOnce'
  BY NewPidUnlistedStep, PidListedOnceStep
<1>5. NoGhostJob'
  BY NoGhostJobStep
<1>6. ForegroundIsWaitedFor' /\ KeysHitTheWaitedJob'
  BY ForegroundIsWaitedForStep, KeysHitTheWaitedJobStep
<1>7. NoLostReport' /\ NextJidFree'
  BY NoLostReportStep, NextJidFreeStep
<1>8. MainLeavesKeysOpen' /\ ListedHasState'
  BY MainLeavesKeysOpenStep, ListedHasStateStep
<1>9. TakenIsStopped' /\ StoppedAgrees'
  BY TakenIsStoppedStep, StoppedAgreesStep
<1> QED  BY <1>1, <1>2, <1>3, <1>4, <1>5, <1>6, <1>7, <1>8, <1>9

(* The inductive invariant: the masks main holds at each place, and what    *)
(* they protect.                                                           *)
THEOREM InductiveCorrect == Spec => []Inductive
BY InitInductive, NextInductive, PTL DEF Spec

(* eval, do_bgfg and waitfg: at most one job is in the foreground, and main *)
(* is waiting for that job, whatever signals interrupt it.                  *)
THEOREM ForegroundCorrect == Spec => []ForegroundIsWaitedFor
<1>1. Inductive => ForegroundIsWaitedFor
  BY DEF Inductive
<1> QED  BY <1>1, InductiveCorrect, PTL

(* eval and sigchld_handler: no job outlives its process, so fork cannot    *)
(* return a pid that is listed.                                            *)
THEOREM NoGhostCorrect == Spec => []NoGhostJob
<1>1. Inductive => NoGhostJob
  BY DEF Inductive
<1> QED  BY <1>1, InductiveCorrect, PTL

(* addjob, called with what fork returned: no process is listed twice, so   *)
(* deletejob and sigchld_handler change the job they mean.                  *)
THEOREM PidListedOnceCorrect == Spec => []PidListedOnce
<1>1. Inductive => PidListedOnce
  BY DEF Inductive
<1> QED  BY <1>1, InductiveCorrect, PTL

(* addjob and deletejob: the number handed out next is larger than every    *)
(* listed one, unless numbering has wrapped at MAXJOBS.                     *)
THEOREM NextJidCorrect == Spec => []NextJidFree
<1>1. Inductive => NextJidFree
  BY DEF Inductive
<1> QED  BY <1>1, InductiveCorrect, PTL

(* do_bgfg and sigchld_handler: the list and the kernel agree on who is     *)
(* stopped, but for a report a handler has in hand.                         *)
THEOREM StoppedCorrect == Spec => []StoppedAgrees
<1>1. Inductive => StoppedAgrees
  BY DEF Inductive
<1> QED  BY <1>1, InductiveCorrect, PTL

(* eval, do_bgfg, waitfg and the handlers: whatever masks they saved and    *)
(* restored, ctrl-c and ctrl-z are not blocked at the prompt.               *)
THEOREM KeysWorkCorrect == Spec => []KeysWorkAtPrompt
<1>1. Inductive => KeysWorkAtPrompt
  BY DEF Inductive, MainLeavesKeysOpen, MainMask, KeysWorkAtPrompt
<1> QED  BY <1>1, InductiveCorrect, PTL

(* do_bgfg: the job pointer it holds while no signal but SIGCHLD is blocked *)
(* points to a listed job when it is used.                                  *)
THEOREM JobPointerCorrect == Spec => []JobPointerValid
<1>1. Inductive => JobPointerValid
  BY DEF Inductive
<1> QED  BY <1>1, InductiveCorrect, PTL

(* sigint_handler and sigtstp_handler signal the job main waits for.        *)
THEOREM KeysCorrect == Spec => []KeysHitTheWaitedJob
<1>1. Inductive => KeysHitTheWaitedJob
  BY DEF Inductive
<1> QED  BY <1>1, InductiveCorrect, PTL

(* sigchld_handler loses no report, although SIGCHLDs are merged.           *)
THEOREM ReportsCorrect == Spec => []NoLostReport
<1>1. Inductive => NoLostReport
  BY DEF Inductive
<1> QED  BY <1>1, InductiveCorrect, PTL

-----------------------------------------------------------------------------
(* The refinement.  The abstract state of a process is its slot's state.    *)

StateIsItsSlots ==
    PidListedOnce =>
        \A p \in Pids : /\ \A s \in Slots : jobs[s].pid = p => jobState[p] = jobs[s].state
                        /\ (\A s \in Slots : jobs[s].pid # p) => jobState[p] = "UNDEF"

LEMMA StateOfSlots == StateIsItsSlots
<1> SUFFICES ASSUME PidListedOnce, NEW p \in Pids
             PROVE  /\ \A s \in Slots : jobs[s].pid = p => jobState[p] = jobs[s].state
                    /\ (\A s \in Slots : jobs[s].pid # p) => jobState[p] = "UNDEF"
  BY DEF StateIsItsSlots
<1>1. jobState[p] = IF getjobpid(p) = 0 THEN "UNDEF" ELSE jobs[getjobpid(p)].state
  BY DEF jobState
<1>2. CASE getjobpid(p) = 0
  <2>1. \A s \in Slots : jobs[s].pid # p
    BY <1>2, GetjobpidProperties
  <2> QED  BY <1>1, <1>2, <2>1
<1>3. CASE getjobpid(p) # 0
  <2>1. getjobpid(p) \in Slots /\ jobs[getjobpid(p)].pid = p
    BY <1>3, GetjobpidProperties
  <2>2. \A s \in Slots : jobs[s].pid = p => s = getjobpid(p)
    BY <2>1 DEF PidListedOnce, Listed
  <2> QED  BY <1>1, <1>3, <2>1, <2>2
<1> QED  BY <1>2, <1>3

LEMMA StateOfSlotsAfter == StateIsItsSlots'
BY StateOfSlots, PTL

LEMMA JobStateOf ==
    ASSUME PidListedOnce, NEW p \in Pids
    PROVE  /\ \A s \in Slots : jobs[s].pid = p => jobState[p] = jobs[s].state
           /\ (\A s \in Slots : jobs[s].pid # p) => jobState[p] = "UNDEF"
BY StateOfSlots DEF StateIsItsSlots

LEMMA JobStateAfter ==
    ASSUME PidListedOnce', NEW p \in Pids
    PROVE  /\ \A s \in Slots : jobs'[s].pid = p => jobState'[p] = jobs'[s].state
           /\ (\A s \in Slots : jobs'[s].pid # p) => jobState'[p] = "UNDEF"
BY StateOfSlotsAfter DEF StateIsItsSlots

(* A step that changes one slot, before and after which the slot holds the  *)
(* entry of p or no process's, changes the abstract state of p alone.       *)
LEMMA OneSlotChanges ==
    ASSUME PidListedOnce, PidListedOnce', NEW p \in Pids, NEW u \in Slots,
           \A t \in Slots : t # u => jobs'[t] = jobs[t],
           jobs[u].pid \notin Pids \/ jobs[u].pid = p,
           jobs'[u].pid \notin Pids \/ jobs'[u].pid = p
    PROVE  jobState' = [jobState EXCEPT ![p] = jobState'[p]]
<1>1. ASSUME NEW q \in Pids, q # p PROVE jobState'[q] = jobState[q]
  <2>1. CASE \E s \in Slots : jobs[s].pid = q
    <3>1. PICK s \in Slots : jobs[s].pid = q
      BY <2>1
    <3>2. s # u /\ jobs'[s] = jobs[s]
      BY <1>1, <3>1
    <3>3. jobState[q] = jobs[s].state
      BY <3>1, JobStateOf
    <3>4. jobState'[q] = jobs'[s].state
      <4>1. \A t \in Slots : jobs'[t].pid = q => jobState'[q] = jobs'[t].state
        BY JobStateAfter
      <4> QED  BY <3>1, <3>2, <4>1
    <3> QED  BY <3>2, <3>3, <3>4
  <2>2. CASE \A s \in Slots : jobs[s].pid # q
    <3>1. \A s \in Slots : jobs'[s].pid # q
      BY <1>1, <2>2
    <3>2. jobState[q] = "UNDEF" /\ jobState'[q] = "UNDEF"
      BY <2>2, <3>1, JobStateOf, JobStateAfter
    <3> QED  BY <3>2
  <2> QED  BY <2>1, <2>2
<1>2. jobState = [q \in Pids |-> jobState[q]] /\ jobState' = [q \in Pids |-> jobState'[q]]
  BY DEF jobState
<1> HIDE DEF jobState
<1> QED  BY <1>1, <1>2

(* No job is in the foreground when main puts one there.                    *)
LEMMA NoForegroundInMain ==
    ASSUME Inductive, [Next]_vars, EvalAddsJob \/ BgFg
    PROVE  Abstract!NoForeground /\ \A s \in Slots : jobs[s].state # "FG"
<1> USE DEF Inductive
<1>1. \A s \in Slots : jobs[s].state # "FG"
  BY WaitGoesOn
<1>2. ASSUME NEW p \in Pids PROVE jobState[p] # "FG"
  <2>1. CASE \E s \in Slots : jobs[s].pid = p
    BY <1>1, <2>1, JobStateOf
  <2>2. CASE \A s \in Slots : jobs[s].pid # p
    BY <2>2, JobStateOf
  <2> QED  BY <2>1, <2>2
<1> QED  BY <1>1, <1>2 DEF Abstract!NoForeground

LEMMA LaunchStep ==
    ASSUME Inductive, Inductive', [Next]_vars, EvalAddsJob
    PROVE  UNCHANGED jobState \/ \E p \in Pids : Abstract!Launch(p)
<1> USE DEF Inductive
<1>1. CASE UNCHANGED jobs
  BY <1>1 DEF jobState, getjobpid
<1>2. CASE ~UNCHANGED jobs
  <2>1. /\ pid \in Pids
        /\ NewSlot \in Slots /\ jobs[NewSlot].pid = 0
        /\ \A t \in Slots : t # NewSlot => jobs'[t] = jobs[t]
        /\ jobs'[NewSlot].pid = pid
        /\ jobs'[NewSlot].state \in {"FG", "BG"}
    BY <1>2, EvalAddsJobProperties
  <2>2. \A s \in Slots : jobs[s].pid # pid
    BY <2>1 DEF NewPidUnlisted, EvalAddsJob, MainAt
  <2>3. jobState[pid] = "UNDEF"
    BY <2>1, <2>2, JobStateOf
  <2>4. jobState'[pid] = jobs'[NewSlot].state
    BY <2>1, JobStateAfter
  <2>5. jobState' = [jobState EXCEPT ![pid] = jobState'[pid]]
    BY <2>1, PidsAssumption, OneSlotChanges
  <2>6. Abstract!NoForeground
    BY NoForegroundInMain
  <2>7. Abstract!Launch(pid)
    BY <2>1, <2>3, <2>4, <2>5, <2>6 DEF Abstract!Launch
  <2> QED  BY <2>1, <2>7
<1> QED  BY <1>1, <1>2

LEMMA MoveStep ==
    ASSUME Inductive, Inductive', [Next]_vars, BgFg
    PROVE  UNCHANGED jobState \/ \E p \in Pids : Abstract!Foreground(p) \/ Abstract!Background(p)
<1> USE DEF Inductive
<1> DEFINE p == jobs[job].pid
<1>1. /\ job \in Slots
      /\ \A t \in Slots : t # job => jobs'[t] = jobs[t]
      /\ jobs'[job].pid = p
      /\ jobs'[job].state = IF cmd = "bg" THEN "BG" ELSE "FG"
  BY BgFgProperties
<1>2. p \in Pids
  BY DEF JobPointerValid, BgFg, MainAt
<1>3. jobState[p] = jobs[job].state
  BY <1>1, <1>2, JobStateOf
<1>4. jobState'[p] = jobs'[job].state
  BY <1>1, <1>2, JobStateAfter
<1>5. jobState' = [jobState EXCEPT ![p] = jobState'[p]]
  BY <1>1, <1>2, OneSlotChanges
<1>6. Abstract!NoForeground /\ jobs[job].state # "FG"
  BY <1>1, NoForegroundInMain
<1>7. jobs[job].state \in {"ST", "BG"}
  BY <1>1, <1>2, <1>6 DEF ListedHasState, Listed, TypeOK, JobListTypeOK, Job, JobStates
<1>8. CASE cmd = "bg" /\ jobs[job].state = "BG"
  <2>1. jobState' = [jobState EXCEPT ![p] = jobState[p]]
    BY <1>1, <1>3, <1>4, <1>5, <1>8
  <2>2. jobState = [q \in Pids |-> jobState[q]]
    BY DEF jobState
  <2> HIDE DEF jobState
  <2> QED  BY <2>1, <2>2
<1>9. CASE cmd = "bg" /\ jobs[job].state = "ST"
  BY <1>1, <1>2, <1>3, <1>4, <1>5, <1>9 DEF Abstract!Background
<1>10. CASE cmd # "bg"
  BY <1>1, <1>2, <1>3, <1>4, <1>5, <1>6, <1>7, <1>10 DEF Abstract!Foreground
<1> QED  BY <1>7, <1>8, <1>9, <1>10

LEMMA ReportStep ==
    ASSUME Inductive, Inductive', [Next]_vars, SigchldUpdates
    PROVE  UNCHANGED jobState \/ \E p \in Pids : Abstract!Stop(p) \/ Abstract!End(p)
<1> USE DEF Inductive
<1> DEFINE p == Last(stack).pid
           u == HandledSlot
<1>1. CASE UNCHANGED jobs
  BY <1>1 DEF jobState, getjobpid
<1>2. CASE ~UNCHANGED jobs
  <2>1. /\ p \in Pids /\ u \in Slots /\ jobs[u].pid = p
        /\ \A t \in Slots : t # u => jobs'[t] = jobs[t]
        /\ \/ jobs'[u] = clearjob
           \/ jobs'[u].pid = p /\ jobs'[u].state = "ST"
    BY <1>2, SigchldUpdatesProperties
  <2> HIDE DEF p, u
  <2>2. jobState[p] = jobs[u].state /\ jobs[u].state \in {"FG", "BG", "ST"}
    BY <2>1, JobStateOf DEF ListedHasState, Listed, TypeOK, JobListTypeOK, Job, JobStates
  <2>3. jobState' = [jobState EXCEPT ![p] = jobState'[p]]
    BY <2>1, PidsAssumption, OneSlotChanges DEF clearjob
  <2>4. CASE jobs'[u] = clearjob
    <3>1. \A t \in Slots : jobs'[t].pid # p
      BY <2>1, <2>4, PidsAssumption DEF clearjob, PidListedOnce, Listed
    <3>2. jobState'[p] = "UNDEF"
      BY <2>1, <3>1, JobStateAfter
    <3>3. Abstract!End(p)
      BY <2>2, <2>3, <3>2 DEF Abstract!End
    <3> QED  BY <2>1, <3>3
  <2>5. CASE jobs'[u].pid = p /\ jobs'[u].state = "ST"
    <3>1. jobState'[p] = "ST"
      BY <2>1, <2>5, JobStateAfter
    <3>2. CASE jobState[p] = "ST"
      <4>1. jobState = [q \in Pids |-> jobState[q]]
        BY DEF jobState
      <4> HIDE DEF jobState
      <4> QED  BY <2>3, <3>1, <3>2, <4>1
    <3>3. CASE jobState[p] # "ST"
      BY <2>1, <2>2, <2>3, <3>1, <3>3 DEF Abstract!Stop, Abstract!Running
    <3> QED  BY <3>2, <3>3
  <2> QED  BY <2>1, <2>4, <2>5
<1> QED  BY <1>1, <1>2

LEMMA StepsAreJobControl ==
    Inductive /\ Inductive' /\ [Next]_vars => [Abstract!Next]_jobState
<1> SUFFICES ASSUME Inductive, Inductive', [Next]_vars
             PROVE  Abstract!Next \/ UNCHANGED jobState
  OBVIOUS
<1>1. CASE UNCHANGED <<jobs, nextjid>>
  BY <1>1 DEF jobState, getjobpid
<1>2. CASE EvalAddsJob
  BY <1>2, LaunchStep DEF Abstract!Next
<1>3. CASE BgFg
  BY <1>3, MoveStep DEF Abstract!Next
<1>4. CASE SigchldUpdates
  BY <1>4, ReportStep DEF Abstract!Next
<1> QED  BY <1>1, <1>2, <1>3, <1>4, JobsWriters

LEMMA InitIsJobControl == Init => Abstract!Init
<1> SUFFICES ASSUME Init PROVE Abstract!Init
  OBVIOUS
<1>1. ASSUME NEW p \in Pids PROVE jobState[p] = "UNDEF"
  <2>1. \A s \in Slots : jobs[s].pid # p
    BY PidsAssumption DEF Init, initjobs, clearjob
  <2>2. PidListedOnce
    BY InitInductive DEF Inductive
  <2> QED  BY <2>1, <2>2, JobStateOf
<1>2. jobState = [p \in Pids |-> jobState[p]]
  BY DEF jobState
<1> HIDE DEF jobState
<1> QED  BY <1>1, <1>2 DEF Abstract!Init

(* main, eval, do_bgfg and sigchld_handler: every step of the shell moves   *)
(* one job along the transitions of tsh.c's comment on job states, with one *)
(* job in the foreground at a time, or moves none.                          *)
THEOREM ShellImplementsJobControl == Spec => ImplementsJobControl
BY InitIsJobControl, StepsAreJobControl, InductiveCorrect, PTL
   DEF Spec, ImplementsJobControl, Abstract!Spec
=============================================================================
