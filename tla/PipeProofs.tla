----------------------------- MODULE PipeProofs -----------------------------
(***************************************************************************)
(* Proofs about Pipe, for every size of words and memory and every         *)
(* program: the condition codes, the control logic, what the pipeline      *)
(* registers hold, and that a cycle does what an instruction of Y86 does   *)
(* or nothing.                                                             *)
(***************************************************************************)
EXTENDS PipeProperties, ISAProofs

-----------------------------------------------------------------------------
(* Subtraction wraps at most once. *)

LEMMA WrapOnce ==
    ASSUME NEW x \in Word, NEW y \in Word
    PROVE  /\ y - x >= Half => Wrap(y - x) = y - x - 2 * Half
           /\ y - x < -Half => Wrap(y - x) = y - x + 2 * Half
           /\ y - x >= -Half /\ y - x < Half => Wrap(y - x) = y - x
<1> DEFINE d == y - x   h == Half
<1>1. h \in Nat /\ h > 0 /\ x \in Int /\ y \in Int /\ d \in Int /\ -2 * h < d /\ d < 2 * h
  BY HalfAssumption, MemLenAssumption, WordBytesAssumption DEF Word
<1> HIDE DEF d, h
<1>2. ASSUME d >= h PROVE (d + h) % (2 * h) = d - h
  <2>1. d - h \in 0 .. 2 * h - 1 /\ d + h = (d - h) + 2 * h
    BY <1>1, <1>2
  <2> QED BY <1>1, <2>1
<1>3. ASSUME d < -h PROVE (d + h) % (2 * h) = d + 3 * h
  <2>1. d + 3 * h \in 0 .. 2 * h - 1 /\ d + h = (d + 3 * h) - 2 * h
    BY <1>1, <1>3
  <2> QED BY <1>1, <2>1
<1>4. d \in Word <=> d >= -h /\ d < h
  BY <1>1 DEF Word, h
<1> QED BY <1>1, <1>2, <1>3, <1>4 DEF Wrap, d, h

(* compute_cc and cond_holds of isa.c: after a subtraction the conditions  *)
(* compare the operands as integers, for words of every size.              *)
THEOREM SubtractionCompares == \A x, y \in Word : Compares(x, y)
<1> SUFFICES ASSUME NEW x \in Word, NEW y \in Word PROVE Compares(x, y)
  OBVIOUS
<1> DEFINE val == Wrap(y - x)
           of  == (x > 0) = (y < 0) /\ (val < 0) # (y < 0)
           flags == compute_cc(A_SUB, x, y)
<1>1. compute_alu(A_SUB, x, y) = val
  BY DEF compute_alu, A_SUB, A_ADD, A_AND, A_XOR
<1>2. /\ x \in Int /\ y \in Int /\ Half \in Nat /\ Half > 0
      /\ -Half <= x /\ x < Half /\ -Half <= y /\ y < Half
  BY HalfAssumption, MemLenAssumption, WordBytesAssumption DEF Word
<1>3. /\ y - x >= Half => val = y - x - 2 * Half
      /\ y - x < -Half => val = y - x + 2 * Half
      /\ y - x >= -Half /\ y - x < Half => val = y - x
  BY WrapOnce
<1> HIDE DEF val
<1>4. val \in Int
  BY <1>2, <1>3
<1>5. (val < 0) # of <=> y < x
  BY <1>2, <1>3, <1>4
<1>6. val = 0 <=> y = x
  BY <1>2, <1>3, <1>4
<1> DEFINE z == val = 0
           s == val < 0
           o == \/ A_SUB = A_ADD /\ (x < 0) = (y < 0) /\ (val < 0) # (x < 0)
                \/ A_SUB = A_SUB /\ (x > 0) = (y < 0) /\ (val < 0) # (y < 0)
<1>7. flags = [zf |-> z, sf |-> s, of |-> o]
  BY <1>1, Zenon DEF compute_cc
<1>8. o <=> of
  BY DEF A_SUB, A_ADD
<1>9. (flags.zf <=> y = x) /\ ((flags.sf # flags.of) <=> y < x)
  <2> HIDE DEF z, s, o, flags
  <2>1. flags.zf = z /\ flags.sf = s /\ flags.of = o
    BY <1>7
  <2>2. (z <=> y = x) /\ ((s # o) <=> y < x)
    BY <1>5, <1>6, <1>8 DEF z, s, o
  <2> QED BY <2>1, <2>2, Zenon
<1> HIDE DEF flags
<1>10. /\ cond_holds(flags, C_L)  <=> y < x
       /\ cond_holds(flags, C_LE) <=> y < x \/ y = x
       /\ cond_holds(flags, C_E)  <=> y = x
       /\ cond_holds(flags, C_NE) <=> y # x
       /\ cond_holds(flags, C_GE) <=> ~(y < x)
       /\ cond_holds(flags, C_G)  <=> ~(y < x) /\ y # x
  BY <1>9 DEF cond_holds, C_YES, C_L, C_LE, C_E, C_NE, C_GE, C_G
<1> QED BY <1>2, <1>10 DEF Compares, flags

-----------------------------------------------------------------------------
(* The control logic. *)

(* No combination of hazards makes pipe-full.hcl ask the decode register   *)
(* to stall and to bubble.                                                 *)
THEOREM ControlIsConsistent == Spec => []NoConflictingControl
<1>1. NoConflictingControl
  BY DEF NoConflictingControl, D_stall, D_bubble, LoadUse, Mispredicted, I_MRMOVQ, I_POPQ, I_JMP
<1> QED BY <1>1, PTL

(* The register file has the registers. *)
RegisterFile == reg = [id \in RegIds |-> reg[id]]

LEMMA SetRegister ==
    ASSUME NEW g, NEW d, NEW x, g = [id \in RegIds |-> g[id]]
    PROVE  /\ set_reg_val(g, d, x) = [id \in RegIds |-> set_reg_val(g, d, x)[id]]
           /\ \A id \in RegIds : set_reg_val(g, d, x)[id] = IF id = d THEN x ELSE g[id]
BY DEF set_reg_val, reg_valid, RegIds, REG_NONE

LEMMA WriteBack ==
    ASSUME NEW g, NEW dE, NEW vE, NEW dM, NEW vM, g = [id \in RegIds |-> g[id]]
    PROVE  /\ WrittenBack(g, dE, vE, dM, vM) = [id \in RegIds |-> WrittenBack(g, dE, vE, dM, vM)[id]]
           /\ \A id \in RegIds : WrittenBack(g, dE, vE, dM, vM)[id] =
                IF id = dM THEN vM ELSE IF id = dE THEN vE ELSE g[id]
<1> DEFINE h == set_reg_val(g, dE, vE)
<1>1. h = [id \in RegIds |-> h[id]] /\ \A id \in RegIds : h[id] = IF id = dE THEN vE ELSE g[id]
  BY SetRegister
<1> HIDE DEF h
<1>2. WrittenBack(g, dE, vE, dM, vM) = set_reg_val(h, dM, vM)
  BY DEF WrittenBack, h
<1> QED BY <1>1, <1>2, SetRegister

LEMMA ForwardedValue == RegisterFile => ForwardingIsCurrent
<1> SUFFICES ASSUME RegisterFile, NEW src \in RegIds \ {E.dstM}
             PROVE  LET afterW == WrittenBack(reg, W.dstE, W.valE, W.dstM, W.valM)
                        afterM == WrittenBack(afterW, M.dstE, M.valE, M.dstM, m_valM)
                        afterE == set_reg_val(afterM, e_dstE, e_valE)
                    IN  Forwarded(src) = afterE[src]
  BY DEF ForwardingIsCurrent
<1> DEFINE afterW == WrittenBack(reg, W.dstE, W.valE, W.dstM, W.valM)
           afterM == WrittenBack(afterW, M.dstE, M.valE, M.dstM, m_valM)
           afterE == set_reg_val(afterM, e_dstE, e_valE)
<1>1. /\ afterW = [id \in RegIds |-> afterW[id]]
      /\ afterW[src] = IF src = W.dstM THEN W.valM ELSE IF src = W.dstE THEN W.valE ELSE reg[src]
  BY WriteBack DEF RegisterFile
<1> HIDE DEF afterW
<1>2. /\ afterM = [id \in RegIds |-> afterM[id]]
      /\ afterM[src] = IF src = M.dstM THEN m_valM ELSE IF src = M.dstE THEN M.valE ELSE afterW[src]
  BY <1>1, WriteBack
<1> HIDE DEF afterM
<1>3. afterE[src] = IF src = e_dstE THEN e_valE ELSE afterM[src]
  BY <1>2, SetRegister
<1>4. get_reg_val(reg, src) = reg[src]
  BY DEF get_reg_val, reg_valid
<1> QED BY <1>1, <1>2, <1>3, <1>4 DEF Forwarded, afterE, afterM, afterW

(* Forwarding gives decode the value that the instructions ahead of it     *)
(* will have left in the register, in pipe-full.hcl's order of sources.    *)
THEOREM ForwardingIsRight == Spec => []ForwardingIsCurrent
<1>1. Init => RegisterFile
  BY DEF Init, sim_reset, RegisterFile
<1>2. RegisterFile /\ [Cycle]_vars => RegisterFile'
  <2> SUFFICES ASSUME RegisterFile, [Cycle]_vars PROVE RegisterFile'
    OBVIOUS
  <2>1. CASE reg' = reg
    BY <2>1 DEF RegisterFile
  <2>2. CASE reg' = WrittenBack(reg, W.dstE, W.valE, W.dstM, W.valM)
    BY <2>2, WriteBack DEF RegisterFile
  <2> QED BY <2>1, <2>2 DEF vars, Cycle, sim_step_pipe, update_state
<1> QED BY <1>1, <1>2, ForwardedValue, PTL DEF Spec

-----------------------------------------------------------------------------
(* A cycle. *)

LEMMA Codes ==
    /\ I_HALT = 0 /\ I_NOP = 1 /\ I_RRMOVQ = 2 /\ I_IRMOVQ = 3 /\ I_RMMOVQ = 4 /\ I_MRMOVQ = 5
    /\ I_ALU = 6 /\ I_JMP = 7 /\ I_CALL = 8 /\ I_RET = 9 /\ I_PUSHQ = 10 /\ I_POPQ = 11 /\ I_IADDQ = 12
    /\ REG_NONE = 15 /\ REG_RSP = 4
BY DEF I_HALT, I_NOP, I_RRMOVQ, I_IRMOVQ, I_RMMOVQ, I_MRMOVQ, I_ALU, I_JMP, I_CALL, I_RET,
       I_PUSHQ, I_POPQ, I_IADDQ, REG_NONE, REG_RSP

(* No cycle begins with a failed instruction in W. *)
LEMMA NotYetFailed ==
    ASSUME Stat = "AOK"
    PROVE  W.stat \in {"AOK", "BUB"} /\ W.stat \notin Exceptions
BY DEF Stat, Exceptions

(* What the control logic does to each pipeline register. *)
LEMMA PipesMove ==
    ASSUME Cycle
    PROVE  /\ F' = IF F_stall THEN F ELSE f_predPC
           /\ D' = IF D_stall THEN D ELSE IF D_bubble THEN bubble_D ELSE next_D
           /\ E' = IF E_bubble THEN bubble_E ELSE next_E
           /\ M' = IF m_stat \in Exceptions THEN bubble_M ELSE next_M
           /\ W' = next_W
           /\ reg' = WrittenBack(reg, W.dstE, W.valE, W.dstM, W.valM)
           /\ mem' = isaMem
           /\ cc' = e_cc /\ cc_in' = e_cc
<1>1. /\ Stat = "AOK" /\ update_pipes /\ update_state(ahead_mem < 3, ahead_ex < 3)
  BY DEF Cycle, sim_step_pipe
<1>2. W.stat \notin Exceptions
  BY <1>1, NotYetFailed
<1>3. ahead_mem < 3 /\ ahead_ex < 3
  BY DEF ahead_mem, ahead_ex
<1>4. ~(D_stall /\ D_bubble)
  BY DEF D_stall, D_bubble, LoadUse, Mispredicted, I_MRMOVQ, I_POPQ, I_JMP
<1>5. D' = IF D_stall THEN D ELSE IF D_bubble THEN bubble_D ELSE next_D
  BY <1>1, <1>4 DEF update_pipes, pipe_cntl, Updated
<1>6. /\ E' = IF E_bubble THEN bubble_E ELSE next_E
      /\ M' = IF M_bubble THEN bubble_M ELSE next_M
      /\ W' = IF W_stall THEN W ELSE next_W
  BY <1>1 DEF update_pipes, pipe_cntl, Updated
<1>7. F' = IF F_stall THEN F ELSE f_predPC
  BY <1>1 DEF update_pipes
<1>8. /\ reg' = WrittenBack(reg, W.dstE, W.valE, W.dstM, W.valM)
      /\ mem' = isaMem /\ cc' = e_cc /\ cc_in' = e_cc
  BY <1>1, <1>3 DEF update_state, isaMem
<1> QED BY <1>2, <1>5, <1>6, <1>7, <1>8 DEF M_bubble, Failing, W_stall

(* The fields of what moves on. *)
LEMMA Fields ==
    /\ next_D.stat # "BUB" /\ next_D.pc = f_pc
    /\ next_E.stat = D.stat /\ next_E.icode = D.icode /\ next_E.pc = D.pc
    /\ next_E.dstE = dstE(D.icode, D.rB) /\ next_E.dstM = dstM(D.icode, D.rA)
    /\ next_M.stat = E.stat /\ next_M.icode = E.icode /\ next_M.pc = E.pc /\ next_M.Cnd = e_Cnd
    /\ next_M.dstE = e_dstE /\ next_M.dstM = E.dstM /\ next_M.valE = e_valE /\ next_M.valA = E.valA
    /\ next_W.stat = m_stat /\ next_W.icode = M.icode /\ next_W.pc = M.pc
    /\ next_W.dstE = M.dstE /\ next_W.dstM = M.dstM /\ next_W.valE = M.valE /\ next_W.valM = m_valM
<1>1. next_D.stat # "BUB" /\ next_D.pc = f_pc
  BY DEF next_D, f_stat
<1> QED BY <1>1 DEF next_E, next_M, next_W

-----------------------------------------------------------------------------
(* Bubbles. *)

LEMMA BubblesStep ==
    ASSUME BubblesAreNops, Cycle
    PROVE  BubblesAreNops'
<1> USE Codes
<1>1. D'.stat = "BUB" => D'.icode = I_NOP
  BY PipesMove, Fields DEF BubblesAreNops, bubble_D
<1>2. /\ E'.stat = "BUB" => E'.icode = I_NOP /\ E'.dstE = REG_NONE /\ E'.dstM = REG_NONE
      /\ E'.dstM # REG_NONE => E'.icode \in {I_MRMOVQ, I_POPQ}
  BY PipesMove, Fields DEF BubblesAreNops, bubble_E, dstE, dstM
<1>3. M'.stat = "BUB" => M'.icode = I_NOP /\ M'.dstE = REG_NONE /\ M'.dstM = REG_NONE
  BY PipesMove, Fields DEF BubblesAreNops, bubble_M, e_dstE
<1>4. W'.stat = "BUB" => W'.icode = I_NOP /\ W'.dstE = REG_NONE /\ W'.dstM = REG_NONE
  BY PipesMove, Fields DEF BubblesAreNops, m_stat, dmem_error
<1> QED BY <1>1, <1>2, <1>3, <1>4 DEF BubblesAreNops

(* When nothing stalls or bubbles decode. *)
LEMMA FollowStep ==
    ASSUME BubblesAreNops, BubblesFollow, Cycle
    PROVE  BubblesFollow'
<1> USE Codes
<1>1. /\ E.stat = "BUB" => E.icode = I_NOP
      /\ D.stat = "BUB" => D.icode = I_NOP
      /\ M.stat = "BUB" => M.icode = I_NOP
  BY DEF BubblesAreNops
<1>2. /\ bubble_D.stat = "BUB" /\ bubble_E.stat = "BUB" /\ bubble_E.icode = I_NOP
      /\ bubble_M.icode = I_NOP /\ bubble_M.stat = "BUB"
  BY DEF bubble_D, bubble_E, bubble_M
<1>3. E'.icode = I_RET => D'.stat = "BUB"
  <2> SUFFICES ASSUME E'.icode = I_RET PROVE D'.stat = "BUB"
    OBVIOUS
  <2>1. ~E_bubble /\ D.icode = I_RET
    BY <1>2, PipesMove, Fields
  <2>2. ~D_stall /\ D_bubble
    BY <2>1 DEF E_bubble, D_stall, D_bubble, Returning
  <2> QED BY <1>2, <2>2, PipesMove
<1>4. M'.icode = I_RET => D'.stat = "BUB" /\ E'.stat = "BUB"
  <2> SUFFICES ASSUME M'.icode = I_RET PROVE D'.stat = "BUB" /\ E'.stat = "BUB"
    OBVIOUS
  <2>1. E.icode = I_RET
    BY <1>2, PipesMove, Fields
  <2>2. ~D_stall /\ D_bubble /\ D.stat = "BUB"
    BY <2>1 DEF D_stall, D_bubble, Returning, LoadUse, BubblesFollow
  <2> QED BY <1>2, <2>2, PipesMove, Fields
<1>5. M'.icode = I_JMP /\ ~M'.Cnd => D'.stat = "BUB" /\ E'.stat = "BUB"
  <2> SUFFICES ASSUME M'.icode = I_JMP, ~M'.Cnd PROVE D'.stat = "BUB" /\ E'.stat = "BUB"
    OBVIOUS
  <2>1. Mispredicted
    BY <1>2, PipesMove, Fields DEF Mispredicted
  <2>2. D_bubble /\ E_bubble /\ ~D_stall
    BY <2>1 DEF D_bubble, E_bubble, D_stall, LoadUse, Mispredicted
  <2> QED BY <1>2, <2>2, PipesMove
<1>6. W'.icode = I_RET => D'.stat = "BUB" /\ E'.stat = "BUB" /\ M'.stat = "BUB"
  <2> SUFFICES ASSUME W'.icode = I_RET PROVE D'.stat = "BUB" /\ E'.stat = "BUB" /\ M'.stat = "BUB"
    OBVIOUS
  <2>1. M.icode = I_RET /\ D.stat = "BUB" /\ E.stat = "BUB"
    BY PipesMove, Fields DEF BubblesFollow
  <2>2. ~D_stall /\ D_bubble
    BY <1>1, <2>1 DEF D_stall, D_bubble, Returning, LoadUse
  <2> QED BY <1>2, <2>1, <2>2, PipesMove, Fields
<1>7. E'.stat # "BUB" /\ E'.icode # I_RET => D'.stat # "BUB"
  <2> SUFFICES ASSUME E'.stat # "BUB", E'.icode # I_RET PROVE D'.stat # "BUB"
    OBVIOUS
  <2>1. ~E_bubble /\ D.stat # "BUB" /\ D.icode # I_RET
    BY <1>2, PipesMove, Fields
  <2>2. E.icode # I_RET /\ M.icode # I_RET
    BY <2>1 DEF BubblesFollow
  <2>3. ~D_stall /\ ~D_bubble
    BY <2>1, <2>2 DEF E_bubble, D_stall, D_bubble, Returning
  <2> QED BY <2>3, PipesMove, Fields
<1> QED BY <1>3, <1>4, <1>5, <1>6, <1>7 DEF BubblesFollow

-----------------------------------------------------------------------------
(* Waiting. *)

LEMMA IdleStep ==
    ASSUME BubblesAreNops, BubblesFollow, IdleBounds, Cycle,
           idle' = IF W'.stat = "BUB" THEN idle + 1 ELSE 0
    PROVE  IdleBounds'
<1> USE Codes
<1>1. CASE W'.stat # "BUB"
  BY <1>1 DEF IdleBounds
<1>2. CASE W'.stat = "BUB"
  <2>1. M.stat = "BUB" /\ m_stat \notin Exceptions /\ M' = next_M /\ idle' = idle + 1
    BY <1>2, PipesMove, Fields DEF m_stat, Exceptions
  <2>2. CASE E.stat # "BUB"
    <3>1. M'.stat # "BUB" /\ idle' \in 0 .. 3
      BY <2>1, <2>2, Fields DEF IdleBounds
    <3> QED BY <3>1 DEF IdleBounds
  <2>3. CASE E.stat = "BUB" /\ D.stat # "BUB"
    <3>1. ~E_bubble
      BY <2>3 DEF BubblesAreNops, E_bubble, Mispredicted, LoadUse
    <3>2. E'.stat # "BUB" /\ idle' \in 0 .. 2
      BY <2>1, <2>3, <3>1, PipesMove, Fields DEF IdleBounds
    <3> QED BY <3>2 DEF IdleBounds
  <2>4. CASE E.stat = "BUB" /\ D.stat = "BUB"
    <3>1. ~D_stall /\ ~D_bubble
      BY <2>1, <2>4 DEF BubblesAreNops, D_stall, D_bubble, Mispredicted, LoadUse, Returning
    <3>2. D'.stat # "BUB" /\ idle' \in 0 .. 1
      BY <2>1, <2>4, <3>1, PipesMove, Fields DEF IdleBounds
    <3> QED BY <3>2 DEF IdleBounds
  <2> QED BY <2>2, <2>3, <2>4
<1> QED BY <1>1, <1>2

(* What the invariant says of bubbles, in the first cycle. *)
LEMMA BubblesInit == PInit => BubblesAreNops /\ BubblesFollow /\ IdleBounds
<1> SUFFICES ASSUME PInit PROVE BubblesAreNops /\ BubblesFollow /\ IdleBounds
  OBVIOUS
<1>1. D = bubble_D /\ E = bubble_E /\ M = bubble_M /\ W = bubble_W /\ idle = 0
  BY DEF PInit, PReset, sim_reset
<1> QED BY <1>1, Codes DEF bubble_D, bubble_E, bubble_M, bubble_W, BubblesAreNops, BubblesFollow, IdleBounds

(* Stalls and bubbles end, whatever the program: after an instruction, at  *)
(* most four cycles go by without one in write-back (sim_run_pipe's limit).*)
THEOREM StallsEnd == PSpec => []StallsAreBounded
<1> DEFINE Bubbles == BubblesAreNops /\ BubblesFollow /\ IdleBounds
<1>1. PInit => Bubbles
  BY BubblesInit
<1>2. Bubbles /\ [SupportedCycle]_pvars => Bubbles'
  <2> SUFFICES ASSUME Bubbles, [SupportedCycle]_pvars PROVE Bubbles'
    OBVIOUS
  <2>1. CASE SupportedCycle
    BY <2>1, BubblesStep, FollowStep, IdleStep DEF SupportedCycle
  <2>2. CASE UNCHANGED pvars
    BY <2>2 DEF pvars, BubblesAreNops, BubblesFollow, IdleBounds
  <2> QED BY <2>1, <2>2
<1>3. Bubbles => StallsAreBounded
  BY DEF IdleBounds, StallsAreBounded
<1> QED BY <1>1, <1>2, <1>3, PTL DEF PSpec

-----------------------------------------------------------------------------
(* Types. *)

LEMMA ForwardedType ==
    ASSUME PipeTypeOK, m_valM \in Word, e_valE \in Word, NEW src
    PROVE  Forwarded(src) \in Word
BY RegType DEF PipeTypeOK, Forwarded

(* The values of the execute stage. *)
LEMMA ExecuteTypes ==
    ASSUME PipeTypeOK, MoreTypes
    PROVE  /\ e_A \in Word /\ e_B \in Word /\ e_fun \in Int /\ e_valE \in Word /\ e_cc \in CondCodes
           /\ e_dstE \in 0 .. 15 /\ m_addr \in Word
<1>1. e_A \in Word /\ e_B \in Word
  BY Bounds DEF PipeTypeOK, e_A, aluA, e_B, aluB
<1>2. e_fun \in Int
  BY DEF MoreTypes, e_fun, alufun, A_ADD
<1>3. e_valE \in Word /\ e_cc \in CondCodes
  BY <1>1, <1>2, AluType, CCType DEF PipeTypeOK, e_valE, e_cc
<1>4. e_dstE \in 0 .. 15
  BY DEF PipeTypeOK, e_dstE, REG_NONE
<1>5. m_addr \in Word
  BY Bounds DEF PipeTypeOK, m_addr, mem_addr
<1> QED BY <1>1, <1>2, <1>3, <1>4, <1>5

(* What memory gives. *)
LEMMA MemoryTypes ==
    ASSUME PipeTypeOK, MoreTypes, MIsApart
    PROVE  m_valM \in Word /\ isaMem \in Memory
<1>1. m_addr \in Word /\ m_addr \in Int /\ mem \in Memory /\ 0 \in Word
  BY ExecuteTypes, Bounds DEF PipeTypeOK
<1>2. m_valM \in Word
  <2>1. CASE mem_read(M.icode)
    BY <1>1, <2>1, WordType DEF m_valM, MIsApart
  <2>2. CASE ~mem_read(M.icode)
    BY <1>1, <2>2 DEF m_valM
  <2> QED BY <2>1, <2>2
<1>3. isaMem \in Memory
  BY <1>1, SetWordType DEF isaMem, PipeTypeOK
<1> QED BY <1>2, <1>3

LEMMA FetchedTypes ==
    ASSUME PipeTypeOK, MoreTypes
    PROVE  /\ f_pc \in Int /\ f_predPC \in Int
           /\ next_D.icode \in 0 .. 15 /\ next_D.ifun \in 0 .. 15 /\ next_D.rA \in 0 .. 15
           /\ next_D.rB \in 0 .. 15 /\ next_D.valC \in Word /\ next_D.valP \in Int
           /\ next_D.icode \in {I_JMP, I_CALL} => next_D.valP \in Word
           /\ next_D.stat \in {"ADR", "INS", "HLT", "AOK"}
<1>1. f_pc \in Int
  BY Bounds DEF PipeTypeOK, f_pc
<1>2. mem \in Memory /\ imem_error \in BOOLEAN /\ (~imem_error => ByteOK(f_pc))
  BY DEF PipeTypeOK, imem_error, ByteOK
<1>3. LET i == f
      IN  /\ i.icode \in 0 .. 15 /\ i.ifun \in 0 .. 15 /\ i.rA \in 0 .. 15 /\ i.rB \in 0 .. 15
          /\ i.valC \in Word /\ i.valP \in Int
          /\ imem_error => i.icode = I_NOP
          /\ ~imem_error => i.valP \in Word
  BY <1>1, <1>2, FetchTypes DEF f
<1>4. f_predPC \in Int
  BY <1>3, Bounds DEF f_predPC
<1>5. next_D.stat \in {"ADR", "INS", "HLT", "AOK"}
  BY DEF next_D, f_stat
<1> QED BY <1>1, <1>3, <1>4, <1>5, Codes DEF next_D

(* The types after a cycle. *)
LEMMA TypeStep ==
    ASSUME PipeTypeOK, MoreTypes, MIsApart, Cycle
    PROVE  PipeTypeOK' /\ MoreTypes'
<1> USE Codes
<1>1. /\ e_valE \in Word /\ e_cc \in CondCodes /\ e_dstE \in 0 .. 15
      /\ m_valM \in Word /\ isaMem \in Memory
  BY ExecuteTypes, MemoryTypes
<1>2. /\ F' \in Int /\ cc' \in CondCodes /\ cc_in' \in CondCodes /\ mem' \in Memory
  BY <1>1, PipesMove, FetchedTypes DEF PipeTypeOK
<1>3. reg' \in [RegIds -> Word]
  <2>1. reg' = set_reg_val(set_reg_val(reg, W.dstE, W.valE), W.dstM, W.valM)
    BY PipesMove DEF WrittenBack
  <2>2. reg \in [RegIds -> Word] /\ W.valE \in Word /\ W.valM \in Word
    BY DEF PipeTypeOK
  <2> QED BY <2>1, <2>2, SetRegType
<1>4. /\ D'.icode \in 0 .. 15 /\ D'.ifun \in 0 .. 15 /\ D'.rA \in 0 .. 15 /\ D'.rB \in 0 .. 15
      /\ D'.valC \in Word /\ D'.valP \in Int /\ D'.pc \in Int
      /\ D'.icode \in {I_JMP, I_CALL} => D'.valP \in Word
      /\ D'.stat \in Exceptions \cup {"AOK", "BUB"}
  <2>1. CASE D' = D
    BY <2>1 DEF PipeTypeOK, MoreTypes
  <2>2. CASE D' = bubble_D
    BY <2>2, Bounds DEF bubble_D
  <2>3. CASE D' = next_D
    BY <2>3, FetchedTypes, Fields DEF Exceptions
  <2> QED BY <2>1, <2>2, <2>3, PipesMove
<1>5. /\ E'.icode \in 0 .. 15 /\ E'.ifun \in 0 .. 15 /\ E'.dstE \in 0 .. 15 /\ E'.dstM \in 0 .. 15
      /\ E'.valC \in Word /\ E'.valA \in Word /\ E'.valB \in Word /\ E'.pc \in Int
      /\ E'.stat \in Exceptions \cup {"AOK", "BUB"}
  <2>1. CASE E' = bubble_E
    BY <2>1, Bounds DEF bubble_E
  <2>2. CASE E' = next_E
    <3>1. d_valA \in Word /\ d_valB \in Word
      BY <1>1, ForwardedType DEF d_valA, d_valB, MoreTypes
    <3>2. dstE(D.icode, D.rB) \in 0 .. 15 /\ dstM(D.icode, D.rA) \in 0 .. 15
      BY DEF dstE, dstM, PipeTypeOK
    <3> QED BY <2>2, <3>1, <3>2 DEF next_E, PipeTypeOK, MoreTypes
  <2> QED BY <2>1, <2>2, PipesMove
<1>6. /\ M'.icode \in 0 .. 15 /\ M'.dstE \in 0 .. 15 /\ M'.dstM \in 0 .. 15
      /\ M'.valE \in Word /\ M'.valA \in Word /\ M'.pc \in Int
      /\ M'.stat \in Exceptions \cup {"AOK", "BUB"}
  <2>1. CASE M' = bubble_M
    BY <2>1, Bounds DEF bubble_M
  <2>2. CASE M' = next_M
    BY <1>1, <2>2 DEF next_M, PipeTypeOK, MoreTypes
  <2> QED BY <2>1, <2>2, PipesMove
<1>7. /\ W'.icode \in 0 .. 15 /\ W'.dstE \in 0 .. 15 /\ W'.dstM \in 0 .. 15
      /\ W'.valE \in Word /\ W'.valM \in Word /\ W'.pc \in Int
      /\ W'.stat \in Exceptions \cup {"AOK", "BUB"}
  <2>1. m_stat \in Exceptions \cup {"AOK", "BUB"}
    BY DEF m_stat, Exceptions, PipeTypeOK
  <2> QED BY <1>1, <2>1, PipesMove DEF next_W, PipeTypeOK, MoreTypes
<1> QED BY <1>2, <1>3, <1>4, <1>5, <1>6, <1>7 DEF PipeTypeOK, MoreTypes

-----------------------------------------------------------------------------
(* The operators of the instruction set and of the processor are the same. *)

LEMMA SameOperators ==
    /\ Arch!Word = Word /\ Arch!Byte = Byte /\ Arch!Memory = Memory
    /\ \A x : Arch!ByteOK(x) <=> ByteOK(x)
    /\ \A x : Arch!WordOK(x) <=> WordOK(x)
    /\ \A x : Arch!Wrap(x) = Wrap(x)
    /\ \A x : Arch!reg_valid(x) <=> reg_valid(x)
    /\ \A x, y : Arch!get_reg_val(x, y) = get_reg_val(x, y)
    /\ \A x, y, z : Arch!set_reg_val(x, y, z) = set_reg_val(x, y, z)
    /\ \A x, y, z : Arch!get_byte_val(x, y, z) = get_byte_val(x, y, z)
    /\ \A x, y, z : Arch!get_word_val(x, y, z) = get_word_val(x, y, z)
    /\ \A x, y, z : Arch!set_word_val(x, y, z) = set_word_val(x, y, z)
    /\ \A x, y, z : Arch!compute_alu(x, y, z) = compute_alu(x, y, z)
    /\ \A x, y, z : Arch!compute_cc(x, y, z) = compute_cc(x, y, z)
    /\ \A x, y : Arch!cond_holds(x, y) <=> cond_holds(x, y)
<1>1. Arch!Word = Word /\ Arch!Byte = Byte /\ Arch!Memory = Memory
  BY DEF Arch!Word, Word, Arch!Byte, Byte, Arch!Memory, Memory
<1>2. \A x : Arch!ByteOK(x) <=> ByteOK(x)
  BY DEF Arch!ByteOK, ByteOK
<1>3. \A x : Arch!Wrap(x) = Wrap(x)
  BY <1>1 DEF Arch!Wrap, Wrap
<1>4. \A x : Arch!WordOK(x) <=> WordOK(x)
  BY <1>3 DEF Arch!WordOK, WordOK
<1>5. \A x : Arch!reg_valid(x) <=> reg_valid(x)
  BY DEF Arch!reg_valid, reg_valid, Arch!RegIds, RegIds, Arch!REG_NONE, REG_NONE
<1>6. /\ \A x, y : Arch!get_reg_val(x, y) = get_reg_val(x, y)
      /\ \A x, y, z : Arch!set_reg_val(x, y, z) = set_reg_val(x, y, z)
  BY <1>5 DEF Arch!get_reg_val, get_reg_val, Arch!set_reg_val, set_reg_val
<1>7. \A x, y, z : Arch!get_byte_val(x, y, z) = get_byte_val(x, y, z)
  BY <1>2 DEF Arch!get_byte_val, get_byte_val
<1>8. /\ \A x, y, z : Arch!get_word_val(x, y, z) = get_word_val(x, y, z)
      /\ \A x, y, z : Arch!set_word_val(x, y, z) = set_word_val(x, y, z)
  BY <1>4 DEF Arch!get_word_val, get_word_val, Arch!WordAt, WordAt, Arch!set_word_val, set_word_val
<1>9. \A x, y, z : Arch!compute_alu(x, y, z) = compute_alu(x, y, z)
  BY <1>3 DEF Arch!compute_alu, compute_alu, Arch!A_ADD, A_ADD, Arch!A_SUB, A_SUB,
              Arch!A_AND, A_AND, Arch!A_XOR, A_XOR
<1>10. \A x, y, z : Arch!compute_cc(x, y, z) = compute_cc(x, y, z)
  <2> TAKE x, y, z
  <2>1. Arch!compute_alu(x, y, z) = compute_alu(x, y, z)
    BY <1>9
  <2>2. Arch!A_ADD = A_ADD /\ Arch!A_SUB = A_SUB
    BY DEF Arch!A_ADD, A_ADD, Arch!A_SUB, A_SUB
  <2> QED BY <2>1, <2>2, Zenon DEF Arch!compute_cc, compute_cc
<1>11. \A x, y : Arch!cond_holds(x, y) <=> cond_holds(x, y)
  BY DEF Arch!cond_holds, cond_holds, Arch!C_YES, C_YES, Arch!C_LE, C_LE, Arch!C_L, C_L,
         Arch!C_E, C_E, Arch!C_NE, C_NE, Arch!C_GE, C_GE, Arch!C_G, C_G
<1> QED BY <1>1, <1>2, <1>3, <1>4, <1>5, <1>6, <1>7, <1>8, <1>9, <1>10, <1>11

-----------------------------------------------------------------------------
(* The program does not change. *)

(* Two memories that hold the same program give the same instructions.     *)
LEMMA SameProgram ==
    ASSUME NEW mm \in Memory, NEW nn \in Memory, \A a \in 0 .. ProgLen - 1 : mm[a] = nn[a],
           NEW at \in Int, InProgram(at)
    PROVE  Fetched(mm, at, ~ByteOK(at)) = Fetched(nn, at, ~ByteOK(at))
<1>1. CASE ~ByteOK(at)
  <2>1. ~need_regids(I_NOP) /\ ~need_valC(I_NOP) /\ (16 * I_NOP) \div 16 = I_NOP
    BY Codes DEF need_regids, need_valC
  <2> QED BY <1>1, <2>1 DEF Fetched
<1>2. CASE ByteOK(at)
  <2>1. /\ at >= 0 /\ at + WordBytes + 1 < ProgLen /\ ProgLen \in Int /\ WordBytes \in Nat
        /\ ProgLen <= MemLen /\ MemLen \in Int
    BY <1>2, ReachAssumption, WordBytesAssumption, MemLenAssumption DEF InProgram, ByteOK
  <2>2. \A x : /\ get_byte_val(mm, at, x) = get_byte_val(nn, at, x)
               /\ get_byte_val(mm, at + 1, x) = get_byte_val(nn, at + 1, x)
    <3>1. mm[at] = nn[at] /\ mm[at + 1] = nn[at + 1]
      <4>1. at \in 0 .. ProgLen - 1 /\ at + 1 \in 0 .. ProgLen - 1
        BY <2>1
      <4> QED BY <4>1
    <3> QED BY <3>1 DEF get_byte_val
  <2>3. ASSUME NEW j \in {at + 1, at + 2}, NEW x
        PROVE  get_word_val(mm, j, x) = get_word_val(nn, j, x)
    <3>1. \A k \in 0 .. WordBytes - 1 : j + k \in 0 .. ProgLen - 1
      BY <2>1
    <3>2. [k \in 0 .. WordBytes - 1 |-> mm[j + k]] = [k \in 0 .. WordBytes - 1 |-> nn[j + k]]
      BY <3>1
    <3> QED BY <3>2 DEF get_word_val, WordAt
  <2> QED BY <2>2, <2>3 DEF Fetched
<1> QED BY <1>1, <1>2

(* What M writes leaves the program alone. *)
LEMMA ProgramStays ==
    ASSUME PipeTypeOK, MoreTypes, MIsApart
    PROVE  \A a \in 0 .. ProgLen - 1 : isaMem[a] = mem[a]
<1> SUFFICES ASSUME NEW a \in 0 .. ProgLen - 1 PROVE isaMem[a] = mem[a]
  OBVIOUS
<1>1. /\ a \in Int /\ a < ProgLen /\ m_addr \in Int /\ mem \in Memory /\ a \in 0 .. MemLen - 1
      /\ ProgLen \in Int
  <2>1. ProgLen \in Int /\ MemLen \in Int /\ ProgLen <= MemLen
    BY ReachAssumption, MemLenAssumption
  <2>2. a \in Int /\ a < ProgLen /\ a \in 0 .. MemLen - 1
    BY <2>1
  <2>3. m_addr \in Int /\ mem \in Memory
    BY ExecuteTypes, Bounds DEF PipeTypeOK
  <2> QED BY <2>1, <2>2, <2>3
<1>2. CASE mem_write(M.icode) /\ WordOK(m_addr)
  <2>1. a \notin m_addr .. m_addr + WordBytes - 1
    BY <1>1, <1>2 DEF MIsApart
  <2> QED BY <1>1, <1>2, <2>1 DEF isaMem, set_word_val, Memory
<1>3. CASE ~(mem_write(M.icode) /\ WordOK(m_addr))
  BY <1>3 DEF isaMem, set_word_val
<1> QED BY <1>2, <1>3

LEMMA InstructionStays ==
    ASSUME PipeTypeOK, MoreTypes, MIsApart, Cycle, NEW at \in Int, InProgram(at)
    PROVE  /\ InstructionAt(isaMem, at) = InstructionAt(mem, at)
           /\ InstructionAt(mem', at) = InstructionAt(mem, at)
<1>1. mem \in Memory /\ isaMem \in Memory /\ mem' = isaMem
  BY MemoryTypes, PipesMove DEF PipeTypeOK
<1>2. Fetched(isaMem, at, ~ByteOK(at)) = Fetched(mem, at, ~ByteOK(at))
  BY <1>1, ProgramStays, SameProgram
<1> QED BY <1>1, <1>2 DEF InstructionAt

(* Fetch finds the instruction that is there. *)
LEMMA FetchIsRight ==
    ASSUME f_pc \in Int, InProgram(f_pc)
    PROVE  next_D = InstructionAt(mem, f_pc)
<1>1. imem_error <=> ~ByteOK(f_pc)
  BY ReachAssumption, MemLenAssumption DEF imem_error, InProgram, ByteOK
<1>2. f = Fetched(mem, f_pc, ~ByteOK(f_pc))
  BY <1>1 DEF f, imem_error
<1> QED BY <1>1, <1>2 DEF next_D, f_stat, InstructionAt

-----------------------------------------------------------------------------
(* Decode and execute hold what they should. *)

(* What fetch predicts is kept with the instruction it belongs to.         *)
LEMMA DStep ==
    ASSUME PipeTypeOK, MoreTypes, MIsApart, BubblesAreNops, BubblesFollow, DIsFetched, Cycle
    PROVE  DIsFetched'
<1> SUFFICES ASSUME D'.stat # "BUB"
             PROVE  /\ InProgram(D'.pc) => D' = InstructionAt(mem', D'.pc)
                    /\ D'.icode # I_RET => F' = Predicted(D')
  BY DEF DIsFetched, InProgram, Predicted, InstructionAt
<1>1. CASE D_stall
  <2>1. D' = D /\ F' = F /\ D.pc \in Int
    BY <1>1, PipesMove DEF D_stall, F_stall, MoreTypes
  <2>2. InProgram(D.pc) => InstructionAt(mem', D.pc) = InstructionAt(mem, D.pc)
    BY <2>1, InstructionStays
  <2> QED BY <2>1, <2>2 DEF DIsFetched
<1>2. CASE ~D_stall
  <2>1. ~D_bubble /\ D' = next_D /\ F' = f_predPC
    BY <1>2, PipesMove DEF bubble_D, D_stall, D_bubble, F_stall
  <2>2. D'.pc = f_pc /\ f_pc \in Int
    BY <2>1, Fields, FetchedTypes
  <2>3. InProgram(f_pc) => /\ next_D = InstructionAt(mem, f_pc)
                           /\ InstructionAt(mem', f_pc) = InstructionAt(mem, f_pc)
    BY <2>2, FetchIsRight, InstructionStays
  <2>4. f_predPC = Predicted(next_D)
    BY DEF f_predPC, Predicted, next_D
  <2> QED BY <2>1, <2>2, <2>3, <2>4
<1> QED BY <1>1, <1>2

(* The registers that the instructions before the one in E leave, a cycle  *)
(* later: the instruction has written too.                                 *)
LEMMA NextReg ==
    ASSUME Cycle, isaStat' = "AOK"
    PROVE  /\ m_stat \notin Exceptions /\ isaStat = "AOK" /\ M' = next_M
           /\ isaReg = WrittenBack(WrittenBack(reg, W.dstE, W.valE, W.dstM, W.valM),
                                   M.dstE, M.valE, M.dstM, m_valM)
           /\ isaReg' = WrittenBack(isaReg, e_dstE, e_valE, E.dstM, m_valM')
<1>1. W'.stat \notin Exceptions /\ m_stat' \notin Exceptions
  BY DEF isaStat, Exceptions
<1>2. m_stat \notin Exceptions /\ W' = next_W /\ M' = next_M /\ W.stat \notin Exceptions
  BY <1>1, PipesMove, Fields, NotYetFailed DEF Cycle
<1>3. isaReg = WrittenBack(WrittenBack(reg, W.dstE, W.valE, W.dstM, W.valM),
                           M.dstE, M.valE, M.dstM, m_valM)
  BY <1>2 DEF isaReg
<1>4. isaReg' = WrittenBack(WrittenBack(reg', W'.dstE, W'.valE, W'.dstM, W'.valM),
                            M'.dstE, M'.valE, M'.dstM, m_valM')
  BY <1>1 DEF isaReg
<1>5. WrittenBack(reg', W'.dstE, W'.valE, W'.dstM, W'.valM) = isaReg
  BY <1>2, <1>3, PipesMove, Fields
<1>6. isaReg' = WrittenBack(isaReg, e_dstE, e_valE, E.dstM, m_valM')
  BY <1>2, <1>4, <1>5, Fields
<1> QED BY <1>2, <1>3, <1>6 DEF isaStat

(* Decode reads what the instructions ahead leave.                         *)
LEMMA DecodedValue ==
    ASSUME PipeTypeOK, BubblesAreNops, Cycle, isaStat' = "AOK", ~LoadUse,
           NEW src \in RegIds, src \in {d_srcA, d_srcB}
    PROVE  Forwarded(src) = isaReg'[src]
<1> DEFINE afterE == set_reg_val(isaReg, e_dstE, e_valE)
<1>1. src # E.dstM
  BY DEF BubblesAreNops, LoadUse, RegIds
<1>2. RegisterFile
  BY DEF PipeTypeOK, RegisterFile
<1>3. Forwarded(src) = afterE[src]
  BY <1>1, <1>2, ForwardedValue, NextReg DEF ForwardingIsCurrent
<1>4. isaReg = [id \in RegIds |-> isaReg[id]]
  <2> DEFINE older == WrittenBack(reg, W.dstE, W.valE, W.dstM, W.valM)
  <2>1. older = [id \in RegIds |-> older[id]]
    BY <1>2, WriteBack DEF RegisterFile
  <2> HIDE DEF older
  <2>2. WrittenBack(older, M.dstE, M.valE, M.dstM, m_valM)
          = [id \in RegIds |-> WrittenBack(older, M.dstE, M.valE, M.dstM, m_valM)[id]]
    BY <2>1, WriteBack
  <2> QED BY <2>2, NextReg DEF older
<1>5. afterE = [id \in RegIds |-> afterE[id]]
  BY <1>4, SetRegister
<1>6. isaReg' = set_reg_val(afterE, E.dstM, m_valM')
  BY NextReg DEF WrittenBack
<1> HIDE DEF afterE
<1>7. set_reg_val(afterE, E.dstM, m_valM')[src] = afterE[src]
  BY <1>1, <1>5, SetRegister
<1> QED BY <1>3, <1>6, <1>7

LEMMA EStep ==
    ASSUME PipeTypeOK, MoreTypes, MIsApart, BubblesAreNops, BubblesFollow, DIsFetched, Cycle
    PROVE  EIsDecoded'
<1> DEFINE i == InstructionAt(mem', D.pc)
           a == srcA(i.icode, i.rA)
           b == srcB(i.icode, i.rB)
<1> SUFFICES ASSUME E'.stat # "BUB", InProgram(E'.pc)
             PROVE  LET j == InstructionAt(mem', E'.pc)
                        c == srcA(j.icode, j.rA)
                        d == srcB(j.icode, j.rB)
                    IN  /\ E'.stat = j.stat /\ E'.icode = j.icode /\ E'.ifun = j.ifun /\ E'.valC = j.valC
                        /\ E'.dstE = dstE(j.icode, j.rB) /\ E'.dstM = dstM(j.icode, j.rA)
                        /\ j.icode \in {I_JMP, I_CALL} => E'.valA = j.valP
                        /\ j.icode # I_RET => D'.pc = Predicted(j)
                        /\ isaStat' = "AOK" =>
                             /\ j.icode \notin {I_JMP, I_CALL} /\ c \in RegIds => E'.valA = isaReg'[c]
                             /\ d \in RegIds => E'.valB = isaReg'[d]
  BY DEF EIsDecoded, InProgram
<1>1. ~E_bubble /\ E' = next_E /\ D.stat # "BUB" /\ E'.pc = D.pc
  BY PipesMove, Fields DEF bubble_E
<1>2. D.pc \in Int /\ InProgram(D.pc)
  BY <1>1 DEF MoreTypes
<1>3. D = i
  BY <1>1, <1>2, InstructionStays DEF DIsFetched
<1>4. /\ E'.stat = D.stat /\ E'.icode = D.icode /\ E'.ifun = D.ifun /\ E'.valC = D.valC
      /\ E'.dstE = dstE(D.icode, D.rB) /\ E'.dstM = dstM(D.icode, D.rA)
      /\ E'.valA = d_valA /\ E'.valB = d_valB
  BY <1>1 DEF next_E
<1>5. D.icode \in {I_JMP, I_CALL} => d_valA = D.valP
  BY DEF d_valA
<1>6. D.icode # I_RET => D'.pc = Predicted(D)
  <2> SUFFICES ASSUME D.icode # I_RET PROVE D'.pc = Predicted(D)
    OBVIOUS
  <2>1. /\ E.icode # I_RET /\ M.icode # I_RET /\ W.icode # I_RET
        /\ ~(M.icode = I_JMP /\ ~M.Cnd)
    BY <1>1 DEF BubblesFollow
  <2>2. ~D_stall /\ ~D_bubble
    BY <1>1, <2>1 DEF E_bubble, D_stall, D_bubble, Returning
  <2>3. D'.pc = f_pc /\ f_pc = F
    BY <2>1, <2>2, PipesMove, Fields DEF f_pc
  <2> QED BY <1>1, <2>3 DEF DIsFetched
<1>7. ASSUME isaStat' = "AOK"
      PROVE  /\ D.icode \notin {I_JMP, I_CALL} /\ d_srcA \in RegIds => d_valA = isaReg'[d_srcA]
             /\ d_srcB \in RegIds => d_valB = isaReg'[d_srcB]
  <2>1. ~LoadUse
    BY <1>1 DEF E_bubble
  <2> QED BY <1>7, <2>1, DecodedValue DEF d_valA, d_valB
<1> HIDE DEF i
<1>8. d_srcA = a /\ d_srcB = b
  BY <1>3 DEF d_srcA, d_srcB
<1> QED BY <1>1, <1>3, <1>4, <1>5, <1>6, <1>7, <1>8 DEF i

-----------------------------------------------------------------------------
(* The instruction at the program counter of the instruction set's state,  *)
(* and what the processor computes of it.                                  *)

i_f     == Fetched(isa.m, isa.pc, ~ByteOK(isa.pc))
i_valA  == get_reg_val(isa.r, srcA(i_f.icode, i_f.rA))
i_valB  == get_reg_val(isa.r, srcB(i_f.icode, i_f.rB))
i_cond  == cond_holds(isa.cc, i_f.ifun)
i_A     == aluA(i_f.icode, i_valA, i_f.valC)
i_B     == aluB(i_f.icode, i_valB)
i_fun   == alufun(i_f.icode, i_f.ifun)
i_valE  == compute_alu(i_fun, i_A, i_B)
i_addr  == mem_addr(i_f.icode, i_valE, i_valA)
i_valM  == IF mem_read(i_f.icode) THEN get_word_val(isa.m, i_addr, 0) ELSE 0
i_error == ~ByteOK(isa.pc) \/ ((mem_read(i_f.icode) \/ mem_write(i_f.icode)) /\ ~WordOK(i_addr))
i_stat(icode, error) ==
    IF error THEN "ADR"
    ELSE IF ~instr_valid(icode) THEN "INS"
    ELSE IF icode = I_HALT THEN "HLT"
    ELSE "AOK"

i_dstE(icode, rB, cond) == IF icode = I_RRMOVQ /\ ~cond THEN REG_NONE ELSE dstE(icode, rB)

i_data(icode, valA, valP) == IF icode = I_CALL THEN valP ELSE valA

i_pc(i, cond, valM) ==
    CASE i.icode = I_CALL \/ (i.icode = I_JMP /\ cond) -> i.valC
      [] i.icode = I_RET                               -> valM
      [] OTHER                                         -> i.valP

(* The names of the instructions. *)
LEMMA ArchCodes ==
    /\ I_HALT = 0 /\ I_NOP = 1 /\ I_RRMOVQ = 2 /\ I_IRMOVQ = 3 /\ I_RMMOVQ = 4 /\ I_MRMOVQ = 5
    /\ I_ALU = 6 /\ I_JMP = 7 /\ I_CALL = 8 /\ I_RET = 9 /\ I_PUSHQ = 10 /\ I_POPQ = 11 /\ I_IADDQ = 12
    /\ Arch!I_HALT = 0 /\ Arch!I_NOP = 1 /\ Arch!I_RRMOVQ = 2 /\ Arch!I_IRMOVQ = 3
    /\ Arch!I_RMMOVQ = 4 /\ Arch!I_MRMOVQ = 5 /\ Arch!I_ALU = 6 /\ Arch!I_JMP = 7
    /\ Arch!I_CALL = 8 /\ Arch!I_RET = 9 /\ Arch!I_PUSHQ = 10 /\ Arch!I_POPQ = 11
    /\ Arch!I_IADDQ = 12
BY Codes DEF Arch!I_HALT, Arch!I_NOP, Arch!I_RRMOVQ, Arch!I_IRMOVQ,
   Arch!I_RMMOVQ, Arch!I_MRMOVQ, Arch!I_ALU, Arch!I_JMP, Arch!I_CALL, Arch!I_RET,
   Arch!I_PUSHQ, Arch!I_POPQ, Arch!I_IADDQ

(* The state of the instruction set. *)
LEMMA IsaFields ==
    ASSUME PipeInductive
    PROVE  isa.pc = isaPc /\ isa.r = isaReg /\ isa.m = isaMem /\ isa.cc = cc /\ isa.stat = isaStat
BY DEF PipeInductive, isaState

LEMMA IsaTypes ==
    ASSUME PipeInductive
    PROVE  /\ isa.pc \in Int /\ isa.r \in [RegIds -> Word]
           /\ isa.m \in Memory /\ isa.cc \in CondCodes
<1>1. PipeTypeOK /\ MoreTypes /\ MIsApart
  BY DEF PipeInductive
<1>2. m_valM \in Word /\ isaMem \in Memory /\ f_pc \in Int
  BY <1>1, MemoryTypes, FetchedTypes
<1>3. isaPc \in Int
  BY <1>1, <1>2, Bounds DEF isaPc, MoreTypes
<1>4. isaReg \in [RegIds -> Word]
  BY <1>1, <1>2, SetRegType DEF PipeTypeOK, isaReg, WrittenBack
<1> QED BY <1>1, <1>2, <1>3, <1>4, IsaFields DEF PipeTypeOK

(* The processor fetches what the instruction set does. *)
LEMMA FetchFacts ==
    ASSUME PipeInductive, ByteOK(isa.pc) => Arch!ok1
    PROVE  /\ i_f.icode \in 0 .. 15 /\ i_f.ifun \in 0 .. 15
           /\ i_f.rA \in 0 .. 15 /\ i_f.rB \in 0 .. 15 /\ i_f.valP \in Int
           /\ ~ByteOK(isa.pc) => i_f.icode = 1
           /\ ByteOK(isa.pc) => /\ i_f.icode = Arch!hi0 /\ i_f.ifun = Arch!lo0
                               /\ i_f.rA = Arch!hi1 /\ i_f.rB = Arch!lo1
                               /\ i_f.valP = Arch!ftpc
           /\ need_valC(i_f.icode) => ByteOK(isa.pc) /\ i_f.valC = Arch!cval
           /\ ~need_valC(i_f.icode) => i_f.valC = 0
<1> DEFINE at == isa.pc
           instr == IF ~ByteOK(at) THEN 16 * I_NOP ELSE get_byte_val(isa.m, at, 16 * I_NOP)
           icode == instr \div 16
           regids == IF need_regids(icode) THEN get_byte_val(isa.m, at + 1, 255) ELSE 255
           immAt == IF need_regids(icode) THEN at + 2 ELSE at + 1
<1>1. /\ i_f.icode = icode /\ i_f.ifun = instr % 16
      /\ i_f.rA = regids \div 16 /\ i_f.rB = regids % 16
      /\ i_f.valC = IF need_valC(icode) THEN get_word_val(isa.m, immAt, 0) ELSE 0
      /\ i_f.valP = IF need_valC(icode) THEN immAt + WordBytes ELSE immAt
  BY DEF i_f, Fetched
<1>2. isa.pc \in Int /\ isa.m \in Memory /\ WordBytes \in Nat
  BY IsaTypes, Bounds
<1>3. instr \in Byte /\ regids \in Byte
  <2>1. 16 * I_NOP \in Byte /\ 255 \in Byte
    BY ArchCodes DEF Byte
  <2> QED BY <1>2, <2>1, ByteType
<1>4. /\ icode \in 0 .. 15 /\ instr % 16 \in 0 .. 15
      /\ regids \div 16 \in 0 .. 15 /\ regids % 16 \in 0 .. 15
  <2> HIDE DEF instr, regids
  <2> QED BY <1>3 DEF Byte
<1>5. ~ByteOK(isa.pc) => icode = 1
  BY ArchCodes
<1>6. \A c : /\ need_regids(c) <=> c \in Arch!NeedRegids
             /\ need_valC(c) <=> c \in Arch!NeedImm
  BY ArchCodes DEF need_regids, need_valC, Arch!NeedRegids, Arch!NeedImm
<1>7. ASSUME ByteOK(isa.pc)
      PROVE  /\ icode = Arch!hi0 /\ instr % 16 = Arch!lo0
             /\ regids \div 16 = Arch!hi1 /\ regids % 16 = Arch!lo1
             /\ immAt = Arch!ImmAt /\ get_word_val(isa.m, immAt, 0) = Arch!cval
             /\ i_f.valP = Arch!ftpc
  <2>1. instr = Arch!byte0
    BY <1>7, SameOperators DEF Arch!byte0, get_byte_val
  <2>2. icode = Arch!hi0 /\ instr % 16 = Arch!lo0
    BY <2>1 DEF Arch!hi0, Arch!lo0
  <2> HIDE DEF icode, instr
  <2>3. regids = Arch!byte1 /\ immAt = Arch!ImmAt
    <3>1. need_regids(icode) => ByteOK(isa.pc + 1)
      BY <1>6, <1>7, <2>2, SameOperators DEF Arch!ok1
    <3>2. need_regids(icode) => regids = Arch!get_byte_val(isa.m, isa.pc + 1, 0)
      BY <3>1, SameOperators DEF get_byte_val
    <3> QED BY <1>6, <2>2, <3>2 DEF Arch!byte1, Arch!ImmAt
  <2> HIDE DEF regids, immAt
  <2> QED BY <1>1, <1>6, <2>2, <2>3, SameOperators DEF Arch!hi1, Arch!lo1, Arch!cval, Arch!ftpc
<1>8. need_valC(icode) => ByteOK(isa.pc)
  BY <1>5, ArchCodes DEF need_valC
<1>9. i_f.valP \in Int
  <2>1. immAt \in Int
    BY <1>2
  <2> HIDE DEF immAt, icode
  <2> QED BY <1>1, <1>2, <2>1
<1> HIDE DEF icode, instr, regids, immAt
<1> QED BY <1>1, <1>4, <1>5, <1>7, <1>8, <1>9

-----------------------------------------------------------------------------
(* What a supported program may do, and the values computed for it. *)

LEMMA SupportedFacts ==
    ASSUME PipeInductive, Arch!Supported
    PROVE  /\ ByteOK(isa.pc) => Arch!ok1
           /\ i_f.icode \in 2 .. 12 => ByteOK(isa.pc)
           /\ ByteOK(isa.pc) /\ i_f.icode \in 1 .. 12 =>
                /\ Arch!ok1 /\ Arch!okc /\ Arch!RegsOK
                /\ i_f.icode \in {I_CALL, I_PUSHQ} => WordOK(Arch!dvalPushed)
                /\ i_f.icode = I_POPQ => WordOK(Arch!dval)
                /\ WordOK(Arch!ImmAt) => Arch!ImmAt + WordBytes <= MemLen
                /\ WordOK(Arch!DataAt) => Arch!DataAt + WordBytes <= MemLen
                /\ WordOK(Arch!dval) => Arch!dval + WordBytes <= MemLen
           /\ ByteOK(isa.pc) /\ i_f.icode \notin 1 .. 12 => Arch!hi0 \notin 1 .. 12
<1>1. ByteOK(isa.pc) => Arch!ok1
  BY SameOperators, ArchCodes DEF Arch!Supported, Arch!ok1, Arch!NeedRegids
<1>2. /\ ByteOK(isa.pc) => i_f.icode = Arch!hi0
      /\ ~ByteOK(isa.pc) => i_f.icode = 1
  BY <1>1, FetchFacts
<1> QED BY <1>1, <1>2, SameOperators, ArchCodes DEF Arch!Supported, Arch!InMemory, Arch!Pushes

LEMMA ValC ==
    ASSUME PipeInductive, Arch!Supported
    PROVE  i_f.valC \in Word
<1>1. CASE need_valC(i_f.icode)
  <2>1. ByteOK(isa.pc) /\ i_f.valC = Arch!cval /\ i_f.icode \in 1 .. 12
    BY <1>1, SupportedFacts, FetchFacts, ArchCodes DEF need_valC
  <2>2. WordOK(Arch!ImmAt) => Arch!ImmAt + WordBytes <= MemLen
    BY <2>1, SupportedFacts
  <2>3. Arch!ImmAt \in Int /\ isa.m \in Memory /\ 0 \in Word
    BY IsaTypes, Bounds DEF Arch!ImmAt
  <2>4. get_word_val(isa.m, Arch!ImmAt, 0) \in Word
    BY <2>2, <2>3, WordType
  <2> QED BY <2>1, <2>4, SameOperators DEF Arch!cval
<1>2. CASE ~need_valC(i_f.icode)
  BY <1>2, SupportedFacts, FetchFacts, Bounds
<1> QED BY <1>1, <1>2

LEMMA Operands ==
    ASSUME PipeInductive, Arch!Supported
    PROVE  /\ i_valA \in Word /\ i_valB \in Word /\ i_A \in Word /\ i_B \in Word
           /\ i_fun \in Int /\ i_valE \in Word
<1>1. i_valA \in Word /\ i_valB \in Word
  BY IsaTypes, RegType DEF i_valA, i_valB
<1>2. i_A \in Word
  BY <1>1, ValC, Bounds DEF i_A, aluA
<1>3. i_B \in Word
  BY <1>1, Bounds DEF i_B, aluB
<1>4. i_fun \in Int
  BY SupportedFacts, FetchFacts DEF i_fun, alufun, A_ADD
<1> QED BY <1>1, <1>2, <1>3, <1>4, AluType DEF i_valE

(* A memory address is the one the instruction set uses. *)
LEMMA Addresses ==
    ASSUME PipeInductive, Arch!Supported, ByteOK(isa.pc)
    PROVE  /\ i_f.icode \in {4, 5} => i_addr = Arch!DataAt
           /\ i_f.icode \in {8, 10} => i_addr = Arch!dvalPushed /\ i_valE = Arch!dvalPushed
           /\ i_f.icode \in {9, 11} => /\ i_addr = Arch!dval /\ i_valA = Arch!dval
                                       /\ i_valE = Arch!dvalPopped
<1>1. /\ i_f.icode = Arch!hi0 /\ i_f.rA = Arch!hi1 /\ i_f.rB = Arch!lo1
      /\ need_valC(i_f.icode) => i_f.valC = Arch!cval
  BY SupportedFacts, FetchFacts
<1>2. /\ i_valA \in Word /\ i_valB \in Word /\ i_f.valC \in Word /\ WordBytes \in Word /\ -WordBytes \in Word
      /\ \A x \in Word : x \in Int
  BY Operands, ValC, Bounds
<1>3. CASE i_f.icode \in {4, 5}
  <2>1. i_addr = i_valE /\ i_A = i_f.valC /\ i_B = i_valB /\ i_fun = A_ADD /\ i_f.valC = Arch!cval
    BY <1>1, <1>3, ArchCodes DEF i_addr, mem_addr, i_A, aluA, i_B, aluB, i_fun, alufun, need_valC
  <2>2. i_valE = Wrap(Arch!cval + i_valB)
    BY <1>2, <2>1, AluAdds DEF i_valE
  <2>3. i_valB = Arch!Reg(Arch!lo1)
    BY <1>1, <1>3, ArchCodes, SameOperators DEF i_valB, srcB, Arch!Reg
  <2>4. ASSUME reg_valid(Arch!lo1) PROVE i_addr = Arch!DataAt
    <3>1. Arch!DataAt = Arch!Wrap(Arch!cval + Arch!Reg(Arch!lo1))
      BY <2>4, SameOperators DEF Arch!DataAt
    <3> QED BY <2>1, <2>2, <2>3, <3>1, SameOperators
  <2>5. ASSUME ~reg_valid(Arch!lo1) PROVE i_addr = Arch!DataAt
    <3>1. i_valB = 0
      BY <2>3, <2>5, SameOperators DEF Arch!Reg, get_reg_val
    <3>2. i_valE = Arch!cval
      BY <1>2, <2>1, <3>1, AddZero DEF i_valE
    <3>3. Arch!DataAt = Arch!cval
      BY <2>5, SameOperators DEF Arch!DataAt
    <3> QED BY <2>1, <3>2, <3>3
  <2> QED BY <1>3, <2>4, <2>5
<1>4. CASE i_f.icode \in {8, 10}
  <2>1. i_addr = i_valE /\ i_A = -WordBytes /\ i_B = i_valB /\ i_fun = A_ADD
    BY <1>4, ArchCodes DEF i_addr, mem_addr, i_A, aluA, i_B, aluB, i_fun, alufun
  <2>2. i_valB = Arch!dval
    BY <1>4, ArchCodes, SameOperators DEF i_valB, srcB, Arch!Reg, Arch!dval, REG_RSP, Arch!REG_RSP
  <2>3. i_valE = Wrap(-WordBytes + i_valB)
    BY <1>2, <2>1, AluAdds DEF i_valE
  <2>4. -WordBytes + i_valB = Arch!dval - WordBytes
    BY <1>2, <2>2, Bounds
  <2> QED BY <1>4, <2>1, <2>3, <2>4, SameOperators DEF Arch!dvalPushed
<1>5. CASE i_f.icode \in {9, 11}
  <2>1. i_addr = i_valA /\ i_A = WordBytes /\ i_B = i_valB /\ i_fun = A_ADD
    BY <1>5, ArchCodes DEF i_addr, mem_addr, i_A, aluA, i_B, aluB, i_fun, alufun
  <2>2. i_valB = Arch!dval /\ i_valA = Arch!dval
    BY <1>5, ArchCodes, SameOperators
       DEF i_valA, srcA, i_valB, srcB, Arch!Reg, Arch!dval, REG_RSP, Arch!REG_RSP
  <2>3. i_valE = Wrap(WordBytes + i_valB)
    BY <1>2, <2>1, AluAdds DEF i_valE
  <2>4. WordBytes + i_valB = Arch!dval + WordBytes
    BY <1>2, <2>2, Bounds
  <2> QED BY <1>5, <2>1, <2>2, <2>3, <2>4, SameOperators DEF Arch!dvalPopped
<1> QED BY <1>3, <1>4, <1>5

-----------------------------------------------------------------------------
(* The instruction in E is the one the instruction set executes next.      *)

Executing == NamesRegisters /\ SupportedCycle /\ isa.stat = "AOK" /\ E.stat # "BUB"

(* Its registers exist. *)
LEMMA SourcesExist ==
    ASSUME PipeInductive, NamesRegisters, Arch!Supported
    PROVE  LET a == srcA(i_f.icode, i_f.rA)
               b == srcB(i_f.icode, i_f.rB)
           IN  /\ i_f.icode \in {I_RRMOVQ, I_RMMOVQ, I_ALU, I_PUSHQ, I_POPQ, I_RET} => a \in RegIds
               /\ i_f.icode \in {I_ALU, I_RMMOVQ, I_MRMOVQ, I_IADDQ, I_PUSHQ, I_POPQ, I_CALL, I_RET}
                    => b \in RegIds
<1>1. i_f.icode \in 2 .. 12 => ByteOK(isa.pc)
  BY SupportedFacts
<1>2. ByteOK(isa.pc) => /\ i_f.icode = Arch!hi0 /\ i_f.rA = Arch!hi1 /\ i_f.rB = Arch!lo1
  BY SupportedFacts, FetchFacts
<1>3. ByteOK(isa.pc) /\ i_f.icode \in 2 .. 12 => Arch!RegsOK
  BY SupportedFacts
<1>4. ByteOK(isa.pc) /\ i_f.icode \in {I_RMMOVQ, I_MRMOVQ, I_ALU}
        => reg_valid(i_f.rA) /\ reg_valid(i_f.rB)
  BY <1>2, SameOperators, ArchCodes DEF Arch!Supported, NamesRegisters
<1>5. ByteOK(isa.pc) /\ i_f.icode \in 2 .. 12 =>
        /\ i_f.icode \in {I_RRMOVQ, I_RMMOVQ, I_MRMOVQ, I_PUSHQ, I_POPQ} => reg_valid(i_f.rA)
        /\ i_f.icode \in {I_RRMOVQ, I_IRMOVQ, I_IADDQ} => reg_valid(i_f.rB)
  BY <1>2, <1>3, SameOperators, ArchCodes DEF Arch!RegsOK
<1>6. REG_RSP \in RegIds
  BY DEF REG_RSP, RegIds, REG_NONE
<1> QED BY <1>1, <1>4, <1>5, <1>6, Codes DEF srcA, srcB, reg_valid

LEMMA EIsNext ==
    ASSUME PipeInductive, NamesRegisters, Arch!Supported, isa.stat = "AOK", E.stat # "BUB"
    PROVE  /\ isa.pc = E.pc /\ InProgram(E.pc)
           /\ E.stat = (IF ~ByteOK(isa.pc) THEN "ADR" ELSE i_stat(i_f.icode, FALSE))
           /\ E.icode = i_f.icode /\ E.ifun = i_f.ifun /\ E.valC = i_f.valC
           /\ E.dstE = dstE(i_f.icode, i_f.rB) /\ E.dstM = dstM(i_f.icode, i_f.rA)
           /\ i_f.icode \in {I_JMP, I_CALL} => E.valA = i_f.valP
           /\ i_f.icode \in {I_RRMOVQ, I_RMMOVQ, I_ALU, I_PUSHQ, I_POPQ, I_RET} => E.valA = i_valA
           /\ i_f.icode \in {I_ALU, I_RMMOVQ, I_MRMOVQ, I_IADDQ, I_PUSHQ, I_POPQ, I_CALL, I_RET}
                => E.valB = i_valB
           /\ i_f.icode # I_RET => D.pc = Predicted(i_f)
<1>1. isaStat = "AOK" /\ W.stat \notin Exceptions /\ m_stat \notin Exceptions
  BY IsaFields DEF isaStat, Exceptions
<1>2. isa.pc = E.pc
  BY <1>1, IsaFields DEF isaPc, PipeInductive, BubblesFollow
<1>3. InProgram(E.pc)
  BY <1>2, SameOperators DEF Arch!Supported, InProgram
<1>4. E.pc \in Int /\ isa.m = isaMem
  BY IsaFields DEF PipeInductive, MoreTypes
<1>5. i_f = Fetched(mem, E.pc, ~ByteOK(E.pc))
  <2>1. mem \in Memory /\ isaMem \in Memory
    BY MemoryTypes DEF PipeInductive, PipeTypeOK
  <2>2. Fetched(isaMem, E.pc, ~ByteOK(E.pc)) = Fetched(mem, E.pc, ~ByteOK(E.pc))
    BY <1>3, <1>4, <2>1, ProgramStays, SameProgram DEF PipeInductive
  <2> QED BY <1>2, <1>4, <2>2 DEF i_f
<1> DEFINE i == InstructionAt(mem, E.pc)
<1>6. /\ i.stat = (IF ~ByteOK(isa.pc) THEN "ADR" ELSE i_stat(i_f.icode, FALSE))
      /\ i.icode = i_f.icode /\ i.ifun = i_f.ifun /\ i.rA = i_f.rA /\ i.rB = i_f.rB
      /\ i.valC = i_f.valC /\ i.valP = i_f.valP
  BY <1>2, <1>5 DEF InstructionAt, i_stat
<1> DEFINE a == srcA(i.icode, i.rA)
           b == srcB(i.icode, i.rB)
<1>7. /\ E.stat = i.stat /\ E.icode = i.icode /\ E.ifun = i.ifun /\ E.valC = i.valC
      /\ E.dstE = dstE(i.icode, i.rB) /\ E.dstM = dstM(i.icode, i.rA)
      /\ i.icode \in {I_JMP, I_CALL} => E.valA = i.valP
      /\ i.icode # I_RET => D.pc = Predicted(i)
      /\ i.icode \notin {I_JMP, I_CALL} /\ a \in RegIds => E.valA = isaReg[a]
      /\ b \in RegIds => E.valB = isaReg[b]
  BY <1>1, <1>3 DEF PipeInductive, EIsDecoded
<1> HIDE DEF i
<1>8. Predicted(i) = Predicted(i_f)
  BY <1>6 DEF Predicted
<1>9. /\ i_f.icode \in {I_RRMOVQ, I_RMMOVQ, I_ALU, I_PUSHQ, I_POPQ, I_RET} => a \in RegIds
      /\ i_f.icode \in {I_ALU, I_RMMOVQ, I_MRMOVQ, I_IADDQ, I_PUSHQ, I_POPQ, I_CALL, I_RET} => b \in RegIds
  BY <1>6, SourcesExist
<1>10. /\ a \in RegIds => i_valA = isaReg[a]
       /\ b \in RegIds => i_valB = isaReg[b]
  BY <1>6, IsaFields DEF i_valA, i_valB, get_reg_val, reg_valid
<1>11. /\ i_f.icode \in {I_RRMOVQ, I_RMMOVQ, I_ALU, I_PUSHQ, I_POPQ, I_RET} => E.valA = i_valA
       /\ i_f.icode \in {I_ALU, I_RMMOVQ, I_MRMOVQ, I_IADDQ, I_PUSHQ, I_POPQ, I_CALL, I_RET}
            => E.valB = i_valB
  BY <1>6, <1>7, <1>9, <1>10, Codes
<1> QED BY <1>2, <1>3, <1>6, <1>7, <1>8, <1>11

(* So execute computes its values. *)
LEMMA EComputes ==
    ASSUME PipeInductive, NamesRegisters, Arch!Supported, isa.stat = "AOK", E.stat # "BUB"
    PROVE  /\ e_fun = i_fun /\ e_A = i_A /\ e_B = i_B /\ e_valE = i_valE /\ (e_Cnd <=> i_cond)
           /\ e_dstE = i_dstE(i_f.icode, i_f.rB, i_cond)
           /\ mem_addr(E.icode, e_valE, E.valA) = i_addr
           /\ mem_write(E.icode) => E.valA = i_data(i_f.icode, i_valA, i_f.valP)
<1>1. e_fun = i_fun
  BY EIsNext DEF e_fun, i_fun
<1>2. e_A = i_A
  BY EIsNext, Codes DEF e_A, i_A, aluA
<1>3. e_B = i_B
  BY EIsNext, Codes DEF e_B, i_B, aluB
<1>4. e_valE = i_valE
  BY <1>1, <1>2, <1>3 DEF e_valE, i_valE
<1>5. e_Cnd <=> i_cond
  BY EIsNext, IsaFields DEF e_Cnd, i_cond
<1>6. e_dstE = i_dstE(i_f.icode, i_f.rB, i_cond)
  BY <1>5, EIsNext DEF e_dstE, i_dstE
<1>7. mem_addr(E.icode, e_valE, E.valA) = i_addr
  BY <1>4, EIsNext, Codes DEF mem_addr, i_addr
<1>8. mem_write(E.icode) => E.valA = i_data(i_f.icode, i_valA, i_f.valP)
  BY EIsNext, Codes DEF mem_write, i_data
<1> QED BY <1>1, <1>2, <1>3, <1>4, <1>5, <1>6, <1>7, <1>8

-----------------------------------------------------------------------------
(* A cycle in which an instruction moves from E to M does that instruction. *)

LEMMA Moves ==
    ASSUME PipeInductive, Executing
    PROVE  /\ Cycle /\ Arch!Supported /\ M' = next_M /\ W' = next_W /\ W'.stat \notin Exceptions
           /\ mem' = isa.m /\ m_addr' = i_addr
           /\ (mem_read(M'.icode) <=> mem_read(i_f.icode)) /\ (mem_write(M'.icode) <=> mem_write(i_f.icode))
           /\ m_valM' = i_valM
           /\ m_stat' = i_stat(i_f.icode, i_error)
           /\ isaStat' = i_stat(i_f.icode, i_error)
<1>1. /\ Cycle /\ Arch!Supported /\ NamesRegisters /\ isa.stat = "AOK" /\ E.stat # "BUB"
  BY DEF Executing, SupportedCycle
<1>2. W.stat \notin Exceptions /\ m_stat \notin Exceptions
  BY <1>1, IsaFields DEF isaStat, Exceptions
<1>3. M' = next_M /\ W' = next_W /\ W'.stat \notin Exceptions /\ mem' = isa.m
  BY <1>1, <1>2, PipesMove, Fields, IsaFields
<1>4. /\ M'.icode = i_f.icode /\ M'.stat = E.stat /\ M'.valE = e_valE /\ M'.valA = E.valA
  BY <1>1, <1>3, Fields, EIsNext
<1>5. m_addr' = i_addr
  <2>1. m_addr' = mem_addr(M'.icode, M'.valE, M'.valA)
    BY DEF m_addr
  <2> QED BY <1>1, <1>4, <2>1, EComputes, EIsNext
<1>6. m_valM' = i_valM
  <2>1. m_valM' = IF mem_read(M'.icode) THEN get_word_val(mem', m_addr', 0) ELSE 0
    BY DEF m_valM
  <2> QED BY <1>3, <1>4, <1>5, <2>1 DEF i_valM
<1>7. m_stat' = i_stat(i_f.icode, i_error)
  <2>1. m_stat' = IF (mem_read(M'.icode) \/ mem_write(M'.icode)) /\ ~WordOK(m_addr') THEN "ADR" ELSE M'.stat
    BY DEF m_stat, dmem_error
  <2>2. M'.stat = (IF ~ByteOK(isa.pc) THEN "ADR" ELSE i_stat(i_f.icode, FALSE))
    BY <1>1, <1>4, EIsNext
  <2>3. CASE (mem_read(i_f.icode) \/ mem_write(i_f.icode)) /\ ~WordOK(i_addr)
    BY <1>4, <1>5, <2>1, <2>3 DEF i_stat, i_error
  <2>4. CASE ~((mem_read(i_f.icode) \/ mem_write(i_f.icode)) /\ ~WordOK(i_addr))
    BY <1>4, <1>5, <2>1, <2>2, <2>4 DEF i_stat, i_error
  <2> QED BY <2>3, <2>4
<1>8. isaStat' = i_stat(i_f.icode, i_error)
  <2>1. isaStat' = IF W'.stat \in Exceptions THEN W'.stat
                   ELSE IF m_stat' \in Exceptions THEN m_stat'
                   ELSE "AOK"
    BY DEF isaStat, Exceptions
  <2>2. i_stat(i_f.icode, i_error) \in Exceptions \cup {"AOK"}
    BY DEF i_stat, Exceptions
  <2> QED BY <1>3, <1>7, <2>1, <2>2 DEF Exceptions
<1> QED BY <1>1, <1>3, <1>4, <1>5, <1>6, <1>7, <1>8

(* Where it goes on. *)
LEMMA GoesOn ==
    ASSUME PipeInductive, Executing, m_stat' \notin Exceptions
    PROVE  isaPc' = i_pc(i_f, i_cond, i_valM)
<1>1. /\ Cycle /\ Arch!Supported /\ NamesRegisters /\ isa.stat = "AOK" /\ E.stat # "BUB"
      /\ M' = next_M /\ W' = next_W /\ W'.stat \notin Exceptions /\ m_valM' = i_valM
  BY Moves DEF Executing
<1>2. /\ M'.icode = i_f.icode /\ M'.Cnd = e_Cnd /\ M'.valA = E.valA /\ E.icode = i_f.icode
      /\ (e_Cnd <=> i_cond)
  BY <1>1, Fields, EIsNext, EComputes
<1>3. isaPc' = IF M'.icode = I_RET THEN m_valM'
               ELSE IF E'.stat # "BUB" THEN E'.pc
               ELSE IF D'.stat # "BUB" THEN D'.pc
               ELSE f_pc'
  BY <1>1 DEF isaPc, Exceptions
<1>4. CASE i_f.icode = I_RET
  BY <1>1, <1>2, <1>3, <1>4, Codes DEF i_pc
<1>5. CASE i_f.icode # I_RET
  <2>1. D.stat # "BUB" /\ D.pc = Predicted(i_f)
    BY <1>1, <1>2, <1>5, EIsNext DEF PipeInductive, BubblesFollow
  <2>2. CASE Mispredicted
    <3>1. i_f.icode = I_JMP /\ ~i_cond /\ ~LoadUse
      BY <1>2, <2>2, Codes DEF Mispredicted, LoadUse
    <3>2. E' = bubble_E /\ D' = bubble_D
      BY <1>1, <2>2, <3>1, PipesMove DEF E_bubble, D_bubble, D_stall
    <3>3. f_pc' = M'.valA
      <4>1. f_pc' = IF M'.icode = I_JMP /\ ~M'.Cnd THEN M'.valA
                    ELSE IF W'.icode = I_RET THEN W'.valM ELSE F'
        BY DEF f_pc
      <4> QED BY <1>2, <3>1, <4>1
    <3>4. E.valA = i_f.valP
      BY <1>1, <3>1, EIsNext
    <3> QED BY <1>2, <1>3, <1>5, <3>1, <3>2, <3>3, <3>4, Codes DEF i_pc, bubble_E, bubble_D
  <2>3. CASE ~Mispredicted /\ LoadUse
    <3>1. E' = bubble_E /\ D' = D
      BY <1>1, <2>3, PipesMove DEF E_bubble, D_stall
    <3>2. isaPc' = D.pc
      BY <1>2, <1>3, <1>5, <2>1, <3>1 DEF bubble_E
    <3>3. E.icode \in {I_MRMOVQ, I_POPQ}
      BY <2>3 DEF LoadUse
    <3> QED BY <1>2, <1>5, <2>1, <3>2, <3>3, Codes DEF i_pc, Predicted
  <2>4. CASE ~Mispredicted /\ ~LoadUse
    <3>1. E' = next_E
      BY <1>1, <2>4, PipesMove DEF E_bubble
    <3>2. isaPc' = D.pc
      BY <1>2, <1>3, <1>5, <2>1, <3>1, Fields
    <3>3. i_f.icode = I_JMP => i_cond
      BY <1>2, <2>4 DEF Mispredicted
    <3> QED BY <1>5, <2>1, <3>2, <3>3, Codes DEF i_pc, Predicted
  <2> QED BY <2>2, <2>3, <2>4
<1> QED BY <1>4, <1>5

LEMMA After ==
    ASSUME PipeInductive, Executing
    PROVE  /\ isa.stat = "AOK" /\ isa.stat' = i_stat(i_f.icode, i_error)
           /\ isa.stat' = "AOK" =>
                /\ isa.pc' = i_pc(i_f, i_cond, i_valM)
                /\ isa.r' = set_reg_val(set_reg_val(isa.r, i_dstE(i_f.icode, i_f.rB, i_cond), i_valE),
                                        dstM(i_f.icode, i_f.rA), i_valM)
                /\ isa.m' = IF mem_write(i_f.icode)
                            THEN set_word_val(isa.m, i_addr, i_data(i_f.icode, i_valA, i_f.valP))
                            ELSE isa.m
                /\ isa.cc' = IF i_f.icode \in {I_ALU, I_IADDQ} THEN compute_cc(i_fun, i_A, i_B) ELSE isa.cc
           /\ isa.stat' # "AOK" => UNCHANGED <<isa.pc, isa.r, isa.m, isa.cc>>
<1>1. /\ Cycle /\ Arch!Supported /\ NamesRegisters /\ isa.stat = "AOK" /\ E.stat # "BUB"
      /\ M' = next_M /\ W' = next_W /\ W'.stat \notin Exceptions
      /\ mem' = isa.m /\ m_addr' = i_addr /\ (mem_write(M'.icode) <=> mem_write(i_f.icode))
      /\ m_valM' = i_valM /\ m_stat' = i_stat(i_f.icode, i_error) /\ isaStat' = i_stat(i_f.icode, i_error)
  BY Moves DEF Executing
<1>2. /\ isa' = isaState'
      /\ isa'.pc = isaPc' /\ isa'.r = isaReg' /\ isa'.m = isaMem' /\ isa'.cc = cc' /\ isa'.stat = isaStat'
  BY DEF Executing, SupportedCycle, isaState
<1>3. W.stat \notin Exceptions /\ m_stat \notin Exceptions
  BY <1>1, IsaFields DEF isaStat, Exceptions
<1>4. isaMem' = IF mem_write(i_f.icode)
                THEN set_word_val(isa.m, i_addr, i_data(i_f.icode, i_valA, i_f.valP)) ELSE isa.m
  <2>1. isaMem' = IF mem_write(M'.icode) THEN set_word_val(mem', m_addr', M'.valA) ELSE mem'
    BY DEF isaMem
  <2>2. M'.valA = E.valA /\ M'.icode = E.icode
    BY <1>1, Fields
  <2> QED BY <1>1, <2>1, <2>2, EComputes
<1>5. cc' = IF i_f.icode \in {I_ALU, I_IADDQ} THEN compute_cc(i_fun, i_A, i_B) ELSE isa.cc
  <2>1. cc' = IF E.icode \in {I_ALU, I_IADDQ} THEN compute_cc(e_fun, e_A, e_B) ELSE cc_in
    BY <1>1, <1>3, PipesMove DEF e_cc, set_cc
  <2>2. cc_in = isa.cc
    BY IsaFields DEF PipeInductive
  <2> QED BY <1>1, <2>1, <2>2, EIsNext, EComputes
<1>6. CASE i_stat(i_f.icode, i_error) = "AOK"
  <2>1. m_stat' \notin Exceptions
    BY <1>1, <1>6 DEF Exceptions
  <2>2. isaPc' = i_pc(i_f, i_cond, i_valM)
    BY <2>1, GoesOn
  <2>3. isaReg' = WrittenBack(isaReg, e_dstE, e_valE, E.dstM, m_valM')
    BY <1>1, <1>6, NextReg
  <2>4. isaReg' = set_reg_val(set_reg_val(isa.r, i_dstE(i_f.icode, i_f.rB, i_cond), i_valE),
                              dstM(i_f.icode, i_f.rA), i_valM)
    BY <1>1, <2>3, EIsNext, EComputes, IsaFields DEF WrittenBack
  <2> QED BY <1>1, <1>2, <1>4, <1>5, <1>6, <2>2, <2>4
<1>7. CASE i_stat(i_f.icode, i_error) # "AOK"
  <2>1. m_stat' \in Exceptions
    BY <1>1, <1>7 DEF Exceptions, i_stat
  <2>2. isaPc' = isa.pc
    <3>1. isaPc' = M'.pc
      BY <1>1, <2>1 DEF isaPc, Exceptions
    <3> QED BY <1>1, <3>1, Fields, EIsNext
  <2>3. isaReg' = isa.r
    <3>1. isaReg' = WrittenBack(reg', W'.dstE, W'.valE, W'.dstM, W'.valM)
      BY <1>1, <2>1 DEF isaReg, Exceptions
    <3>2. isaReg = WrittenBack(WrittenBack(reg, W.dstE, W.valE, W.dstM, W.valM),
                               M.dstE, M.valE, M.dstM, m_valM)
      BY <1>3 DEF isaReg
    <3>3. reg' = WrittenBack(reg, W.dstE, W.valE, W.dstM, W.valM)
      BY <1>1, PipesMove
    <3> QED BY <1>1, <3>1, <3>2, <3>3, Fields, IsaFields
  <2>4. ~ByteOK(isa.pc) => i_f.icode = I_NOP
    BY <1>1, SupportedFacts, FetchFacts, Codes
  <2>5. i_f.icode \notin {I_ALU, I_IADDQ} /\ (mem_write(i_f.icode) => ~WordOK(i_addr))
    BY <1>7, <2>4, Codes DEF i_stat, i_error, instr_valid, mem_read, mem_write
  <2>6. isaMem' = isa.m
    BY <1>4, <2>5 DEF set_word_val
  <2> QED BY <1>1, <1>2, <1>5, <1>7, <2>2, <2>3, <2>5, <2>6
<1> QED BY <1>6, <1>7

-----------------------------------------------------------------------------
(* A step does what an instruction does. *)

LEMMA StopStep ==
    ASSUME PipeInductive, Arch!Supported, Executing, ~ByteOK(isa.pc) \/ i_f.icode \notin 1 .. 12
    PROVE  Arch!Stop
<1>1. CASE ~ByteOK(isa.pc)
  <2>1. isa.stat' = "ADR" /\ Arch!FetchStat = "ADR"
    BY <1>1, After, SameOperators DEF i_error, i_stat, Arch!FetchStat
  <2> QED BY <2>1, After DEF Arch!Stop
<1>2. CASE ByteOK(isa.pc) /\ i_f.icode \notin 1 .. 12
  <2>1. i_f.icode \in 0 .. 15 /\ i_f.icode = Arch!hi0
    BY <1>2, SupportedFacts, FetchFacts
  <2>2. ~i_error
    BY <1>2, <2>1, ArchCodes DEF i_error, mem_read, mem_write
  <2>3. CASE i_f.icode = 0
    <3>1. isa.stat' = "HLT" /\ Arch!FetchStat = "HLT"
      BY <1>2, <2>1, <2>2, <2>3, After, SameOperators, ArchCodes DEF i_stat, instr_valid, Arch!FetchStat
    <3> QED BY <3>1, After DEF Arch!Stop
  <2>4. CASE i_f.icode # 0
    <3>1. isa.stat' = "INS" /\ Arch!FetchStat = "INS"
      BY <1>2, <2>1, <2>2, <2>4, After, SameOperators, ArchCodes DEF i_stat, instr_valid, Arch!FetchStat
    <3> QED BY <3>1, After DEF Arch!Stop
  <2> QED BY <2>3, <2>4
<1> QED BY <1>1, <1>2

(* An instruction is fetched. *)
LEMMA DecodedFacts ==
    ASSUME PipeInductive, Arch!Supported, Executing, ByteOK(isa.pc), i_f.icode \in 1 .. 12
    PROVE  /\ Arch!Decoded(i_f.icode)
           /\ i_f.icode = Arch!hi0 /\ i_f.ifun = Arch!lo0 /\ i_f.rA = Arch!hi1 /\ i_f.rB = Arch!lo1
           /\ i_f.valP = Arch!ftpc /\ (need_valC(i_f.icode) => i_f.valC = Arch!cval)
           /\ i_cond <=> Arch!cond_holds(isa.cc, Arch!lo0)
           /\ ~i_error => isa.stat' = "AOK"
           /\ i_error => isa.stat' = "ADR"
           /\ i_error <=> (mem_read(i_f.icode) \/ mem_write(i_f.icode)) /\ ~WordOK(i_addr)
           /\ isa.stat = "AOK"
<1>1. /\ i_f.icode = Arch!hi0 /\ i_f.ifun = Arch!lo0 /\ i_f.rA = Arch!hi1 /\ i_f.rB = Arch!lo1
      /\ i_f.valP = Arch!ftpc /\ (need_valC(i_f.icode) => i_f.valC = Arch!cval)
  BY SupportedFacts, FetchFacts
<1>2. Arch!ok1 /\ Arch!okc /\ Arch!RegsOK
  BY SupportedFacts
<1>3. Arch!FetchStat = "AOK"
  BY <1>1, <1>2, SameOperators, ArchCodes DEF Arch!FetchStat
<1>4. isa.stat = "AOK" /\ isa.stat' = i_stat(i_f.icode, i_error)
  BY After
<1>5. (~i_error => isa.stat' = "AOK") /\ (i_error => isa.stat' = "ADR")
  BY <1>4, ArchCodes DEF i_stat, instr_valid
<1>6. i_error <=> (mem_read(i_f.icode) \/ mem_write(i_f.icode)) /\ ~WordOK(i_addr)
  BY DEF i_error
<1>7. i_cond <=> Arch!cond_holds(isa.cc, Arch!lo0)
  BY <1>1, SameOperators DEF i_cond
<1> QED BY <1>1, <1>3, <1>4, <1>5, <1>6, <1>7 DEF Arch!Decoded

LEMMA NoWrite == \A g, x : set_reg_val(g, REG_NONE, x) = g
BY DEF set_reg_val, reg_valid, RegIds, REG_NONE

(* The context of the lemmas on the instructions. *)
Executes(icode) == PipeInductive /\ Arch!Supported /\ Executing /\ ByteOK(isa.pc) /\ i_f.icode = icode

(* Instructions that use no memory: they succeed. *)
LEMMA NoMemory ==
    ASSUME NEW icode \in {1, 2, 3, 6, 7, 12}, Executes(icode)
    PROVE  /\ Arch!Decoded(icode) /\ isa.stat' = "AOK" /\ isa.stat = "AOK" /\ isa.m' = isa.m
           /\ isa.pc' = IF icode = 7 /\ i_cond THEN i_f.valC ELSE Arch!ftpc
           /\ isa.r' = set_reg_val(isa.r, i_dstE(icode, Arch!lo1, i_cond), i_valE)
           /\ isa.cc' = IF icode \in {6, 12} THEN compute_cc(i_fun, i_A, i_B) ELSE isa.cc
<1>1. /\ ~mem_read(icode) /\ ~mem_write(icode)
      /\ dstM(icode, i_f.rA) = REG_NONE
      /\ i_pc(i_f, i_cond, i_valM) = IF icode = 7 /\ i_cond THEN i_f.valC ELSE i_f.valP
  BY ArchCodes DEF Executes, mem_read, mem_write, dstM, i_pc
<1>2. isa.stat' = "AOK" /\ isa.stat = "AOK" /\ Arch!Decoded(icode) /\ i_f.valP = Arch!ftpc /\ i_f.rB = Arch!lo1
  BY <1>1, DecodedFacts DEF Executes
<1>3. /\ isa.pc' = i_pc(i_f, i_cond, i_valM)
      /\ isa.r' = set_reg_val(set_reg_val(isa.r, i_dstE(icode, i_f.rB, i_cond), i_valE),
                               REG_NONE, i_valM)
      /\ isa.m' = isa.m
      /\ isa.cc' = IF icode \in {I_ALU, I_IADDQ} THEN compute_cc(i_fun, i_A, i_B) ELSE isa.cc
  BY <1>1, <1>2, After DEF Executes
<1>4. isa.r' = set_reg_val(isa.r, i_dstE(icode, i_f.rB, i_cond), i_valE)
  BY <1>3, NoWrite
<1> QED BY <1>1, <1>2, <1>3, <1>4, ArchCodes

LEMMA NopStep ==
    ASSUME Executes(1)
    PROVE  Arch!Nop
<1>1. i_dstE(1, Arch!lo1, i_cond) = REG_NONE
  BY ArchCodes DEF i_dstE, dstE
<1>2. isa.r' = isa.r
  BY <1>1, NoMemory, NoWrite
<1> QED BY <1>2, NoMemory, ArchCodes DEF Arch!Nop

LEMMA RrmovqStep ==
    ASSUME Executes(2)
    PROVE  Arch!Rrmovq
<1>1. i_valE = Arch!Reg(Arch!hi1)
  <2>1. i_valA = Arch!Reg(Arch!hi1)
    BY DecodedFacts, SameOperators, ArchCodes DEF Executes, i_valA, srcA, Arch!Reg
  <2>2. i_A = i_valA /\ i_B = 0 /\ i_fun = A_ADD
    BY ArchCodes DEF Executes, i_A, aluA, i_B, aluB, i_fun, alufun
  <2> QED BY <2>1, <2>2, Operands, AddZero DEF Executes, i_valE
<1>2. i_dstE(2, Arch!lo1, i_cond) = IF i_cond THEN Arch!lo1 ELSE REG_NONE
  BY ArchCodes DEF i_dstE, dstE
<1>3. isa.r' = IF Arch!cond_holds(isa.cc, Arch!lo0)
                THEN Arch!set_reg_val(isa.r, Arch!lo1, Arch!Reg(Arch!hi1)) ELSE isa.r
  BY <1>1, <1>2, NoMemory, NoWrite, DecodedFacts, SameOperators DEF Executes
<1> QED BY <1>3, NoMemory, ArchCodes DEF Arch!Rrmovq

LEMMA IrmovqStep ==
    ASSUME Executes(3)
    PROVE  Arch!Irmovq
<1>1. i_valE = Arch!cval
  <2>1. i_A = i_f.valC /\ i_B = 0 /\ i_fun = A_ADD /\ i_f.valC = Arch!cval
    BY DecodedFacts, ArchCodes DEF Executes, i_A, aluA, i_B, aluB, i_fun, alufun, need_valC
  <2> QED BY <2>1, ValC, AddZero DEF Executes, i_valE
<1>2. i_dstE(3, Arch!lo1, i_cond) = Arch!lo1
  BY ArchCodes DEF i_dstE, dstE
<1> QED BY <1>1, <1>2, NoMemory, SameOperators, ArchCodes DEF Arch!Irmovq

LEMMA AluStep ==
    ASSUME Executes(6)
    PROVE  Arch!Alu
<1>1. /\ i_A = Arch!Reg(Arch!hi1) /\ i_B = Arch!Reg(Arch!lo1) /\ i_fun = Arch!lo0
  <2>1. i_valA = Arch!Reg(Arch!hi1) /\ i_valB = Arch!Reg(Arch!lo1)
    BY DecodedFacts, SameOperators, ArchCodes DEF Executes, i_valA, srcA, i_valB, srcB, Arch!Reg
  <2>2. i_A = i_valA /\ i_B = i_valB /\ i_fun = i_f.ifun
    BY ArchCodes DEF Executes, i_A, aluA, i_B, aluB, i_fun, alufun
  <2> QED BY <2>1, <2>2, DecodedFacts DEF Executes
<1>2. i_dstE(6, Arch!lo1, i_cond) = Arch!lo1
  BY ArchCodes DEF i_dstE, dstE
<1>3. i_valE = Arch!compute_alu(Arch!lo0, Arch!Reg(Arch!hi1), Arch!Reg(Arch!lo1))
  BY <1>1, SameOperators DEF i_valE
<1>4. isa.r' = Arch!set_reg_val(isa.r, Arch!lo1, i_valE)
  BY <1>2, NoMemory, SameOperators
<1>5. isa.cc' = Arch!compute_cc(Arch!lo0, Arch!Reg(Arch!hi1), Arch!Reg(Arch!lo1))
  BY <1>1, NoMemory, SameOperators
<1> QED BY <1>3, <1>4, <1>5, NoMemory, ArchCodes DEF Arch!Alu

LEMMA JmpStep ==
    ASSUME Executes(7)
    PROVE  Arch!Jmp
<1>1. i_f.valC = Arch!cval /\ (i_cond <=> Arch!cond_holds(isa.cc, Arch!lo0))
  BY DecodedFacts, ArchCodes DEF Executes, need_valC
<1>2. i_dstE(7, Arch!lo1, i_cond) = REG_NONE
  BY ArchCodes DEF i_dstE, dstE
<1>3. isa.r' = isa.r
  BY <1>2, NoMemory, NoWrite
<1> QED BY <1>1, <1>3, NoMemory, ArchCodes DEF Arch!Jmp

LEMMA IaddqStep ==
    ASSUME Executes(12)
    PROVE  Arch!Iaddq
<1>1. i_A = Arch!cval /\ i_B = Arch!Reg(Arch!lo1) /\ i_fun = A_ADD
  <2>1. i_valB = Arch!Reg(Arch!lo1) /\ i_f.valC = Arch!cval
    BY DecodedFacts, SameOperators, ArchCodes DEF Executes, i_valB, srcB, Arch!Reg, need_valC
  <2> QED BY <2>1, ArchCodes DEF Executes, i_A, aluA, i_B, aluB, i_fun, alufun
<1>2. i_dstE(12, Arch!lo1, i_cond) = Arch!lo1
  BY ArchCodes DEF i_dstE, dstE
<1>3. i_valE = Arch!Wrap(Arch!Reg(Arch!lo1) + Arch!cval)
  <2>1. i_A \in Word /\ i_B \in Word
    BY Operands DEF Executes
  <2>2. i_valE = Wrap(i_A + i_B)
    BY <1>1, <2>1, AluAdds DEF i_valE
  <2>3. i_A + i_B = i_B + i_A
    BY <2>1, Bounds
  <2> QED BY <1>1, <2>2, <2>3, SameOperators
<1>4. isa.r' = Arch!set_reg_val(isa.r, Arch!lo1, i_valE)
  BY <1>2, NoMemory, SameOperators
<1>5. isa.cc' = Arch!compute_cc(Arch!A_ADD, Arch!cval, Arch!Reg(Arch!lo1))
  BY <1>1, NoMemory, SameOperators DEF A_ADD, Arch!A_ADD
<1> QED BY <1>3, <1>4, <1>5, NoMemory, ArchCodes DEF Arch!Iaddq

(* Instructions that use memory: they fail when the address is bad. *)
LEMMA WithMemory ==
    ASSUME NEW icode \in {4, 5, 8, 9, 10, 11}, Executes(icode)
    PROVE  /\ Arch!Decoded(icode) /\ isa.stat = "AOK"
           /\ ~WordOK(i_addr) => isa.stat' = "ADR" /\ UNCHANGED <<isa.pc, isa.r, isa.m, isa.cc>>
           /\ WordOK(i_addr) =>
                /\ isa.stat' = "AOK" /\ isa.cc' = isa.cc
                /\ isa.pc' = i_pc(i_f, i_cond, i_valM)
                /\ isa.r' = set_reg_val(set_reg_val(isa.r, dstE(icode, i_f.rB), i_valE),
                                         dstM(icode, i_f.rA), i_valM)
                /\ isa.m' = IF icode \in {4, 8, 10}
                             THEN set_word_val(isa.m, i_addr, i_data(icode, i_valA, i_f.valP))
                             ELSE isa.m
<1>1. /\ mem_read(icode) \/ mem_write(icode)
      /\ mem_write(icode) <=> icode \in {4, 8, 10}
      /\ icode \notin {I_ALU, I_IADDQ} /\ icode # I_RRMOVQ
  BY ArchCodes DEF mem_read, mem_write
<1>2. /\ Arch!Decoded(icode) /\ isa.stat = "AOK"
      /\ WordOK(i_addr) => isa.stat' = "AOK"
      /\ ~WordOK(i_addr) => isa.stat' = "ADR"
  BY <1>1, DecodedFacts DEF Executes
<1>3. i_dstE(icode, i_f.rB, i_cond) = dstE(icode, i_f.rB)
  BY <1>1 DEF i_dstE
<1>4. ASSUME ~WordOK(i_addr) PROVE UNCHANGED <<isa.pc, isa.r, isa.m, isa.cc>>
  BY <1>2, <1>4, After DEF Executes
<1>5. ASSUME WordOK(i_addr)
      PROVE  /\ isa.cc' = isa.cc
             /\ isa.pc' = i_pc(i_f, i_cond, i_valM)
             /\ isa.r' = set_reg_val(set_reg_val(isa.r, dstE(icode, i_f.rB), i_valE),
                                      dstM(icode, i_f.rA), i_valM)
             /\ isa.m' = IF icode \in {4, 8, 10}
                          THEN set_word_val(isa.m, i_addr, i_data(icode, i_valA, i_f.valP))
                          ELSE isa.m
  BY <1>1, <1>2, <1>3, <1>5, After DEF Executes
<1> QED BY <1>2, <1>4, <1>5

LEMMA RmmovqStep ==
    ASSUME Executes(4)
    PROVE  Arch!Rmmovq
<1>1. i_addr = Arch!DataAt /\ i_valA = Arch!Reg(Arch!hi1) /\ i_f.valP = Arch!ftpc
  BY Addresses, DecodedFacts, SameOperators, ArchCodes DEF Executes, i_valA, srcA, Arch!Reg
<1>2. /\ dstE(4, i_f.rB) = REG_NONE /\ dstM(4, i_f.rA) = REG_NONE
      /\ i_data(4, i_valA, i_f.valP) = i_valA
      /\ i_pc(i_f, i_cond, i_valM) = i_f.valP
  BY ArchCodes DEF Executes, dstE, dstM, i_data, i_pc
<1>3. CASE WordOK(i_addr)
  <2>1. isa.r' = isa.r
    BY <1>2, <1>3, WithMemory, NoWrite
  <2>2. isa.m' = Arch!set_word_val(isa.m, Arch!DataAt, Arch!Reg(Arch!hi1))
    BY <1>1, <1>2, <1>3, WithMemory, SameOperators
  <2>3. /\ isa.pc' = Arch!ftpc /\ isa.cc' = isa.cc /\ isa.stat' = isa.stat
        /\ Arch!Decoded(4) /\ Arch!WordOK(Arch!DataAt)
    BY <1>1, <1>2, <1>3, WithMemory, SameOperators
  <2> QED BY <2>1, <2>2, <2>3, ArchCodes DEF Arch!Rmmovq
<1>4. CASE ~WordOK(i_addr)
  <2>1. isa.m' = Arch!set_word_val(isa.m, Arch!DataAt, Arch!Reg(Arch!hi1))
    BY <1>1, <1>4, WithMemory, SameOperators DEF set_word_val
  <2>2. /\ isa.stat' = "ADR" /\ isa.pc' = isa.pc /\ isa.r' = isa.r /\ isa.cc' = isa.cc
        /\ Arch!Decoded(4) /\ ~Arch!WordOK(Arch!DataAt)
    BY <1>1, <1>4, WithMemory, SameOperators
  <2> QED BY <2>1, <2>2, ArchCodes DEF Arch!Rmmovq, Arch!Fail
<1> QED BY <1>3, <1>4

LEMMA MrmovqStep ==
    ASSUME Executes(5)
    PROVE  Arch!Mrmovq
<1>1. i_addr = Arch!DataAt /\ i_f.rA = Arch!hi1 /\ i_f.valP = Arch!ftpc
  BY Addresses, DecodedFacts, ArchCodes DEF Executes
<1>2. /\ dstE(5, i_f.rB) = REG_NONE /\ dstM(5, i_f.rA) = Arch!hi1
      /\ i_pc(i_f, i_cond, i_valM) = i_f.valP
  BY <1>1, ArchCodes DEF Executes, dstE, dstM, i_pc
<1>3. CASE WordOK(i_addr)
  <2>1. i_valM = Arch!get_word_val(isa.m, Arch!DataAt, 0)
    BY <1>1, <1>3, SameOperators, ArchCodes DEF Executes, i_valM, mem_read, get_word_val
  <2>2. isa.r' = Arch!set_reg_val(isa.r, Arch!hi1, i_valM)
    BY <1>2, <1>3, WithMemory, NoWrite, SameOperators
  <2>3. /\ isa.pc' = Arch!ftpc /\ isa.cc' = isa.cc /\ isa.stat' = isa.stat /\ isa.m' = isa.m
        /\ Arch!Decoded(5) /\ Arch!WordOK(Arch!DataAt)
    BY <1>1, <1>2, <1>3, WithMemory, SameOperators
  <2> QED BY <2>1, <2>2, <2>3, ArchCodes DEF Arch!Mrmovq
<1>4. CASE ~WordOK(i_addr)
  <2>1. /\ isa.stat' = "ADR" /\ isa.pc' = isa.pc /\ isa.r' = isa.r /\ isa.cc' = isa.cc
        /\ isa.m' = isa.m /\ Arch!Decoded(5) /\ ~Arch!WordOK(Arch!DataAt)
    BY <1>1, <1>4, WithMemory, SameOperators
  <2> QED BY <2>1, ArchCodes DEF Arch!Mrmovq, Arch!Fail
<1> QED BY <1>3, <1>4

LEMMA CallStep ==
    ASSUME Executes(8)
    PROVE  Arch!Call
<1>1. /\ i_addr = Arch!dvalPushed /\ i_valE = Arch!dvalPushed /\ i_f.valP = Arch!ftpc
      /\ i_f.valC = Arch!cval
  BY Addresses, DecodedFacts, ArchCodes DEF Executes, need_valC
<1>2. WordOK(i_addr)
  BY <1>1, SupportedFacts, ArchCodes DEF Executes
<1>3. /\ dstE(8, i_f.rB) = Arch!REG_RSP /\ dstM(8, i_f.rA) = REG_NONE
      /\ i_data(8, i_valA, i_f.valP) = i_f.valP
      /\ i_pc(i_f, i_cond, i_valM) = i_f.valC
  BY ArchCodes DEF Executes, dstE, dstM, i_data, i_pc, REG_RSP, Arch!REG_RSP
<1>4. isa.r' = Arch!set_reg_val(isa.r, Arch!REG_RSP, Arch!dvalPushed)
  BY <1>1, <1>2, <1>3, WithMemory, NoWrite, SameOperators
<1>5. isa.m' = Arch!set_word_val(isa.m, Arch!dvalPushed, Arch!ftpc)
  BY <1>1, <1>2, <1>3, WithMemory, SameOperators
<1>6. /\ isa.pc' = Arch!cval /\ isa.cc' = isa.cc /\ isa.stat' = isa.stat
      /\ Arch!Decoded(8) /\ Arch!WordOK(Arch!dvalPushed)
  BY <1>1, <1>2, <1>3, WithMemory, SameOperators
<1> QED BY <1>4, <1>5, <1>6, ArchCodes DEF Arch!Call

LEMMA RetStep ==
    ASSUME Executes(9)
    PROVE  Arch!Ret
<1>1. i_addr = Arch!dval /\ i_valE = Arch!dvalPopped
  BY Addresses DEF Executes
<1>2. /\ dstE(9, i_f.rB) = Arch!REG_RSP /\ dstM(9, i_f.rA) = REG_NONE
      /\ i_pc(i_f, i_cond, i_valM) = i_valM
  BY ArchCodes DEF Executes, dstE, dstM, i_pc, REG_RSP, Arch!REG_RSP
<1>3. CASE WordOK(i_addr)
  <2>1. i_valM = Arch!get_word_val(isa.m, Arch!dval, 0)
    BY <1>1, <1>3, SameOperators, ArchCodes DEF Executes, i_valM, mem_read, get_word_val
  <2>2. isa.r' = Arch!set_reg_val(isa.r, Arch!REG_RSP, Arch!dvalPopped)
    BY <1>1, <1>2, <1>3, WithMemory, NoWrite, SameOperators
  <2>3. /\ isa.pc' = i_valM /\ isa.cc' = isa.cc /\ isa.stat' = isa.stat /\ isa.m' = isa.m
        /\ Arch!Decoded(9) /\ Arch!WordOK(Arch!dval)
    BY <1>1, <1>2, <1>3, WithMemory, SameOperators
  <2> QED BY <2>1, <2>2, <2>3, ArchCodes DEF Arch!Ret
<1>4. CASE ~WordOK(i_addr)
  <2>1. /\ isa.stat' = "ADR" /\ isa.pc' = isa.pc /\ isa.r' = isa.r /\ isa.cc' = isa.cc
        /\ isa.m' = isa.m /\ Arch!Decoded(9) /\ ~Arch!WordOK(Arch!dval)
    BY <1>1, <1>4, WithMemory, SameOperators
  <2> QED BY <2>1, ArchCodes DEF Arch!Ret, Arch!Fail
<1> QED BY <1>3, <1>4

LEMMA PushqStep ==
    ASSUME Executes(10)
    PROVE  Arch!Pushq
<1>1. /\ i_addr = Arch!dvalPushed /\ i_valE = Arch!dvalPushed /\ i_f.valP = Arch!ftpc
      /\ i_valA = Arch!Reg(Arch!hi1)
  BY Addresses, DecodedFacts, SameOperators, ArchCodes DEF Executes, i_valA, srcA, Arch!Reg
<1>2. WordOK(i_addr)
  BY <1>1, SupportedFacts, ArchCodes DEF Executes
<1>3. /\ dstE(10, i_f.rB) = Arch!REG_RSP /\ dstM(10, i_f.rA) = REG_NONE
      /\ i_data(10, i_valA, i_f.valP) = i_valA
      /\ i_pc(i_f, i_cond, i_valM) = i_f.valP
  BY ArchCodes DEF Executes, dstE, dstM, i_data, i_pc, REG_RSP, Arch!REG_RSP
<1>4. isa.r' = Arch!set_reg_val(isa.r, Arch!REG_RSP, Arch!dvalPushed)
  BY <1>1, <1>2, <1>3, WithMemory, NoWrite, SameOperators
<1>5. isa.m' = Arch!set_word_val(isa.m, Arch!dvalPushed, Arch!Reg(Arch!hi1))
  BY <1>1, <1>2, <1>3, WithMemory, SameOperators
<1>6. /\ isa.pc' = Arch!ftpc /\ isa.cc' = isa.cc /\ isa.stat' = isa.stat
      /\ Arch!Decoded(10) /\ Arch!WordOK(Arch!dvalPushed)
  BY <1>1, <1>2, <1>3, WithMemory, SameOperators
<1> QED BY <1>4, <1>5, <1>6, ArchCodes DEF Arch!Pushq

LEMMA PopqStep ==
    ASSUME Executes(11)
    PROVE  Arch!Popq
<1>1. /\ i_addr = Arch!dval /\ i_valE = Arch!dvalPopped /\ i_f.valP = Arch!ftpc /\ i_f.rA = Arch!hi1
  BY Addresses, DecodedFacts DEF Executes
<1>2. WordOK(i_addr)
  BY <1>1, SupportedFacts, ArchCodes DEF Executes
<1>3. /\ dstE(11, i_f.rB) = Arch!REG_RSP /\ dstM(11, i_f.rA) = Arch!hi1
      /\ i_pc(i_f, i_cond, i_valM) = i_f.valP
  BY <1>1, ArchCodes DEF Executes, dstE, dstM, i_pc, REG_RSP, Arch!REG_RSP
<1>4. i_valM = Arch!get_word_val(isa.m, Arch!dval, 0)
  BY <1>1, <1>2, SameOperators, ArchCodes DEF Executes, i_valM, mem_read, get_word_val
<1>5. isa.r' = Arch!set_reg_val(Arch!set_reg_val(isa.r, Arch!REG_RSP, Arch!dvalPopped),
                                 Arch!hi1, i_valM)
  BY <1>1, <1>2, <1>3, WithMemory, SameOperators
<1>6. /\ isa.pc' = Arch!ftpc /\ isa.cc' = isa.cc /\ isa.stat' = isa.stat /\ isa.m' = isa.m
      /\ Arch!Decoded(11) /\ Arch!WordOK(Arch!dval)
  BY <1>1, <1>2, <1>3, WithMemory, SameOperators
<1> QED BY <1>4, <1>5, <1>6, ArchCodes DEF Arch!Popq

LEMMA StepIsInstruction ==
    ASSUME PipeInductive, Executing
    PROVE  Arch!Next
<1>1. Arch!Supported /\ Executing
  BY DEF Executing, SupportedCycle
<1>2. CASE ~ByteOK(isa.pc) \/ i_f.icode \notin 1 .. 12
  BY <1>1, <1>2, StopStep DEF Arch!Next, Arch!step_state
<1>3. CASE ByteOK(isa.pc) /\ i_f.icode \in 1 .. 12
  <2>1. Executes(i_f.icode)
    BY <1>1, <1>3 DEF Executes
  <2>2. i_f.icode \in {1, 2, 3, 4, 5, 6, 7, 8, 9, 10, 11, 12}
    BY <1>3
  <2>3. Arch!step_state
    BY <2>1, <2>2, NopStep, RrmovqStep, IrmovqStep, RmmovqStep, MrmovqStep, AluStep, JmpStep,
       CallStep, RetStep, PushqStep, PopqStep, IaddqStep DEF Arch!step_state
  <2> QED BY <1>1, <2>3 DEF Arch!Next
<1> QED BY <1>2, <1>3

-----------------------------------------------------------------------------
(* A cycle in which no instruction moves from E to M does nothing.         *)

(* An instruction that failed in M moves to W, and nothing follows it. *)
LEMMA FailureStays ==
    ASSUME PipeInductive, SupportedCycle, isa.stat # "AOK"
    PROVE  UNCHANGED isa
<1>1. Cycle /\ W.stat \notin Exceptions
  BY NotYetFailed DEF SupportedCycle, Cycle
<1>2. m_stat \in Exceptions /\ isaStat = m_stat
  BY <1>1, IsaFields DEF isaStat
<1>3. W' = next_W /\ M' = bubble_M /\ W'.stat = m_stat /\ W'.pc = M.pc
  BY <1>1, <1>2, PipesMove, Fields
<1>4. isaStat' = isaStat /\ isaPc' = isaPc
  BY <1>1, <1>2, <1>3 DEF isaStat, isaPc
<1>5. isaReg' = isaReg
  <2>1. isaReg' = reg'
    BY <1>2, <1>3 DEF isaReg
  <2> QED BY <1>1, <1>2, <2>1, PipesMove DEF isaReg
<1>6. isaMem' = isaMem
  <2>1. isaMem' = IF mem_write(M'.icode) THEN set_word_val(mem', m_addr', M'.valA) ELSE mem'
    BY DEF isaMem
  <2>2. ~mem_write(M'.icode)
    BY <1>3, Codes DEF bubble_M, mem_write
  <2> QED BY <1>1, <2>1, <2>2, PipesMove
<1>7. cc' = cc
  BY <1>1, <1>2, PipesMove DEF e_cc, set_cc, PipeInductive
<1> QED BY <1>4, <1>5, <1>6, <1>7 DEF SupportedCycle, PipeInductive, isaState

LEMMA BubbleStays ==
    ASSUME PipeInductive, SupportedCycle, isa.stat = "AOK", E.stat = "BUB"
    PROVE  UNCHANGED isa
<1> USE Codes
<1>1. Cycle /\ W.stat \notin Exceptions /\ m_stat \notin Exceptions
  BY NotYetFailed, IsaFields DEF SupportedCycle, Cycle, isaStat, Exceptions
<1>2. /\ E.icode = I_NOP /\ E.dstE = REG_NONE /\ E.dstM = REG_NONE
      /\ D.stat = "BUB" => D.icode = I_NOP
  BY DEF PipeInductive, BubblesAreNops
<1>3. M' = next_M /\ W' = next_W /\ M'.icode = I_NOP /\ M'.stat = "BUB"
  BY <1>1, <1>2, PipesMove, Fields
<1>4. E' = next_E /\ E'.stat = D.stat /\ E'.pc = D.pc /\ ~LoadUse /\ ~Mispredicted
  BY <1>1, <1>2, PipesMove, Fields DEF E_bubble, Mispredicted, LoadUse
<1>5. m_stat' \notin Exceptions /\ isaStat' = "AOK"
  <2>1. m_stat' = M'.stat
    <3>1. m_stat' = IF (mem_read(M'.icode) \/ mem_write(M'.icode)) /\ ~WordOK(m_addr') THEN "ADR" ELSE M'.stat
      BY DEF m_stat, dmem_error
    <3> QED BY <1>3, <3>1 DEF mem_read, mem_write
  <2> QED BY <1>1, <1>3, <2>1, Fields DEF isaStat, Exceptions
<1>6. isaPc' = isaPc
  <2>1. isaPc' = IF E'.stat # "BUB" THEN E'.pc ELSE IF D'.stat # "BUB" THEN D'.pc ELSE f_pc'
    BY <1>1, <1>3, <1>5, Fields DEF isaPc
  <2>2. isaPc = IF M.icode = I_RET THEN m_valM ELSE IF D.stat # "BUB" THEN D.pc ELSE f_pc
    BY <1>1 DEF isaPc
  <2>3. CASE M.icode = I_RET
    <3>1. D.stat = "BUB" /\ E'.stat = "BUB"
      BY <1>4, <2>3 DEF PipeInductive, BubblesFollow
    <3>2. D' = bubble_D
      BY <1>1, <1>4, <2>3, PipesMove DEF D_stall, D_bubble, Returning
    <3>3. f_pc' = m_valM
      <4>1. f_pc' = IF M'.icode = I_JMP /\ ~M'.Cnd THEN M'.valA
                    ELSE IF W'.icode = I_RET THEN W'.valM ELSE F'
        BY DEF f_pc
      <4> QED BY <1>3, <2>3, <4>1, Fields
    <3> QED BY <2>1, <2>2, <2>3, <3>1, <3>2, <3>3 DEF bubble_D
  <2>4. CASE M.icode # I_RET /\ D.stat # "BUB"
    BY <1>4, <2>1, <2>2, <2>4
  <2>5. CASE M.icode # I_RET /\ D.stat = "BUB"
    <3>1. D' = next_D
      BY <1>1, <1>2, <1>4, <2>5, PipesMove DEF D_stall, D_bubble, Returning
    <3> QED BY <1>4, <2>1, <2>2, <2>5, <3>1, Fields
  <2> QED BY <2>3, <2>4, <2>5
<1>7. isaReg' = isaReg
  <2>1. isaReg' = WrittenBack(isaReg, e_dstE, e_valE, E.dstM, m_valM')
    BY <1>1, <1>5, NextReg
  <2>2. e_dstE = REG_NONE
    BY <1>2 DEF e_dstE
  <2> QED BY <1>2, <2>1, <2>2, NoWrite DEF WrittenBack
<1>8. isaMem' = isaMem
  <2>1. isaMem' = IF mem_write(M'.icode) THEN set_word_val(mem', m_addr', M'.valA) ELSE mem'
    BY DEF isaMem
  <2>2. ~mem_write(M'.icode)
    BY <1>3 DEF mem_write
  <2> QED BY <1>1, <2>1, <2>2, PipesMove
<1>9. cc' = cc
  BY <1>1, <1>2, PipesMove DEF e_cc, set_cc, PipeInductive
<1> QED BY <1>1, <1>5, <1>6, <1>7, <1>8, <1>9, IsaFields DEF SupportedCycle, PipeInductive, isaState, isaStat

-----------------------------------------------------------------------------
(* The invariant is inductive. *)

(* The memory an instruction uses when it has moved to M. *)
LEMMA MStep ==
    ASSUME PipeInductive, NamesRegisters, SupportedCycle
    PROVE  MIsApart' /\ FailuresAreIdle'
<1> USE Codes
<1>1. MIsApart' <=> (WordOK(m_addr') => /\ mem_read(M'.icode) => m_addr' + WordBytes <= MemLen
                                        /\ mem_write(M'.icode) => m_addr' >= ProgLen)
  BY DEF MIsApart
<1>2. FailuresAreIdle' <=> (M'.stat \in Exceptions => ~mem_read(M'.icode) /\ ~mem_write(M'.icode))
  BY DEF FailuresAreIdle, Exceptions
<1>3. Cycle /\ Arch!Supported
  BY DEF SupportedCycle
<1>4. CASE isa.stat = "AOK" /\ E.stat # "BUB"
  <2>1. Executing
    BY <1>4 DEF Executing
  <2>2. /\ M' = next_M /\ m_addr' = i_addr /\ M'.icode = i_f.icode /\ M'.stat = E.stat
        /\ E.stat = (IF ~ByteOK(isa.pc) THEN "ADR" ELSE i_stat(i_f.icode, FALSE))
    BY <1>3, <1>4, <2>1, Moves, EIsNext, Fields
  <2>3. ~ByteOK(isa.pc) => i_f.icode = I_NOP
    BY <1>3, SupportedFacts, FetchFacts
  <2>4. FailuresAreIdle'
    BY <1>2, <2>2, <2>3 DEF i_stat, Exceptions, instr_valid, mem_read, mem_write
  <2>5. ASSUME WordOK(i_addr), mem_read(i_f.icode) PROVE i_addr + WordBytes <= MemLen
    <3>1. ByteOK(isa.pc) /\ i_f.icode \in {5, 9, 11}
      BY <2>3, <2>5 DEF mem_read
    <3>2. i_addr \in {Arch!DataAt, Arch!dval}
      BY <1>3, <3>1, Addresses
    <3> QED BY <1>3, <2>5, <3>1, <3>2, SupportedFacts
  <2>6. ASSUME WordOK(i_addr), mem_write(i_f.icode) PROVE i_addr >= ProgLen
    <3>1. ByteOK(isa.pc) /\ i_f.icode \in {4, 8, 10}
      BY <2>3, <2>6 DEF mem_write
    <3>2. i_f.icode = Arch!hi0
      BY <1>3, <3>1, SupportedFacts, FetchFacts
    <3>3. Arch!StoreAt < 0 \/ Arch!StoreAt >= ProgLen
      BY <1>3, <3>1, <3>2, SameOperators, ArchCodes DEF Arch!Supported, Arch!Pushes
    <3>4. i_addr = Arch!StoreAt
      BY <1>3, <3>1, <3>2, Addresses, ArchCodes DEF Arch!StoreAt, Arch!Pushes
    <3>5. i_addr >= 0
      BY <2>6 DEF WordOK
    <3>6. i_addr \in Int
      BY <1>3, <2>1, Addresses, Operands, Bounds DEF i_addr, mem_addr
    <3> QED BY <3>3, <3>4, <3>5, <3>6
  <2> QED BY <1>1, <2>2, <2>4, <2>5, <2>6
<1>5. CASE ~(isa.stat = "AOK" /\ E.stat # "BUB")
  <2>1. M'.icode = I_NOP
    <3>1. CASE m_stat \in Exceptions
      BY <1>3, <3>1, PipesMove DEF bubble_M
    <3>2. CASE m_stat \notin Exceptions
      <4>1. isa.stat = "AOK"
        BY <1>3, <3>2, IsaFields, NotYetFailed DEF isaStat, Cycle
      <4>2. E.icode = I_NOP
        BY <1>5, <4>1 DEF PipeInductive, BubblesAreNops
      <4> QED BY <1>3, <3>2, <4>2, PipesMove, Fields
    <3> QED BY <3>1, <3>2
  <2> QED BY <1>1, <1>2, <2>1 DEF mem_read, mem_write
<1> QED BY <1>4, <1>5

LEMMA InductiveStep ==
    ASSUME PipeInductive, NamesRegisters, SupportedCycle
    PROVE  PipeInductive'
<1>1. /\ Cycle /\ isa' = isaState' /\ idle' = IF W'.stat = "BUB" THEN idle + 1 ELSE 0
      /\ PipeTypeOK /\ MoreTypes /\ BubblesAreNops /\ BubblesFollow /\ DIsFetched /\ MIsApart /\ IdleBounds
  BY DEF SupportedCycle, PipeInductive
<1>2. PipeTypeOK' /\ MoreTypes'
  BY <1>1, TypeStep
<1>3. BubblesAreNops' /\ BubblesFollow' /\ IdleBounds'
  BY <1>1, BubblesStep, FollowStep, IdleStep
<1>4. DIsFetched' /\ EIsDecoded'
  BY <1>1, DStep, EStep
<1>5. MIsApart' /\ FailuresAreIdle'
  BY MStep
<1>6. cc_in' = cc'
  BY <1>1, PipesMove
<1> QED BY <1>1, <1>2, <1>3, <1>4, <1>5, <1>6 DEF PipeInductive

LEMMA InductiveInit == PInit => PipeInductive
<1> USE Codes
<1> SUFFICES ASSUME PInit PROVE PipeInductive
  OBVIOUS
<1>1. /\ D = bubble_D /\ E = bubble_E /\ M = bubble_M /\ W = bubble_W /\ isa = isaState /\ F = 0
      /\ reg = [id \in RegIds |-> 0] /\ cc = DEFAULT_CC /\ cc_in = DEFAULT_CC /\ mem \in Images
  BY DEF PInit, PReset, sim_reset
<1>2. BubblesAreNops /\ BubblesFollow /\ IdleBounds
  BY BubblesInit
<1>3. PipeTypeOK /\ MoreTypes
  <2>1. mem \in Memory
    BY <1>1, ImagesAssumption DEF Memory
  <2>2. DEFAULT_CC \in CondCodes
    BY DEF DEFAULT_CC, CondCodes
  <2> QED BY <1>1, <2>1, <2>2, Bounds
          DEF bubble_D, bubble_E, bubble_M, bubble_W, PipeTypeOK, MoreTypes, Exceptions
<1>4. DIsFetched /\ EIsDecoded
  BY <1>1 DEF bubble_D, bubble_E, DIsFetched, EIsDecoded
<1>5. MIsApart /\ FailuresAreIdle
  BY <1>1 DEF bubble_M, MIsApart, FailuresAreIdle, mem_read, mem_write
<1> QED BY <1>1, <1>2, <1>3, <1>4, <1>5 DEF PipeInductive

-----------------------------------------------------------------------------
(* The theorems. *)

LEMMA AlwaysInductive == NamesRegisters /\ PSpec => [](NamesRegisters /\ PipeInductive)
<1>1. NamesRegisters /\ PInit => NamesRegisters /\ PipeInductive
  BY InductiveInit
<1>2. NamesRegisters /\ PipeInductive /\ [SupportedCycle]_pvars => (NamesRegisters /\ PipeInductive)'
  <2> SUFFICES ASSUME NamesRegisters, PipeInductive, [SupportedCycle]_pvars
               PROVE  (NamesRegisters /\ PipeInductive)'
    OBVIOUS
  <2>1. NamesRegisters'
    BY DEF NamesRegisters
  <2>2. CASE SupportedCycle
    BY <2>1, <2>2, InductiveStep
  <2>3. CASE UNCHANGED pvars
    <3>1. UNCHANGED <<mem, reg, cc, cc_in, F, D, E, M, W, isa, idle>>
      BY <2>3 DEF pvars
    <3>2. PipeTypeOK' /\ MoreTypes' /\ BubblesAreNops' /\ BubblesFollow' /\ IdleBounds' /\ cc_in' = cc'
      BY <3>1 DEF PipeInductive, PipeTypeOK, MoreTypes, BubblesAreNops, BubblesFollow, IdleBounds, Exceptions
    <3>3. UNCHANGED <<m_addr, m_valM, m_stat, f_pc>>
      BY <3>1 DEF m_addr, m_valM, m_stat, dmem_error, f_pc
    <3>4. MIsApart' /\ FailuresAreIdle' /\ DIsFetched'
      BY <3>1, <3>3 DEF PipeInductive, MIsApart, FailuresAreIdle, DIsFetched, Exceptions
    <3>5. UNCHANGED <<isaStat, isaPc, isaReg, isaMem>>
      BY <3>1, <3>3 DEF isaStat, isaPc, isaReg, isaMem, Exceptions
    <3>6. EIsDecoded' /\ isa' = isaState'
      BY <3>1, <3>5 DEF PipeInductive, EIsDecoded, isaState
    <3> QED BY <2>1, <3>2, <3>4, <3>6 DEF PipeInductive
  <2> QED BY <2>2, <2>3
<1> QED BY <1>1, <1>2, PTL DEF PSpec

(* psim's pipeline registers hold words, register IDs and statuses, and    *)
(* memory stays memory, whatever the supported program.                    *)
THEOREM PipeTypes == NamesRegisters /\ PSpec => []PipeTypeOK
<1>1. PipeInductive => PipeTypeOK
  BY DEF PipeInductive
<1> QED BY <1>1, AlwaysInductive, PTL

(* Branches and conditional moves after a subtraction in execute compare   *)
(* its operands as integers, in every cycle.                               *)
THEOREM BranchesCorrect == NamesRegisters /\ PSpec => []BranchesCompare
<1>1. PipeInductive => BranchesCompare
  <2> SUFFICES ASSUME PipeInductive PROVE BranchesCompare
    OBVIOUS
  <2>1. e_A \in Word /\ e_B \in Word
    BY ExecuteTypes DEF PipeInductive
  <2> QED BY <2>1, SubtractionCompares DEF BranchesCompare
<1> QED BY <1>1, AlwaysInductive, PTL

(* Every cycle of psim.c does what step_state of isa.c does or nothing,    *)
(* from the same state on, whatever stalls, bubbles and forwarding the     *)
(* program causes: the safety part of ImplementsY86.                       *)
THEOREM PipeStepsAreY86 ==
    NamesRegisters /\ PSpec => Arch!Init /\ [][Arch!Next]_(Arch!vars)
<1>1. PInit => Arch!Init
  <2> SUFFICES ASSUME PInit PROVE Arch!Init
    OBVIOUS
  <2>1. /\ D = bubble_D /\ E = bubble_E /\ M = bubble_M /\ W = bubble_W /\ F = 0
        /\ reg = [id \in RegIds |-> 0] /\ cc = DEFAULT_CC /\ mem \in Images
    BY DEF PInit, PReset, sim_reset
  <2>2. /\ PipeInductive /\ isa.pc = isaPc /\ isa.r = isaReg /\ isa.m = isaMem /\ isa.cc = cc
        /\ isa.stat = isaStat
    BY InductiveInit, IsaFields
  <2>3. m_stat = "BUB" /\ isaStat = "AOK"
    BY <2>1, Codes DEF m_stat, dmem_error, mem_read, mem_write, bubble_M, bubble_W, isaStat, Exceptions
  <2>4. isaPc = 0
    BY <2>1, <2>3, Codes DEF isaPc, f_pc, bubble_D, bubble_E, bubble_M, bubble_W, Exceptions
  <2>5. isaReg = reg
    BY <2>1, <2>3, NoWrite DEF isaReg, WrittenBack, bubble_M, bubble_W, Exceptions
  <2>6. isaMem = mem /\ mem \in Memory
    BY <2>1, ImagesAssumption, Codes DEF isaMem, mem_write, bubble_M, Memory
  <2> QED BY <2>1, <2>2, <2>3, <2>4, <2>5, <2>6, SameOperators
          DEF Arch!Init, DEFAULT_CC, Arch!DEFAULT_CC, RegIds, Arch!RegIds, REG_NONE, Arch!REG_NONE
<1>2. NamesRegisters /\ PipeInductive /\ [SupportedCycle]_pvars => [Arch!Next]_(Arch!vars)
  <2> SUFFICES ASSUME NamesRegisters, PipeInductive, [SupportedCycle]_pvars
               PROVE  [Arch!Next]_(Arch!vars)
    OBVIOUS
  <2>1. CASE SupportedCycle /\ isa.stat = "AOK" /\ E.stat # "BUB"
    BY <2>1, StepIsInstruction DEF Executing
  <2>2. CASE SupportedCycle /\ ~(isa.stat = "AOK" /\ E.stat # "BUB")
    <3>1. UNCHANGED isa
      BY <2>2, FailureStays, BubbleStays
    <3> QED BY <3>1 DEF Arch!vars
  <2>3. CASE UNCHANGED pvars
    BY <2>3 DEF pvars, Arch!vars
  <2> QED BY <2>1, <2>2, <2>3
<1> QED BY <1>1, <1>2, AlwaysInductive, PTL DEF PSpec

=============================================================================
