-------------------------------- MODULE Pipe --------------------------------
(***************************************************************************)
(* The pipelined processor: sim_step_pipe of psim.c with the control logic *)
(* of pipe-full.hcl.  A cycle updates the program-visible state and the    *)
(* five pipeline registers from the signals the stages computed after the  *)
(* last update; those signals are functions of the state, named as in the  *)
(* HCL file (f_ fetch, d_ decode, e_ execute, m_ memory).                  *)
(*                                                                         *)
(* Init is the state after the first cycle, which moves bubbles only.      *)
(***************************************************************************)
EXTENDS Control

CONSTANT FetchReach   \* fetch tests that this byte after f_pc is in memory: 5

VARIABLES
    mem, reg, cc,     \* memory, registers, condition codes
    cc_in,            \* the condition codes execute computed last
    F, D, E, M, W     \* the pipeline registers; F is predPC

vars == <<mem, reg, cc, cc_in, F, D, E, M, W>>

bubble_D == [stat |-> "BUB", icode |-> I_NOP, ifun |-> 0, rA |-> REG_NONE, rB |-> REG_NONE,
             valC |-> 0, valP |-> 0, pc |-> 0]
bubble_E == [stat |-> "BUB", icode |-> I_NOP, ifun |-> 0, valC |-> 0, valA |-> 0, valB |-> 0,
             dstE |-> REG_NONE, dstM |-> REG_NONE, pc |-> 0]
bubble_M == [stat |-> "BUB", icode |-> I_NOP, Cnd |-> FALSE, valE |-> 0, valA |-> 0,
             dstE |-> REG_NONE, dstM |-> REG_NONE, pc |-> 0]
bubble_W == [stat |-> "BUB", icode |-> I_NOP, valE |-> 0, valM |-> 0,
             dstE |-> REG_NONE, dstM |-> REG_NONE, pc |-> 0]

Exceptions == {"ADR", "INS", "HLT"}

-----------------------------------------------------------------------------
(* Fetch. *)

f_pc == IF M.icode = I_JMP /\ ~M.Cnd THEN M.valA
        ELSE IF W.icode = I_RET THEN W.valM
        ELSE F

imem_error == ~ByteOK(f_pc) \/ ~ByteOK(f_pc + FetchReach)

f == Fetched(mem, f_pc, imem_error)

f_stat(icode) == IF imem_error THEN "ADR"
                 ELSE IF ~instr_valid(icode) THEN "INS"
                 ELSE IF icode = I_HALT THEN "HLT"
                 ELSE "AOK"

f_predPC == LET i == f IN IF i.icode \in {I_JMP, I_CALL} THEN i.valC ELSE i.valP

next_D == LET i == f
          IN  [stat |-> f_stat(i.icode), icode |-> i.icode, ifun |-> i.ifun,
               rA |-> i.rA, rB |-> i.rB, valC |-> i.valC, valP |-> i.valP, pc |-> f_pc]

-----------------------------------------------------------------------------
(* Memory. *)

m_addr == mem_addr(M.icode, M.valE, M.valA)

dmem_error == (mem_read(M.icode) \/ mem_write(M.icode)) /\ ~WordOK(m_addr)

m_valM == IF mem_read(M.icode) THEN get_word_val(mem, m_addr, 0) ELSE 0
m_stat == IF dmem_error THEN "ADR" ELSE M.stat

next_W == [stat |-> m_stat, icode |-> M.icode, valE |-> M.valE, valM |-> m_valM,
           dstE |-> M.dstE, dstM |-> M.dstM, pc |-> M.pc]

-----------------------------------------------------------------------------
(* Execute. *)

e_fun == alufun(E.icode, E.ifun)
e_A   == aluA(E.icode, E.valA, E.valC)
e_B   == aluB(E.icode, E.valB)

(* Faulty: an instruction behind one that failed sets the condition codes. *)
set_cc_Always == E.icode \in {I_ALU, I_IADDQ}

set_cc == E.icode \in {I_ALU, I_IADDQ} /\ m_stat \notin Exceptions /\ W.stat \notin Exceptions

e_cc   == IF set_cc THEN compute_cc(e_fun, e_A, e_B) ELSE cc_in
e_Cnd  == cond_holds(cc, E.ifun)
e_valE == compute_alu(e_fun, e_A, e_B)
e_dstE == IF E.icode = I_RRMOVQ /\ ~e_Cnd THEN REG_NONE ELSE E.dstE

next_M == [stat |-> E.stat, icode |-> E.icode, Cnd |-> e_Cnd, valE |-> e_valE,
           valA |-> E.valA, dstE |-> e_dstE, dstM |-> E.dstM, pc |-> E.pc]

-----------------------------------------------------------------------------
(* Decode and write-back. *)

d_srcA == srcA(D.icode, D.rA)
d_srcB == srcB(D.icode, D.rB)

(* Faulty: execute's result is preferred to the value memory reads. *)
Forwarded_EBeforeM(src) ==
    IF src = e_dstE THEN e_valE
    ELSE IF src = M.dstE THEN M.valE
    ELSE IF src = M.dstM THEN m_valM
    ELSE IF src = W.dstM THEN W.valM
    ELSE IF src = W.dstE THEN W.valE
    ELSE get_reg_val(reg, src)

(* The youngest instruction ahead that writes src delivers it; within one  *)
(* instruction valM comes before valE.                                     *)
Forwarded(src) ==
    IF src = e_dstE THEN e_valE
    ELSE IF src = M.dstM THEN m_valM
    ELSE IF src = M.dstE THEN M.valE
    ELSE IF src = W.dstM THEN W.valM
    ELSE IF src = W.dstE THEN W.valE
    ELSE get_reg_val(reg, src)

d_valA == IF D.icode \in {I_CALL, I_JMP} THEN D.valP ELSE Forwarded(d_srcA)
d_valB == Forwarded(d_srcB)

next_E == [stat |-> D.stat, icode |-> D.icode, ifun |-> D.ifun, valC |-> D.valC,
           valA |-> d_valA, valB |-> d_valB,
           dstE |-> dstE(D.icode, D.rB), dstM |-> dstM(D.icode, D.rA), pc |-> D.pc]

Stat == IF W.stat = "BUB" THEN "AOK" ELSE W.stat

-----------------------------------------------------------------------------
(* Control of the pipeline registers. *)

(* Faulty: it is not asked whether E loads from memory at all. *)
LoadUse_AnyInstruction == E.dstM \in {d_srcA, d_srcB}

LoadUse      == E.icode \in {I_MRMOVQ, I_POPQ} /\ E.dstM \in {d_srcA, d_srcB}
Returning    == I_RET \in {D.icode, E.icode, M.icode}
Mispredicted == E.icode = I_JMP /\ ~e_Cnd
Failing      == m_stat \in Exceptions \/ W.stat \in Exceptions

F_stall  == LoadUse \/ Returning
D_stall  == LoadUse

(* Faulty: a return in decode bubbles decode although a load stalls it. *)
D_bubble_RetFirst == Mispredicted \/ Returning

D_bubble == Mispredicted \/ (~LoadUse /\ Returning)
E_bubble == Mispredicted \/ LoadUse
M_bubble == Failing
W_stall  == W.stat \in Exceptions

pipe_cntl(stall, bubble) ==
    CASE stall /\ bubble   -> "ERROR"
      [] stall /\ ~bubble  -> "STALL"
      [] ~stall /\ bubble  -> "BUBBLE"
      [] ~stall /\ ~bubble -> "LOAD"

(* update_pipes: a register's content after the cycle.                     *)
Updated(op, current, next, bubble) ==
    CASE op = "BUBBLE" -> bubble
      [] op = "LOAD"   -> next
      [] op = "ERROR"  -> [bubble EXCEPT !.stat = "PIP"]
      [] op = "STALL"  -> current

update_pipes ==
    /\ F' = IF F_stall THEN F ELSE f_predPC
    /\ D' = Updated(pipe_cntl(D_stall, D_bubble), D, next_D, bubble_D)
    /\ E' = Updated(pipe_cntl(FALSE, E_bubble), E, next_E, bubble_E)
    /\ M' = Updated(pipe_cntl(FALSE, M_bubble), M, next_M, bubble_M)
    /\ W' = Updated(pipe_cntl(W_stall, FALSE), W, next_W, bubble_W)

update_state(update_mem, update_cc) ==
    /\ reg' = WrittenBack(reg, W.dstE, W.valE, W.dstM, W.valM)
    /\ mem' = IF update_mem /\ mem_write(M.icode) THEN set_word_val(mem, m_addr, M.valA)
              ELSE mem
    /\ cc_in' = e_cc
    /\ cc' = IF update_cc THEN e_cc ELSE cc

(* How many instructions are ahead of the ones in memory and in execute.   *)
ahead_mem == IF W.stat # "BUB" THEN 1 ELSE 0
ahead_ex  == IF m_stat # "BUB" THEN ahead_mem + 1 ELSE ahead_mem

(* Memory and condition codes stay when that many instructions are enough. *)
sim_step_pipe(max_instr) ==
    /\ update_state(ahead_mem < max_instr, ahead_ex < max_instr)
    /\ update_pipes

-----------------------------------------------------------------------------

sim_reset ==
    /\ reg = [id \in RegIds |-> 0]
    /\ cc = DEFAULT_CC /\ cc_in = DEFAULT_CC
    /\ F = 0 /\ D = bubble_D /\ E = bubble_E /\ M = bubble_M /\ W = bubble_W

Init == mem \in Images /\ sim_reset

(* A limit of three instructions or more changes nothing.                  *)
Cycle == Stat = "AOK" /\ sim_step_pipe(3)

Spec == Init /\ [][Cycle]_vars /\ WF_vars(Cycle)
=============================================================================
