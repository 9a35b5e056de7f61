-------------------------------- MODULE Seq --------------------------------
(***************************************************************************)
(* The sequential processor: sim_step of ssim.c with the control logic of  *)
(* seq-full.hcl.  A step first commits what the step before it computed,   *)
(* then computes the next instruction from the committed state.            *)
(***************************************************************************)
EXTENDS Control

VARIABLES
    pc, reg, mem, cc,   \* the committed state
    w,                  \* what the last step computed, not yet committed
    status              \* the last step's status

vars == <<pc, reg, mem, cc, w, status>>

-----------------------------------------------------------------------------

(* Faulty: a conditional move that is not taken still writes. *)
seq_dstE_Always(icode, rB, cond) == dstE(icode, rB)

seq_dstE(icode, rB, cond) ==
    IF icode = I_RRMOVQ /\ ~cond THEN REG_NONE ELSE dstE(icode, rB)

mem_data(icode, valA, valP) ==
    CASE icode \in {I_RMMOVQ, I_PUSHQ} -> valA
      [] icode = I_CALL                -> valP
      [] OTHER                         -> 0

Stat(icode, error) ==
    IF error THEN "ADR"
    ELSE IF ~instr_valid(icode) THEN "INS"
    ELSE IF icode = I_HALT THEN "HLT"
    ELSE "AOK"

new_pc(f, cond, valM) ==
    CASE f.icode = I_CALL \/ (f.icode = I_JMP /\ cond) -> f.valC
      [] f.icode = I_RET                               -> valM
      [] OTHER                                         -> f.valP

(* The wires, computed from a program counter p, registers g, memory m and *)
(* condition codes c.                                                      *)
Computed(p, g, m, c) ==
    LET f     == Fetched(m, p, ~ByteOK(p))
        valA  == get_reg_val(g, srcA(f.icode, f.rA))
        valB  == get_reg_val(g, srcB(f.icode, f.rB))
        cond  == cond_holds(c, f.ifun)
        A     == aluA(f.icode, valA, f.valC)
        B     == aluB(f.icode, valB)
        fun   == alufun(f.icode, f.ifun)
        valE  == compute_alu(fun, A, B)
        addr  == mem_addr(f.icode, valE, valA)
        access == mem_read(f.icode) \/ mem_write(f.icode)
        valM  == IF mem_read(f.icode) THEN get_word_val(m, addr, w.valm) ELSE 0
    IN  [pc_in |-> new_pc(f, cond, valM),
         cc_in |-> IF f.icode \in {I_ALU, I_IADDQ} THEN compute_cc(fun, A, B) ELSE c,
         destE |-> seq_dstE(f.icode, f.rB, cond), vale |-> valE,
         destM |-> dstM(f.icode, f.rA),           valm |-> valM,
         mem_write |-> mem_write(f.icode), mem_addr |-> addr,
         mem_data  |-> mem_data(f.icode, valA, f.valP),
         status    |-> Stat(f.icode, ~ByteOK(p) \/ (access /\ ~WordOK(addr)))]

(* sim_reset: nothing is pending but the program counter's 0.              *)
ResetWires ==
    [pc_in |-> 0, cc_in |-> DEFAULT_CC,
     destE |-> REG_NONE, vale |-> 0, destM |-> REG_NONE, valm |-> 0,
     mem_write |-> FALSE, mem_addr |-> 0, mem_data |-> 0, status |-> "AOK"]

PendingReg == WrittenBack(reg, w.destE, w.vale, w.destM, w.valm)
PendingMem == IF w.mem_write THEN set_word_val(mem, w.mem_addr, w.mem_data) ELSE mem

(* update_state. *)
update_state ==
    /\ pc' = w.pc_in /\ cc' = w.cc_in
    /\ reg' = PendingReg /\ mem' = PendingMem

(* sim_run calls sim_step until the status is not AOK.                     *)
sim_step ==
    /\ status = "AOK"
    /\ update_state
    /\ w' = Computed(pc', reg', mem', cc')
    /\ status' = w'.status

Init ==
    /\ pc = 0 /\ reg = [id \in RegIds |-> 0] /\ mem \in Images
    /\ cc = DEFAULT_CC /\ w = ResetWires /\ status = "AOK"

Spec == Init /\ [][sim_step]_vars /\ WF_vars(sim_step)
=============================================================================
