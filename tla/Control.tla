------------------------------ MODULE Control ------------------------------
(***************************************************************************)
(* The control logic that seq-full.hcl and pipe-full.hcl share, as hcl2c   *)
(* compiled it, and the fetch of an instruction.                           *)
(***************************************************************************)
EXTENDS ISA

instr_valid(icode) == icode \in I_HALT .. I_IADDQ

need_regids(icode) ==
    icode \in {I_RRMOVQ, I_ALU, I_PUSHQ, I_POPQ, I_IRMOVQ, I_RMMOVQ, I_MRMOVQ, I_IADDQ}

need_valC(icode) ==
    icode \in {I_IRMOVQ, I_RMMOVQ, I_MRMOVQ, I_JMP, I_CALL, I_IADDQ}

(* The instruction at address at; error is imem_error.                     *)
Fetched(m, at, error) ==
    LET instr  == IF error THEN 16 * I_NOP ELSE get_byte_val(m, at, 16 * I_NOP)
        icode  == instr \div 16
        regids == IF need_regids(icode) THEN get_byte_val(m, at + 1, 255) ELSE 255
        immAt  == IF need_regids(icode) THEN at + 2 ELSE at + 1
    IN  [icode |-> icode, ifun |-> instr % 16,
         rA |-> regids \div 16, rB |-> regids % 16,
         valC |-> IF need_valC(icode) THEN get_word_val(m, immAt, 0) ELSE 0,
         valP |-> IF need_valC(icode) THEN immAt + WordBytes ELSE immAt]

srcA(icode, rA) ==
    CASE icode \in {I_RRMOVQ, I_RMMOVQ, I_ALU, I_PUSHQ} -> rA
      [] icode \in {I_POPQ, I_RET}                      -> REG_RSP
      [] OTHER                                          -> REG_NONE

srcB(icode, rB) ==
    CASE icode \in {I_ALU, I_RMMOVQ, I_MRMOVQ, I_IADDQ} -> rB
      [] icode \in {I_PUSHQ, I_POPQ, I_CALL, I_RET}     -> REG_RSP
      [] OTHER                                          -> REG_NONE

dstE(icode, rB) ==
    CASE icode \in {I_RRMOVQ, I_IRMOVQ, I_ALU, I_IADDQ} -> rB
      [] icode \in {I_PUSHQ, I_POPQ, I_CALL, I_RET}     -> REG_RSP
      [] OTHER                                          -> REG_NONE

dstM(icode, rA) == IF icode \in {I_MRMOVQ, I_POPQ} THEN rA ELSE REG_NONE

aluA(icode, valA, valC) ==
    CASE icode \in {I_RRMOVQ, I_ALU}                     -> valA
      [] icode \in {I_IRMOVQ, I_RMMOVQ, I_MRMOVQ, I_IADDQ} -> valC
      [] icode \in {I_CALL, I_PUSHQ}                     -> -WordBytes
      [] icode \in {I_RET, I_POPQ}                       -> WordBytes
      [] OTHER                                           -> 0

aluB(icode, valB) ==
    IF icode \in {I_RMMOVQ, I_MRMOVQ, I_ALU, I_CALL, I_PUSHQ, I_RET, I_POPQ, I_IADDQ}
    THEN valB ELSE 0

alufun(icode, ifun) == IF icode = I_ALU THEN ifun ELSE A_ADD

mem_addr(icode, valE, valA) ==
    CASE icode \in {I_RMMOVQ, I_PUSHQ, I_CALL, I_MRMOVQ} -> valE
      [] icode \in {I_POPQ, I_RET}                       -> valA
      [] OTHER                                           -> 0

mem_read(icode)  == icode \in {I_MRMOVQ, I_POPQ, I_RET}
mem_write(icode) == icode \in {I_RMMOVQ, I_PUSHQ, I_CALL}

(* The two writes to the register file: valM is the one that stays.        *)
WrittenBack(reg, destE, valE, destM, valM) ==
    set_reg_val(set_reg_val(reg, destE, valE), destM, valM)
=============================================================================
