--------------------------- MODULE PipeProperties ---------------------------
(***************************************************************************)
(* What is checked of Pipe: it does what the instruction set does, and the *)
(* parts of its control logic that make it so.                             *)
(***************************************************************************)
EXTENDS Pipe

CONSTANTS Reach, ProgLen, Named   \* see Y86

ASSUME ReachAssumption ==
    /\ Reach \in Nat /\ ProgLen \in Nat /\ FetchReach \in Nat
    /\ WordBytes + 1 <= Reach /\ FetchReach <= Reach /\ ProgLen <= MemLen

VARIABLES
    isa,    \* the state of the instruction set the processor is in
    idle    \* cycles since an instruction was in write-back last

-----------------------------------------------------------------------------
(* An instruction has happened when it is in M.  W's writes and M's are    *)
(* still to come; the next instruction is the oldest one in E, D and fetch.*)

isaStat == IF W.stat \in Exceptions THEN W.stat
           ELSE IF m_stat \in Exceptions THEN m_stat
           ELSE "AOK"

isaPc == IF W.stat \in Exceptions THEN W.pc
         ELSE IF m_stat \in Exceptions THEN M.pc
         ELSE IF M.icode = I_RET THEN m_valM
         ELSE IF E.stat # "BUB" THEN E.pc
         ELSE IF D.stat # "BUB" THEN D.pc
         ELSE f_pc

isaReg ==
    LET older == WrittenBack(reg, W.dstE, W.valE, W.dstM, W.valM)
    IN  IF W.stat \in Exceptions THEN reg
        ELSE IF m_stat \in Exceptions THEN older
        ELSE WrittenBack(older, M.dstE, M.valE, M.dstM, m_valM)

isaMem == IF mem_write(M.icode) THEN set_word_val(mem, m_addr, M.valA) ELSE mem

isaState == [pc |-> isaPc, r |-> isaReg, m |-> isaMem, cc |-> cc, stat |-> isaStat]

Arch == INSTANCE Y86 WITH pc <- isa.pc, r <- isa.r, m <- isa.m, cc <- isa.cc, stat <- isa.stat

pvars == <<mem, reg, cc, cc_in, F, D, E, M, W, isa, idle>>

PReset == sim_reset /\ isa = isaState /\ idle = 0
PInit  == mem \in Images /\ PReset

SupportedCycle ==
    /\ Arch!Supported /\ Cycle
    /\ isa' = isaState'
    /\ idle' = IF W'.stat = "BUB" THEN idle + 1 ELSE 0

PSpec == PInit /\ [][SupportedCycle]_pvars /\ WF_pvars(SupportedCycle)

-----------------------------------------------------------------------------

(* Type invariant.                                                         *)
PipeTypeOK ==
    /\ mem \in Memory /\ reg \in [RegIds -> Word] /\ cc \in CondCodes /\ cc_in \in CondCodes
    /\ F \in Int
    /\ {D.icode, E.icode, M.icode, W.icode} \subseteq 0 .. 15
    /\ {D.rA, D.rB, E.dstE, E.dstM, M.dstE, M.dstM, W.dstE, W.dstM} \subseteq 0 .. 15
    /\ {D.valC, E.valC, E.valA, E.valB, M.valE, M.valA, W.valE, W.valM} \subseteq Word
    /\ {D.stat, E.stat, M.stat, W.stat} \subseteq Exceptions \cup {"AOK", "BUB"}

(* The control logic never asks a pipeline register to stall and to bubble *)
(* (pipe_cntl's error), whatever load/use hazards, returns and mispredicted *)
(* branches come together.                                                 *)
NoConflictingControl == ~(D_stall /\ D_bubble)

(* Forwarding: the value decode reads of a register is the one it has once *)
(* the instructions in E, M and W have written, the older ones first; a    *)
(* register that E loads from memory is the exception decode stalls for.   *)
ForwardingIsCurrent ==
    LET afterW == WrittenBack(reg, W.dstE, W.valE, W.dstM, W.valM)
        afterM == WrittenBack(afterW, M.dstE, M.valE, M.dstM, m_valM)
        afterE == set_reg_val(afterM, e_dstE, e_valE)
    IN  \A src \in RegIds \ {E.dstM} : Forwarded(src) = afterE[src]

(* The conditions after a subtraction of x from y are those of y and x as  *)
(* integers.                                                               *)
Compares(x, y) ==
    LET flags == compute_cc(A_SUB, x, y)
    IN  /\ cond_holds(flags, C_L)  <=> y < x
        /\ cond_holds(flags, C_LE) <=> y <= x
        /\ cond_holds(flags, C_E)  <=> y = x
        /\ cond_holds(flags, C_NE) <=> y # x
        /\ cond_holds(flags, C_GE) <=> y >= x
        /\ cond_holds(flags, C_G)  <=> y > x

(* Jumps and moves after a subtraction compare its operands as integers,   *)
(* also when the difference overflows.                                     *)
BranchesCompare == E.icode = I_ALU /\ E.ifun = A_SUB => Compares(e_A, e_B)

(* Stalls and bubbles end: an instruction completes at least every fifth   *)
(* cycle, however load/use stalls, mispredictions and returns combine.     *)
StallsAreBounded == idle <= 4

(* The processor implements the instruction set, for every program the     *)
(* instruction set supports (Y86): results, order and the instruction at   *)
(* which an exception stops it, and it makes progress.                     *)
ImplementsY86 == Arch!Spec
-----------------------------------------------------------------------------
(***************************************************************************)
(* The inductive invariant: what every pipeline register holds.            *)
(***************************************************************************)

(* Operands name registers that exist. *)
NamesRegisters == {I_RMMOVQ, I_MRMOVQ, I_ALU} \subseteq Named

(* The addresses a supported program has its instructions at, or which are *)
(* not memory.                                                             *)
InProgram(at) == ByteOK(at) => at + Reach < ProgLen

InstructionAt(m, at) ==
    LET i == Fetched(m, at, ~ByteOK(at))
    IN  [stat |-> IF ~ByteOK(at) THEN "ADR"
                  ELSE IF ~instr_valid(i.icode) THEN "INS"
                  ELSE IF i.icode = I_HALT THEN "HLT"
                  ELSE "AOK",
         icode |-> i.icode, ifun |-> i.ifun, rA |-> i.rA, rB |-> i.rB,
         valC |-> i.valC, valP |-> i.valP, pc |-> at]

Predicted(i) == IF i.icode \in {I_JMP, I_CALL} THEN i.valC ELSE i.valP

(* Types PipeTypeOK does not name. *)
MoreTypes ==
    /\ {D.ifun, E.ifun} \subseteq 0 .. 15
    /\ {D.valP, D.pc, E.pc, M.pc, W.pc} \subseteq Int
    /\ D.icode \in {I_JMP, I_CALL} => D.valP \in Word

(* A bubble does nothing, and only a load has a register to load. *)
BubblesAreNops ==
    /\ D.stat = "BUB" => D.icode = I_NOP
    /\ E.stat = "BUB" => E.icode = I_NOP /\ E.dstE = REG_NONE /\ E.dstM = REG_NONE
    /\ M.stat = "BUB" => M.icode = I_NOP /\ M.dstE = REG_NONE /\ M.dstM = REG_NONE
    /\ W.stat = "BUB" => W.icode = I_NOP /\ W.dstE = REG_NONE /\ W.dstM = REG_NONE
    /\ E.dstM # REG_NONE => E.icode \in {I_MRMOVQ, I_POPQ}

(* Nothing follows a return until it is in W, nor a mispredicted jump that *)
(* is in M; every other instruction in E is followed by one in D.          *)
BubblesFollow ==
    /\ E.icode = I_RET => D.stat = "BUB"
    /\ M.icode = I_RET \/ (M.icode = I_JMP /\ ~M.Cnd) => D.stat = "BUB" /\ E.stat = "BUB"
    /\ W.icode = I_RET => D.stat = "BUB" /\ E.stat = "BUB" /\ M.stat = "BUB"
    /\ E.stat # "BUB" /\ E.icode # I_RET => D.stat # "BUB"

(* D holds what memory holds, and fetch goes on where D's instruction is    *)
(* predicted to go.                                                        *)
DIsFetched ==
    D.stat # "BUB" => /\ InProgram(D.pc) => D = InstructionAt(mem, D.pc)
                      /\ D.icode # I_RET => F = Predicted(D)

(* E holds what memory holds, with the values that its registers have, and *)
(* D the instruction after it.                                             *)
EIsDecoded ==
    E.stat # "BUB" /\ InProgram(E.pc) =>
        LET i == InstructionAt(mem, E.pc)
            a == srcA(i.icode, i.rA)
            b == srcB(i.icode, i.rB)
        IN  /\ E.stat = i.stat /\ E.icode = i.icode /\ E.ifun = i.ifun /\ E.valC = i.valC
            /\ E.dstE = dstE(i.icode, i.rB) /\ E.dstM = dstM(i.icode, i.rA)
            /\ i.icode \in {I_JMP, I_CALL} => E.valA = i.valP
            /\ i.icode # I_RET => D.pc = Predicted(i)
            /\ isaStat = "AOK" =>
                 /\ i.icode \notin {I_JMP, I_CALL} /\ a \in RegIds => E.valA = isaReg[a]
                 /\ b \in RegIds => E.valB = isaReg[b]

(* What M reads is memory, and what it writes is not the program. *)
MIsApart ==
    WordOK(m_addr) => /\ mem_read(M.icode) => m_addr + WordBytes <= MemLen
                      /\ mem_write(M.icode) => m_addr >= ProgLen

(* An instruction that failed when it was fetched uses no memory. *)
FailuresAreIdle == M.stat \in Exceptions => ~mem_read(M.icode) /\ ~mem_write(M.icode)

(* The nearer the next instruction is to write-back the longer the wait    *)
(* may have been.                                                          *)
IdleBounds ==
    /\ idle \in 0 .. 3
    /\ M.stat = "BUB" => idle <= 2
    /\ M.stat = "BUB" /\ E.stat = "BUB" => idle <= 1
    /\ M.stat = "BUB" /\ E.stat = "BUB" /\ D.stat = "BUB" => idle = 0

PipeInductive ==
    /\ PipeTypeOK /\ MoreTypes /\ BubblesAreNops /\ BubblesFollow
    /\ DIsFetched /\ EIsDecoded /\ MIsApart /\ FailuresAreIdle /\ IdleBounds
    /\ cc_in = cc /\ isa = isaState
=============================================================================
