-------------------------------- MODULE Y86 --------------------------------
(***************************************************************************)
(* The Y86-64 instruction set: step_state of isa.c, one instruction a      *)
(* step, run until its status is not AOK.  It is what the processors       *)
(* promise to do.                                                          *)
(***************************************************************************)
EXTENDS ISA

CONSTANTS
    Reach,      \* bytes after the program counter that belong to the program
    ProgLen,    \* length of the program, loaded at address 0
    Named       \* instructions of which both register IDs must be registers

VARIABLES
    pc,         \* program counter
    r, m,       \* registers and memory
    cc,         \* condition codes
    stat        \* status of the last instruction

vars == <<pc, r, m, cc, stat>>

-----------------------------------------------------------------------------
(* The instruction at pc. *)

NeedRegids == {I_RRMOVQ, I_ALU, I_PUSHQ, I_POPQ, I_IRMOVQ, I_RMMOVQ, I_MRMOVQ, I_IADDQ}
NeedImm    == {I_IRMOVQ, I_RMMOVQ, I_MRMOVQ, I_JMP, I_CALL, I_IADDQ}

byte0 == get_byte_val(m, pc, 0)
hi0   == byte0 \div 16
lo0   == byte0 % 16

byte1 == IF hi0 \in NeedRegids THEN get_byte_val(m, pc + 1, 0) ELSE 255
hi1   == byte1 \div 16
lo1   == byte1 % 16

ImmAt == IF hi0 \in NeedRegids THEN pc + 2 ELSE pc + 1
cval  == get_word_val(m, ImmAt, 0)
ftpc  == IF hi0 \in NeedImm THEN ImmAt + WordBytes ELSE ImmAt

ok1 == hi0 \in NeedRegids => ByteOK(pc + 1)
okc == hi0 \in NeedImm => WordOK(ImmAt)

RegsOK ==
    /\ hi0 \in {I_RRMOVQ, I_RMMOVQ, I_MRMOVQ, I_PUSHQ, I_POPQ} => reg_valid(hi1)
    /\ hi0 \in {I_RRMOVQ, I_IRMOVQ, I_IADDQ} => reg_valid(lo1)

(* What is checked before the instruction does anything, in order. *)
FetchStat ==
    IF ~ByteOK(pc) THEN "ADR"
    ELSE IF hi0 = I_HALT THEN "HLT"
    ELSE IF hi0 \notin I_HALT .. I_IADDQ THEN "INS"
    ELSE IF ~ok1 THEN "ADR"
    ELSE IF ~okc THEN (IF hi0 \in {I_JMP, I_CALL} THEN "ADR" ELSE "INS")
    ELSE IF ~RegsOK THEN "INS"
    ELSE "AOK"

Reg(id)    == get_reg_val(r, id)
dval       == Reg(REG_RSP)
dvalPushed == Wrap(dval - WordBytes)
dvalPopped == Wrap(dval + WordBytes)
DataAt     == IF reg_valid(lo1) THEN Wrap(cval + Reg(lo1)) ELSE cval

-----------------------------------------------------------------------------
(* One action per case of step_state's switch. *)

Decoded(icode) == stat = "AOK" /\ FetchStat = "AOK" /\ hi0 = icode

Fail == stat' = "ADR" /\ pc' = pc

Nop == Decoded(I_NOP) /\ pc' = ftpc /\ UNCHANGED <<r, m, cc, stat>>

Rrmovq ==
    /\ Decoded(I_RRMOVQ) /\ pc' = ftpc
    /\ r' = IF cond_holds(cc, lo0) THEN set_reg_val(r, lo1, Reg(hi1)) ELSE r
    /\ UNCHANGED <<m, cc, stat>>

Irmovq ==
    /\ Decoded(I_IRMOVQ) /\ pc' = ftpc
    /\ r' = set_reg_val(r, lo1, cval)
    /\ UNCHANGED <<m, cc, stat>>

Rmmovq ==
    /\ Decoded(I_RMMOVQ)
    /\ m' = set_word_val(m, DataAt, Reg(hi1))
    /\ IF WordOK(DataAt) THEN pc' = ftpc /\ stat' = stat ELSE Fail
    /\ UNCHANGED <<r, cc>>

Mrmovq ==
    /\ Decoded(I_MRMOVQ)
    /\ IF WordOK(DataAt)
       THEN /\ r' = set_reg_val(r, hi1, get_word_val(m, DataAt, 0))
            /\ pc' = ftpc /\ stat' = stat
       ELSE r' = r /\ Fail
    /\ UNCHANGED <<m, cc>>

Alu ==
    /\ Decoded(I_ALU) /\ pc' = ftpc
    /\ r'  = set_reg_val(r, lo1, compute_alu(lo0, Reg(hi1), Reg(lo1)))
    /\ cc' = compute_cc(lo0, Reg(hi1), Reg(lo1))
    /\ UNCHANGED <<m, stat>>

Jmp ==
    /\ Decoded(I_JMP)
    /\ pc' = IF cond_holds(cc, lo0) THEN cval ELSE ftpc
    /\ UNCHANGED <<r, m, cc, stat>>

(* The stack pointer moves before the address is checked. *)
Call ==
    /\ Decoded(I_CALL)
    /\ r' = set_reg_val(r, REG_RSP, dvalPushed)
    /\ m' = set_word_val(m, dvalPushed, ftpc)
    /\ IF WordOK(dvalPushed) THEN pc' = cval /\ stat' = stat ELSE Fail
    /\ UNCHANGED cc

Ret ==
    /\ Decoded(I_RET)
    /\ IF WordOK(dval)
       THEN /\ r' = set_reg_val(r, REG_RSP, dvalPopped)
            /\ pc' = get_word_val(m, dval, 0) /\ stat' = stat
       ELSE r' = r /\ Fail
    /\ UNCHANGED <<m, cc>>

Pushq ==
    /\ Decoded(I_PUSHQ)
    /\ r' = set_reg_val(r, REG_RSP, dvalPushed)
    /\ m' = set_word_val(m, dvalPushed, Reg(hi1))
    /\ IF WordOK(dvalPushed) THEN pc' = ftpc /\ stat' = stat ELSE Fail
    /\ UNCHANGED cc

Popq ==
    /\ Decoded(I_POPQ)
    /\ LET moved == set_reg_val(r, REG_RSP, dvalPopped)
       IN  IF WordOK(dval)
           THEN /\ r' = set_reg_val(moved, hi1, get_word_val(m, dval, 0))
                /\ pc' = ftpc /\ stat' = stat
           ELSE r' = moved /\ Fail
    /\ UNCHANGED <<m, cc>>

Iaddq ==
    /\ Decoded(I_IADDQ) /\ pc' = ftpc
    /\ r'  = set_reg_val(r, lo1, Wrap(Reg(lo1) + cval))
    /\ cc' = compute_cc(A_ADD, cval, Reg(lo1))
    /\ UNCHANGED <<m, stat>>

Stop ==
    /\ stat = "AOK" /\ FetchStat # "AOK" /\ stat' = FetchStat
    /\ UNCHANGED <<pc, r, m, cc>>

step_state ==
    \/ Nop \/ Rrmovq \/ Irmovq \/ Rmmovq \/ Mrmovq \/ Alu \/ Jmp
    \/ Call \/ Ret \/ Pushq \/ Popq \/ Iaddq \/ Stop

-----------------------------------------------------------------------------
(* The programs on which the processors are claimed to do what isa.c does: *)
(* instructions and the Reach bytes after them are of the program, which   *)
(* is not written into; they name registers that exist, and push and pop   *)
(* where there is memory.                                                  *)

Pushes == hi0 \in {I_CALL, I_PUSHQ}
Pops   == hi0 \in {I_RET, I_POPQ}

StoreAt == IF Pushes THEN dvalPushed ELSE DataAt

InMemory(pos) == WordOK(pos) => pos + WordBytes <= MemLen

Supported ==
    /\ ByteOK(pc) => pc + Reach < ProgLen
    /\ ByteOK(pc) /\ hi0 \in I_NOP .. I_IADDQ =>
         /\ ok1 /\ okc /\ RegsOK
         /\ hi0 \in Named => reg_valid(hi1) /\ reg_valid(lo1)
         /\ Pushes => WordOK(dvalPushed)
         /\ hi0 = I_POPQ => WordOK(dval)
         /\ InMemory(ImmAt) /\ InMemory(DataAt) /\ InMemory(dval) /\ InMemory(dvalPushed)
         /\ Pushes \/ hi0 = I_RMMOVQ => StoreAt < 0 \/ StoreAt >= ProgLen

Init ==
    /\ pc = 0 /\ r = [id \in RegIds |-> 0] /\ m \in Memory
    /\ cc = DEFAULT_CC /\ stat = "AOK"

Next == Supported /\ step_state

Spec == Init /\ [][Next]_vars /\ WF_vars(Next)
=============================================================================
