--------------------------- MODULE SeqProperties ---------------------------
(***************************************************************************)
(* What is checked of Seq: it does what the instruction set does.          *)
(***************************************************************************)
EXTENDS Seq

CONSTANTS Reach, ProgLen, Named   \* see Y86

(* The state of the instruction set: what a step computed has happened     *)
(* when the step's status is AOK, and is dropped otherwise.                *)
isaPc  == IF status = "AOK" THEN w.pc_in ELSE pc
isaReg == IF status = "AOK" THEN PendingReg ELSE reg
isaMem == IF status = "AOK" THEN PendingMem ELSE mem
isaCc  == IF status = "AOK" THEN w.cc_in ELSE cc

Arch == INSTANCE Y86 WITH pc <- isaPc, r <- isaReg, m <- isaMem, cc <- isaCc, stat <- status

SupportedStep == Arch!Supported /\ sim_step

SeqSpec == Init /\ [][SupportedStep]_vars /\ WF_vars(SupportedStep)

-----------------------------------------------------------------------------

Wires ==
    [pc_in : Int, cc_in : CondCodes, destE : 0 .. 15, vale : Word, destM : 0 .. 15, valm : Word,
     mem_write : BOOLEAN, mem_addr : Word, mem_data : Word, status : {"AOK", "HLT", "ADR", "INS"}]

(* Type invariant.                                                         *)
SeqTypeOK ==
    /\ pc \in Int /\ reg \in [RegIds -> Word] /\ mem \in Memory /\ cc \in CondCodes
    /\ w \in Wires /\ status = w.status

(* The processor implements the instruction set, for every program the     *)
(* instruction set supports (Y86): each of its steps does what step_state  *)
(* does, and what a failing instruction computed is never committed.       *)
SeqImplementsY86 == Arch!Spec
=============================================================================
