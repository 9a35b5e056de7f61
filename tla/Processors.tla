----------------------------- MODULE Processors -----------------------------
(***************************************************************************)
(* Both simulators, ssim and psim, side by side on one object file.  The   *)
(* variables of Seq have the prefix s_.                                    *)
(***************************************************************************)
EXTENDS PipeProperties

VARIABLES s_pc, s_reg, s_mem, s_cc, w, status

seqVars == <<s_pc, s_reg, s_mem, s_cc, w, status>>
allVars == <<s_pc, s_reg, s_mem, s_cc, w, status,
             mem, reg, cc, cc_in, F, D, E, M, W, isa, idle>>

(* ssim reads 0 for a register that does not exist, as isa.c does.         *)
S == INSTANCE SeqProperties
       WITH pc <- s_pc, reg <- s_reg, mem <- s_mem, cc <- s_cc, Named <- {}

(* The same program and data are loaded into both memories.                *)
BothInit == S!Init /\ mem = s_mem /\ PReset

SeqRuns  == S!Arch!Supported /\ status = "AOK"
PipeRuns == Arch!Supported /\ Stat = "AOK"

(* A step of the one and a cycle of the other, as long as each runs.       *)
BothNext ==
    /\ SeqRuns \/ PipeRuns
    /\ IF SeqRuns THEN S!SupportedStep ELSE UNCHANGED seqVars
    /\ IF PipeRuns THEN SupportedCycle ELSE UNCHANGED pvars

BothSpec == BothInit /\ [][BothNext]_allVars /\ WF_allVars(BothNext)

-----------------------------------------------------------------------------

(* sim_step of ssim.c does what step_state of isa.c does.                  *)
SeqImplementsY86 == S!SeqImplementsY86
=============================================================================
