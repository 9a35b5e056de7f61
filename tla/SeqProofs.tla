----------------------------- MODULE SeqProofs -----------------------------
(***************************************************************************)
(* Proofs about Seq, for every word size, memory and program: its types,   *)
(* and that a step of the sequential processor does what an instruction of *)
(* Y86 does.                                                               *)
(***************************************************************************)
EXTENDS SeqProperties, ISAProofs

-----------------------------------------------------------------------------
(* The operators of the instruction set and of the processor are the same. *)

LEMMA SameOperators ==
    /\ Arch!Word = Word /\ Arch!Byte = Byte /\ Arch!Memory = Memory
    /\ \A x : Arch!ByteOK(x) <=> ByteOK(x)
    /\ \A x : Arch!WordOK(x) <=> WordOK(x)
    /\ \A x : Arch!Wrap(x) = Wrap(x)
    /\ \A x : Arch!reg_valid(x) <=> reg_valid(x)
    /\ \A x, y : Arch!get_reg_val(x, y) = get_reg_val(x, y)
    /\ \A x, y, z : Arch!set_reg_val(x, y, z) = set_reg_val(x, y, z)
    /\ \A x, y, z : Arch!get_byte_val(x, y, z) = get_byte_val(x, y, z)
    /\ \A x, y, z : Arch!get_word_val(x, y, z) = get_word_val(x, y, z)
    /\ \A x, y, z : Arch!set_word_val(x, y, z) = set_word_val(x, y, z)
    /\ \A x, y, z : Arch!compute_alu(x, y, z) = compute_alu(x, y, z)
    /\ \A x, y, z : Arch!compute_cc(x, y, z) = compute_cc(x, y, z)
    /\ \A x, y : Arch!cond_holds(x, y) <=> cond_holds(x, y)
<1>1. Arch!Word = Word /\ Arch!Byte = Byte /\ Arch!Memory = Memory
  BY DEF Arch!Word, Word, Arch!Byte, Byte, Arch!Memory, Memory
<1>2. \A x : Arch!ByteOK(x) <=> ByteOK(x)
  BY DEF Arch!ByteOK, ByteOK
<1>3. \A x : Arch!Wrap(x) = Wrap(x)
  BY <1>1 DEF Arch!Wrap, Wrap
<1>4. \A x : Arch!WordOK(x) <=> WordOK(x)
  BY <1>3 DEF Arch!WordOK, WordOK
<1>5. \A x : Arch!reg_valid(x) <=> reg_valid(x)
  BY DEF Arch!reg_valid, reg_valid, Arch!RegIds, RegIds, Arch!REG_NONE, REG_NONE
<1>6. /\ \A x, y : Arch!get_reg_val(x, y) = get_reg_val(x, y)
      /\ \A x, y, z : Arch!set_reg_val(x, y, z) = set_reg_val(x, y, z)
  BY <1>5 DEF Arch!get_reg_val, get_reg_val, Arch!set_reg_val, set_reg_val
<1>7. \A x, y, z : Arch!get_byte_val(x, y, z) = get_byte_val(x, y, z)
  BY <1>2 DEF Arch!get_byte_val, get_byte_val
<1>8. /\ \A x, y, z : Arch!get_word_val(x, y, z) = get_word_val(x, y, z)
      /\ \A x, y, z : Arch!set_word_val(x, y, z) = set_word_val(x, y, z)
  BY <1>4 DEF Arch!get_word_val, get_word_val, Arch!WordAt, WordAt, Arch!set_word_val, set_word_val
<1>9. \A x, y, z : Arch!compute_alu(x, y, z) = compute_alu(x, y, z)
  BY <1>3 DEF Arch!compute_alu, compute_alu, Arch!A_ADD, A_ADD, Arch!A_SUB, A_SUB,
              Arch!A_AND, A_AND, Arch!A_XOR, A_XOR
<1>10. \A x, y, z : Arch!compute_cc(x, y, z) = compute_cc(x, y, z)
  <2> TAKE x, y, z
  <2>1. Arch!compute_alu(x, y, z) = compute_alu(x, y, z)
    BY <1>9
  <2>2. Arch!A_ADD = A_ADD /\ Arch!A_SUB = A_SUB
    BY DEF Arch!A_ADD, A_ADD, Arch!A_SUB, A_SUB
  <2> QED BY <2>1, <2>2, Zenon DEF Arch!compute_cc, compute_cc
<1>11. \A x, y : Arch!cond_holds(x, y) <=> cond_holds(x, y)
  BY DEF Arch!cond_holds, cond_holds, Arch!C_YES, C_YES, Arch!C_LE, C_LE, Arch!C_L, C_L,
         Arch!C_E, C_E, Arch!C_NE, C_NE, Arch!C_GE, C_GE, Arch!C_G, C_G
<1> QED BY <1>1, <1>2, <1>3, <1>4, <1>5, <1>6, <1>7, <1>8, <1>9, <1>10, <1>11

-----------------------------------------------------------------------------
(* The instruction at the program counter of the instruction set's state,  *)
(* and what the processor computes of it.                                  *)

i_f     == Fetched(isaMem, isaPc, ~ByteOK(isaPc))
i_valA  == get_reg_val(isaReg, srcA(i_f.icode, i_f.rA))
i_valB  == get_reg_val(isaReg, srcB(i_f.icode, i_f.rB))
i_cond  == cond_holds(isaCc, i_f.ifun)
i_A     == aluA(i_f.icode, i_valA, i_f.valC)
i_B     == aluB(i_f.icode, i_valB)
i_fun   == alufun(i_f.icode, i_f.ifun)
i_valE  == compute_alu(i_fun, i_A, i_B)
i_addr  == mem_addr(i_f.icode, i_valE, i_valA)
i_valM  == IF mem_read(i_f.icode) THEN get_word_val(isaMem, i_addr, w.valm) ELSE 0
i_error == ~ByteOK(isaPc) \/ ((mem_read(i_f.icode) \/ mem_write(i_f.icode)) /\ ~WordOK(i_addr))

(* A step commits what was computed last and computes the next instruction. *)
LEMMA StepComputes ==
    ASSUME sim_step
    PROVE  /\ status = "AOK"
           /\ pc' = isaPc /\ reg' = isaReg /\ mem' = isaMem /\ cc' = isaCc
           /\ w' = [pc_in |-> new_pc(i_f, i_cond, i_valM),
                    cc_in |-> IF i_f.icode \in {I_ALU, I_IADDQ} THEN compute_cc(i_fun, i_A, i_B) ELSE isaCc,
                    destE |-> seq_dstE(i_f.icode, i_f.rB, i_cond), vale |-> i_valE,
                    destM |-> dstM(i_f.icode, i_f.rA),             valm |-> i_valM,
                    mem_write |-> mem_write(i_f.icode), mem_addr |-> i_addr,
                    mem_data  |-> mem_data(i_f.icode, i_valA, i_f.valP),
                    status    |-> Stat(i_f.icode, i_error)]
           /\ status' = Stat(i_f.icode, i_error)
<1>1. /\ status = "AOK"
      /\ pc' = isaPc /\ reg' = isaReg /\ mem' = isaMem /\ cc' = isaCc
  BY DEF sim_step, update_state, isaPc, isaReg, isaMem, isaCc
<1>2. w' = Computed(isaPc, isaReg, isaMem, isaCc) /\ status' = w'.status
  BY <1>1 DEF sim_step
<1>3. Computed(isaPc, isaReg, isaMem, isaCc) =
        [pc_in |-> new_pc(i_f, i_cond, i_valM),
         cc_in |-> IF i_f.icode \in {I_ALU, I_IADDQ} THEN compute_cc(i_fun, i_A, i_B) ELSE isaCc,
         destE |-> seq_dstE(i_f.icode, i_f.rB, i_cond), vale |-> i_valE,
         destM |-> dstM(i_f.icode, i_f.rA),             valm |-> i_valM,
         mem_write |-> mem_write(i_f.icode), mem_addr |-> i_addr,
         mem_data  |-> mem_data(i_f.icode, i_valA, i_f.valP),
         status    |-> Stat(i_f.icode, i_error)]
  BY DEF Computed, i_f, i_valA, i_valB, i_cond, i_A, i_B, i_fun, i_valE, i_addr, i_valM, i_error
<1> QED BY <1>1, <1>2, <1>3

LEMMA IsaTypes ==
    ASSUME SeqTypeOK
    PROVE  /\ isaPc \in Int /\ isaReg \in [RegIds -> Word]
           /\ isaMem \in Memory /\ isaCc \in CondCodes
<1>1. /\ w.pc_in \in Int /\ w.cc_in \in CondCodes /\ w.vale \in Word /\ w.valm \in Word
      /\ w.mem_addr \in Word /\ w.mem_data \in Word
  BY DEF SeqTypeOK, Wires
<1>2. PendingReg \in [RegIds -> Word]
  BY <1>1, SetRegType DEF SeqTypeOK, PendingReg, WrittenBack
<1>3. PendingMem \in Memory
  BY <1>1, SetWordType, Bounds DEF SeqTypeOK, PendingMem
<1> QED BY <1>1, <1>2, <1>3 DEF SeqTypeOK, isaPc, isaReg, isaMem, isaCc

(* The names of the instructions. *)
LEMMA Codes ==
    /\ I_HALT = 0 /\ I_NOP = 1 /\ I_RRMOVQ = 2 /\ I_IRMOVQ = 3 /\ I_RMMOVQ = 4 /\ I_MRMOVQ = 5
    /\ I_ALU = 6 /\ I_JMP = 7 /\ I_CALL = 8 /\ I_RET = 9 /\ I_PUSHQ = 10 /\ I_POPQ = 11 /\ I_IADDQ = 12
    /\ Arch!I_HALT = 0 /\ Arch!I_NOP = 1 /\ Arch!I_RRMOVQ = 2 /\ Arch!I_IRMOVQ = 3
    /\ Arch!I_RMMOVQ = 4 /\ Arch!I_MRMOVQ = 5 /\ Arch!I_ALU = 6 /\ Arch!I_JMP = 7
    /\ Arch!I_CALL = 8 /\ Arch!I_RET = 9 /\ Arch!I_PUSHQ = 10 /\ Arch!I_POPQ = 11
    /\ Arch!I_IADDQ = 12
BY DEF I_HALT, I_NOP, I_RRMOVQ, I_IRMOVQ, I_RMMOVQ, I_MRMOVQ, I_ALU, I_JMP, I_CALL, I_RET,
       I_PUSHQ, I_POPQ, I_IADDQ, Arch!I_HALT, Arch!I_NOP, Arch!I_RRMOVQ, Arch!I_IRMOVQ,
       Arch!I_RMMOVQ, Arch!I_MRMOVQ, Arch!I_ALU, Arch!I_JMP, Arch!I_CALL, Arch!I_RET,
       Arch!I_PUSHQ, Arch!I_POPQ, Arch!I_IADDQ

(* The processor fetches what the instruction set does. *)
LEMMA FetchFacts ==
    ASSUME SeqTypeOK, ByteOK(isaPc) => Arch!ok1
    PROVE  /\ i_f.icode \in 0 .. 15 /\ i_f.ifun \in 0 .. 15
           /\ i_f.rA \in 0 .. 15 /\ i_f.rB \in 0 .. 15 /\ i_f.valP \in Int
           /\ ~ByteOK(isaPc) => i_f.icode = 1
           /\ ByteOK(isaPc) => /\ i_f.icode = Arch!hi0 /\ i_f.ifun = Arch!lo0
                               /\ i_f.rA = Arch!hi1 /\ i_f.rB = Arch!lo1
                               /\ i_f.valP = Arch!ftpc
           /\ need_valC(i_f.icode) => ByteOK(isaPc) /\ i_f.valC = Arch!cval
           /\ ~need_valC(i_f.icode) => i_f.valC = 0
<1> DEFINE at == isaPc
           instr == IF ~ByteOK(at) THEN 16 * I_NOP ELSE get_byte_val(isaMem, at, 16 * I_NOP)
           icode == instr \div 16
           regids == IF need_regids(icode) THEN get_byte_val(isaMem, at + 1, 255) ELSE 255
           immAt == IF need_regids(icode) THEN at + 2 ELSE at + 1
<1>1. /\ i_f.icode = icode /\ i_f.ifun = instr % 16
      /\ i_f.rA = regids \div 16 /\ i_f.rB = regids % 16
      /\ i_f.valC = IF need_valC(icode) THEN get_word_val(isaMem, immAt, 0) ELSE 0
      /\ i_f.valP = IF need_valC(icode) THEN immAt + WordBytes ELSE immAt
  BY DEF i_f, Fetched
<1>2. isaPc \in Int /\ isaMem \in Memory /\ WordBytes \in Nat
  BY IsaTypes, Bounds
<1>3. instr \in Byte /\ regids \in Byte
  <2>1. 16 * I_NOP \in Byte /\ 255 \in Byte
    BY Codes DEF Byte
  <2> QED BY <1>2, <2>1, ByteType
<1>4. /\ icode \in 0 .. 15 /\ instr % 16 \in 0 .. 15
      /\ regids \div 16 \in 0 .. 15 /\ regids % 16 \in 0 .. 15
  <2> HIDE DEF instr, regids
  <2> QED BY <1>3 DEF Byte
<1>5. ~ByteOK(isaPc) => icode = 1
  BY Codes
<1>6. \A c : /\ need_regids(c) <=> c \in Arch!NeedRegids
             /\ need_valC(c) <=> c \in Arch!NeedImm
  BY Codes DEF need_regids, need_valC, Arch!NeedRegids, Arch!NeedImm
<1>7. ASSUME ByteOK(isaPc)
      PROVE  /\ icode = Arch!hi0 /\ instr % 16 = Arch!lo0
             /\ regids \div 16 = Arch!hi1 /\ regids % 16 = Arch!lo1
             /\ immAt = Arch!ImmAt /\ get_word_val(isaMem, immAt, 0) = Arch!cval
             /\ i_f.valP = Arch!ftpc
  <2>1. instr = Arch!byte0
    BY <1>7, SameOperators DEF Arch!byte0, get_byte_val
  <2>2. icode = Arch!hi0 /\ instr % 16 = Arch!lo0
    BY <2>1 DEF Arch!hi0, Arch!lo0
  <2> HIDE DEF icode, instr
  <2>3. regids = Arch!byte1 /\ immAt = Arch!ImmAt
    <3>1. need_regids(icode) => ByteOK(isaPc + 1)
      BY <1>6, <1>7, <2>2, SameOperators DEF Arch!ok1
    <3>2. need_regids(icode) => regids = Arch!get_byte_val(isaMem, isaPc + 1, 0)
      BY <3>1, SameOperators DEF get_byte_val
    <3> QED BY <1>6, <2>2, <3>2 DEF Arch!byte1, Arch!ImmAt
  <2> HIDE DEF regids, immAt
  <2> QED BY <1>1, <1>6, <2>2, <2>3, SameOperators DEF Arch!hi1, Arch!lo1, Arch!cval, Arch!ftpc
<1>8. need_valC(icode) => ByteOK(isaPc)
  BY <1>5, Codes DEF need_valC
<1>9. i_f.valP \in Int
  <2>1. immAt \in Int
    BY <1>2
  <2> HIDE DEF immAt, icode
  <2> QED BY <1>1, <1>2, <2>1
<1> HIDE DEF icode, instr, regids, immAt
<1> QED BY <1>1, <1>4, <1>5, <1>7, <1>8, <1>9

-----------------------------------------------------------------------------
(* What a supported program may do, and the values computed for it. *)

LEMMA SupportedFacts ==
    ASSUME SeqTypeOK, Arch!Supported
    PROVE  /\ ByteOK(isaPc) => Arch!ok1
           /\ i_f.icode \in 2 .. 12 => ByteOK(isaPc)
           /\ ByteOK(isaPc) /\ i_f.icode \in 1 .. 12 =>
                /\ Arch!ok1 /\ Arch!okc /\ Arch!RegsOK
                /\ i_f.icode \in {I_CALL, I_PUSHQ} => WordOK(Arch!dvalPushed)
                /\ i_f.icode = I_POPQ => WordOK(Arch!dval)
                /\ WordOK(Arch!ImmAt) => Arch!ImmAt + WordBytes <= MemLen
                /\ WordOK(Arch!DataAt) => Arch!DataAt + WordBytes <= MemLen
                /\ WordOK(Arch!dval) => Arch!dval + WordBytes <= MemLen
           /\ ByteOK(isaPc) /\ i_f.icode \notin 1 .. 12 => Arch!hi0 \notin 1 .. 12
<1>1. ByteOK(isaPc) => Arch!ok1
  BY SameOperators, Codes DEF Arch!Supported, Arch!ok1, Arch!NeedRegids
<1>2. /\ ByteOK(isaPc) => i_f.icode = Arch!hi0
      /\ ~ByteOK(isaPc) => i_f.icode = 1
  BY <1>1, FetchFacts
<1> QED BY <1>1, <1>2, SameOperators, Codes DEF Arch!Supported, Arch!InMemory, Arch!Pushes

LEMMA ValC ==
    ASSUME SeqTypeOK, Arch!Supported
    PROVE  i_f.valC \in Word
<1>1. CASE need_valC(i_f.icode)
  <2>1. ByteOK(isaPc) /\ i_f.valC = Arch!cval /\ i_f.icode \in 1 .. 12
    BY <1>1, SupportedFacts, FetchFacts, Codes DEF need_valC
  <2>2. WordOK(Arch!ImmAt) => Arch!ImmAt + WordBytes <= MemLen
    BY <2>1, SupportedFacts
  <2>3. Arch!ImmAt \in Int /\ isaMem \in Memory /\ 0 \in Word
    BY IsaTypes, Bounds DEF Arch!ImmAt
  <2>4. get_word_val(isaMem, Arch!ImmAt, 0) \in Word
    BY <2>2, <2>3, WordType
  <2> QED BY <2>1, <2>4, SameOperators DEF Arch!cval
<1>2. CASE ~need_valC(i_f.icode)
  BY <1>2, SupportedFacts, FetchFacts, Bounds
<1> QED BY <1>1, <1>2

LEMMA Operands ==
    ASSUME SeqTypeOK, Arch!Supported
    PROVE  /\ i_valA \in Word /\ i_valB \in Word /\ i_A \in Word /\ i_B \in Word
           /\ i_fun \in Int /\ i_valE \in Word
<1>1. i_valA \in Word /\ i_valB \in Word
  BY IsaTypes, RegType DEF i_valA, i_valB
<1>2. i_A \in Word
  BY <1>1, ValC, Bounds DEF i_A, aluA
<1>3. i_B \in Word
  BY <1>1, Bounds DEF i_B, aluB
<1>4. i_fun \in Int
  BY SupportedFacts, FetchFacts DEF i_fun, alufun, A_ADD
<1> QED BY <1>1, <1>2, <1>3, <1>4, AluType DEF i_valE

(* A memory address is the one the instruction set uses. *)
LEMMA Addresses ==
    ASSUME SeqTypeOK, Arch!Supported, ByteOK(isaPc)
    PROVE  /\ i_f.icode \in {4, 5} => i_addr = Arch!DataAt
           /\ i_f.icode \in {8, 10} => i_addr = Arch!dvalPushed /\ i_valE = Arch!dvalPushed
           /\ i_f.icode \in {9, 11} => /\ i_addr = Arch!dval /\ i_valA = Arch!dval
                                       /\ i_valE = Arch!dvalPopped
<1>1. /\ i_f.icode = Arch!hi0 /\ i_f.rA = Arch!hi1 /\ i_f.rB = Arch!lo1
      /\ need_valC(i_f.icode) => i_f.valC = Arch!cval
  BY SupportedFacts, FetchFacts
<1>2. /\ i_valA \in Word /\ i_valB \in Word /\ i_f.valC \in Word /\ WordBytes \in Word /\ -WordBytes \in Word
      /\ \A x \in Word : x \in Int
  BY Operands, ValC, Bounds
<1>3. CASE i_f.icode \in {4, 5}
  <2>1. i_addr = i_valE /\ i_A = i_f.valC /\ i_B = i_valB /\ i_fun = A_ADD /\ i_f.valC = Arch!cval
    BY <1>1, <1>3, Codes DEF i_addr, mem_addr, i_A, aluA, i_B, aluB, i_fun, alufun, need_valC
  <2>2. i_valE = Wrap(Arch!cval + i_valB)
    BY <1>2, <2>1, AluAdds DEF i_valE
  <2>3. i_valB = Arch!Reg(Arch!lo1)
    BY <1>1, <1>3, Codes, SameOperators DEF i_valB, srcB, Arch!Reg
  <2>4. ASSUME reg_valid(Arch!lo1) PROVE i_addr = Arch!DataAt
    <3>1. Arch!DataAt = Arch!Wrap(Arch!cval + Arch!Reg(Arch!lo1))
      BY <2>4, SameOperators DEF Arch!DataAt
    <3> QED BY <2>1, <2>2, <2>3, <3>1, SameOperators
  <2>5. ASSUME ~reg_valid(Arch!lo1) PROVE i_addr = Arch!DataAt
    <3>1. i_valB = 0
      BY <2>3, <2>5, SameOperators DEF Arch!Reg, get_reg_val
    <3>2. i_valE = Arch!cval
      BY <1>2, <2>1, <3>1, AddZero DEF i_valE
    <3>3. Arch!DataAt = Arch!cval
      BY <2>5, SameOperators DEF Arch!DataAt
    <3> QED BY <2>1, <3>2, <3>3
  <2> QED BY <1>3, <2>4, <2>5
<1>4. CASE i_f.icode \in {8, 10}
  <2>1. i_addr = i_valE /\ i_A = -WordBytes /\ i_B = i_valB /\ i_fun = A_ADD
    BY <1>4, Codes DEF i_addr, mem_addr, i_A, aluA, i_B, aluB, i_fun, alufun
  <2>2. i_valB = Arch!dval
    BY <1>4, Codes, SameOperators DEF i_valB, srcB, Arch!Reg, Arch!dval, REG_RSP, Arch!REG_RSP
  <2>3. i_valE = Wrap(-WordBytes + i_valB)
    BY <1>2, <2>1, AluAdds DEF i_valE
  <2>4. -WordBytes + i_valB = Arch!dval - WordBytes
    BY <1>2, <2>2, Bounds
  <2> QED BY <1>4, <2>1, <2>3, <2>4, SameOperators DEF Arch!dvalPushed
<1>5. CASE i_f.icode \in {9, 11}
  <2>1. i_addr = i_valA /\ i_A = WordBytes /\ i_B = i_valB /\ i_fun = A_ADD
    BY <1>5, Codes DEF i_addr, mem_addr, i_A, aluA, i_B, aluB, i_fun, alufun
  <2>2. i_valB = Arch!dval /\ i_valA = Arch!dval
    BY <1>5, Codes, SameOperators
       DEF i_valA, srcA, i_valB, srcB, Arch!Reg, Arch!dval, REG_RSP, Arch!REG_RSP
  <2>3. i_valE = Wrap(WordBytes + i_valB)
    BY <1>2, <2>1, AluAdds DEF i_valE
  <2>4. WordBytes + i_valB = Arch!dval + WordBytes
    BY <1>2, <2>2, Bounds
  <2> QED BY <1>5, <2>1, <2>2, <2>3, <2>4, SameOperators DEF Arch!dvalPopped
<1> QED BY <1>3, <1>4, <1>5

LEMMA Results ==
    ASSUME SeqTypeOK, Arch!Supported
    PROVE  /\ i_addr \in Word /\ i_valM \in Word
           /\ mem_data(i_f.icode, i_valA, i_f.valP) \in Word
           /\ new_pc(i_f, i_cond, i_valM) \in Int
<1>1. i_addr \in Word
  BY Operands, Bounds DEF i_addr, mem_addr
<1>2. i_valM \in Word
  <2>1. CASE mem_read(i_f.icode)
    <3>1. i_f.icode \in {5, 9, 11}
      BY <2>1, Codes DEF mem_read
    <3>2. ByteOK(isaPc)
      BY <3>1, SupportedFacts
    <3>3. i_addr \in {Arch!DataAt, Arch!dval}
      BY <3>1, <3>2, Addresses
    <3>4. /\ WordOK(Arch!DataAt) => Arch!DataAt + WordBytes <= MemLen
          /\ WordOK(Arch!dval) => Arch!dval + WordBytes <= MemLen
      BY <3>1, <3>2, SupportedFacts
    <3>5. WordOK(i_addr) => i_addr + WordBytes <= MemLen
      BY <3>3, <3>4
    <3>6. isaMem \in Memory /\ i_addr \in Int /\ w.valm \in Word
      BY <1>1, IsaTypes, Bounds DEF SeqTypeOK, Wires
    <3> QED BY <2>1, <3>5, <3>6, WordType DEF i_valM
  <2>2. CASE ~mem_read(i_f.icode)
    BY <2>2, Bounds DEF i_valM
  <2> QED BY <2>1, <2>2
<1>3. i_f.icode = I_CALL => i_f.valP \in Word
  <2> SUFFICES ASSUME i_f.icode = I_CALL PROVE i_f.valP \in Word
    OBVIOUS
  <2>1. ByteOK(isaPc)
    BY SupportedFacts, Codes
  <2>2. i_f.valP = isaPc + 1 + WordBytes
    BY <2>1, SupportedFacts, FetchFacts, Codes DEF Arch!ftpc, Arch!ImmAt, Arch!NeedImm, Arch!NeedRegids
  <2> QED BY <2>1, <2>2, IsaTypes, Bounds, MemLenAssumption DEF ByteOK
<1>4. mem_data(i_f.icode, i_valA, i_f.valP) \in Word
  BY <1>3, Operands, Bounds DEF mem_data
<1>5. new_pc(i_f, i_cond, i_valM) \in Int
  BY <1>2, ValC, SupportedFacts, FetchFacts, Bounds DEF new_pc
<1> QED BY <1>1, <1>2, <1>4, <1>5

(* A step keeps the types. *)
LEMMA StepTypes ==
    ASSUME SeqTypeOK, SupportedStep
    PROVE  SeqTypeOK'
<1>1. Arch!Supported /\ sim_step
  BY DEF SupportedStep
<1>2. pc' \in Int /\ reg' \in [RegIds -> Word] /\ mem' \in Memory /\ cc' \in CondCodes
  BY <1>1, StepComputes, IsaTypes
<1>3. /\ new_pc(i_f, i_cond, i_valM) \in Int /\ i_valE \in Word /\ i_valM \in Word /\ i_addr \in Word
      /\ mem_data(i_f.icode, i_valA, i_f.valP) \in Word
  BY <1>1, Operands, Results
<1>4. (IF i_f.icode \in {I_ALU, I_IADDQ} THEN compute_cc(i_fun, i_A, i_B) ELSE isaCc) \in CondCodes
  BY <1>1, Operands, IsaTypes, CCType
<1>5. /\ seq_dstE(i_f.icode, i_f.rB, i_cond) \in 0 .. 15 /\ dstM(i_f.icode, i_f.rA) \in 0 .. 15
  <2>1. i_f.rA \in 0 .. 15 /\ i_f.rB \in 0 .. 15
    BY <1>1, SupportedFacts, FetchFacts
  <2> QED BY <2>1 DEF seq_dstE, dstE, dstM, REG_NONE, REG_RSP
<1>6. mem_write(i_f.icode) \in BOOLEAN /\ Stat(i_f.icode, i_error) \in {"AOK", "HLT", "ADR", "INS"}
  BY DEF mem_write, Stat
<1>7. w' \in Wires
  BY <1>1, <1>3, <1>4, <1>5, <1>6, StepComputes DEF Wires
<1>8. status' = w'.status
  BY <1>1, StepComputes
<1> QED BY <1>2, <1>7, <1>8 DEF SeqTypeOK

LEMMA InitTypes == Init => SeqTypeOK
<1> SUFFICES ASSUME Init PROVE SeqTypeOK
  OBVIOUS
<1>1. DEFAULT_CC \in CondCodes
  BY DEF DEFAULT_CC, CondCodes
<1>2. ResetWires \in Wires /\ ResetWires.status = "AOK"
  BY <1>1, Bounds DEF ResetWires, Wires, REG_NONE
<1>3. mem \in Memory /\ reg \in [RegIds -> Word] /\ pc \in Int
  BY ImagesAssumption, Bounds DEF Init, Memory
<1> QED BY <1>1, <1>2, <1>3 DEF Init, SeqTypeOK

-----------------------------------------------------------------------------
(* A step does what an instruction does. *)

(* What a step computed has happened, or is dropped. *)
LEMMA After ==
    ASSUME sim_step
    PROVE  /\ status = "AOK" /\ status' = Stat(i_f.icode, i_error)
           /\ status' = "AOK" =>
                /\ isaPc' = new_pc(i_f, i_cond, i_valM)
                /\ isaReg' = set_reg_val(set_reg_val(isaReg, seq_dstE(i_f.icode, i_f.rB, i_cond), i_valE),
                                         dstM(i_f.icode, i_f.rA), i_valM)
                /\ isaMem' = IF mem_write(i_f.icode)
                             THEN set_word_val(isaMem, i_addr, mem_data(i_f.icode, i_valA, i_f.valP))
                             ELSE isaMem
                /\ isaCc' = IF i_f.icode \in {I_ALU, I_IADDQ} THEN compute_cc(i_fun, i_A, i_B) ELSE isaCc
           /\ status' # "AOK" => UNCHANGED <<isaPc, isaReg, isaMem, isaCc>>
<1>1. /\ status = "AOK" /\ status' = Stat(i_f.icode, i_error)
      /\ pc' = isaPc /\ reg' = isaReg /\ mem' = isaMem /\ cc' = isaCc
      /\ w' = [pc_in |-> new_pc(i_f, i_cond, i_valM),
               cc_in |-> IF i_f.icode \in {I_ALU, I_IADDQ} THEN compute_cc(i_fun, i_A, i_B) ELSE isaCc,
               destE |-> seq_dstE(i_f.icode, i_f.rB, i_cond), vale |-> i_valE,
               destM |-> dstM(i_f.icode, i_f.rA),             valm |-> i_valM,
               mem_write |-> mem_write(i_f.icode), mem_addr |-> i_addr,
               mem_data  |-> mem_data(i_f.icode, i_valA, i_f.valP),
               status    |-> Stat(i_f.icode, i_error)]
  BY StepComputes
<1>2. ASSUME status' = "AOK"
      PROVE  isaPc' = w'.pc_in /\ isaReg' = PendingReg' /\ isaMem' = PendingMem' /\ isaCc' = w'.cc_in
  BY <1>2 DEF isaPc, isaReg, isaMem, isaCc
<1>3. ASSUME status' # "AOK"
      PROVE  isaPc' = pc' /\ isaReg' = reg' /\ isaMem' = mem' /\ isaCc' = cc'
  BY <1>3 DEF isaPc, isaReg, isaMem, isaCc
<1>4. PendingReg' = set_reg_val(set_reg_val(reg', w'.destE, w'.vale), w'.destM, w'.valm)
  BY DEF PendingReg, WrittenBack
<1>5. PendingMem' = IF w'.mem_write THEN set_word_val(mem', w'.mem_addr, w'.mem_data) ELSE mem'
  BY DEF PendingMem
<1>6. PendingReg' = set_reg_val(set_reg_val(isaReg, seq_dstE(i_f.icode, i_f.rB, i_cond), i_valE),
                                dstM(i_f.icode, i_f.rA), i_valM)
  BY <1>1, <1>4
<1>7. PendingMem' = IF mem_write(i_f.icode)
                    THEN set_word_val(isaMem, i_addr, mem_data(i_f.icode, i_valA, i_f.valP))
                    ELSE isaMem
  BY <1>1, <1>5
<1>8. /\ w'.pc_in = new_pc(i_f, i_cond, i_valM)
      /\ w'.cc_in = IF i_f.icode \in {I_ALU, I_IADDQ} THEN compute_cc(i_fun, i_A, i_B) ELSE isaCc
  BY <1>1
<1> QED BY <1>1, <1>2, <1>3, <1>6, <1>7, <1>8

LEMMA StopStep ==
    ASSUME SeqTypeOK, Arch!Supported, sim_step, ~ByteOK(isaPc) \/ i_f.icode \notin 1 .. 12
    PROVE  Arch!Stop
<1>1. CASE ~ByteOK(isaPc)
  <2>1. status' = "ADR" /\ Arch!FetchStat = "ADR"
    BY <1>1, After, SameOperators DEF i_error, Stat, Arch!FetchStat
  <2> QED BY <2>1, After DEF Arch!Stop
<1>2. CASE ByteOK(isaPc) /\ i_f.icode \notin 1 .. 12
  <2>1. i_f.icode \in 0 .. 15 /\ i_f.icode = Arch!hi0
    BY <1>2, SupportedFacts, FetchFacts
  <2>2. ~i_error
    BY <1>2, <2>1, Codes DEF i_error, mem_read, mem_write
  <2>3. CASE i_f.icode = 0
    <3>1. status' = "HLT" /\ Arch!FetchStat = "HLT"
      BY <1>2, <2>1, <2>2, <2>3, After, SameOperators, Codes DEF Stat, instr_valid, Arch!FetchStat
    <3> QED BY <3>1, After DEF Arch!Stop
  <2>4. CASE i_f.icode # 0
    <3>1. status' = "INS" /\ Arch!FetchStat = "INS"
      BY <1>2, <2>1, <2>2, <2>4, After, SameOperators, Codes DEF Stat, instr_valid, Arch!FetchStat
    <3> QED BY <3>1, After DEF Arch!Stop
  <2> QED BY <2>3, <2>4
<1> QED BY <1>1, <1>2

(* An instruction is fetched. *)
LEMMA DecodedFacts ==
    ASSUME SeqTypeOK, Arch!Supported, sim_step, ByteOK(isaPc), i_f.icode \in 1 .. 12
    PROVE  /\ Arch!Decoded(i_f.icode)
           /\ i_f.icode = Arch!hi0 /\ i_f.ifun = Arch!lo0 /\ i_f.rA = Arch!hi1 /\ i_f.rB = Arch!lo1
           /\ i_f.valP = Arch!ftpc /\ (need_valC(i_f.icode) => i_f.valC = Arch!cval)
           /\ i_cond <=> Arch!cond_holds(isaCc, Arch!lo0)
           /\ ~i_error => status' = "AOK"
           /\ i_error => status' = "ADR"
           /\ i_error <=> (mem_read(i_f.icode) \/ mem_write(i_f.icode)) /\ ~WordOK(i_addr)
           /\ status = "AOK"
<1>1. /\ i_f.icode = Arch!hi0 /\ i_f.ifun = Arch!lo0 /\ i_f.rA = Arch!hi1 /\ i_f.rB = Arch!lo1
      /\ i_f.valP = Arch!ftpc /\ (need_valC(i_f.icode) => i_f.valC = Arch!cval)
  BY SupportedFacts, FetchFacts
<1>2. Arch!ok1 /\ Arch!okc /\ Arch!RegsOK
  BY SupportedFacts
<1>3. Arch!FetchStat = "AOK"
  BY <1>1, <1>2, SameOperators, Codes DEF Arch!FetchStat
<1>4. status = "AOK" /\ status' = Stat(i_f.icode, i_error)
  BY After
<1>5. (~i_error => status' = "AOK") /\ (i_error => status' = "ADR")
  BY <1>4, Codes DEF Stat, instr_valid
<1>6. i_error <=> (mem_read(i_f.icode) \/ mem_write(i_f.icode)) /\ ~WordOK(i_addr)
  BY DEF i_error
<1>7. i_cond <=> Arch!cond_holds(isaCc, Arch!lo0)
  BY <1>1, SameOperators DEF i_cond
<1> QED BY <1>1, <1>3, <1>4, <1>5, <1>6, <1>7 DEF Arch!Decoded

LEMMA NoWrite == \A g, x : set_reg_val(g, REG_NONE, x) = g
BY DEF set_reg_val, reg_valid, RegIds, REG_NONE

(* The context of the lemmas on the instructions. *)
Executes(icode) == SeqTypeOK /\ Arch!Supported /\ sim_step /\ ByteOK(isaPc) /\ i_f.icode = icode

(* Instructions that use no memory: they succeed. *)
LEMMA NoMemory ==
    ASSUME NEW icode \in {1, 2, 3, 6, 7, 12}, Executes(icode)
    PROVE  /\ Arch!Decoded(icode) /\ status' = "AOK" /\ status = "AOK" /\ isaMem' = isaMem
           /\ isaPc' = IF icode = 7 /\ i_cond THEN i_f.valC ELSE Arch!ftpc
           /\ isaReg' = set_reg_val(isaReg, seq_dstE(icode, Arch!lo1, i_cond), i_valE)
           /\ isaCc' = IF icode \in {6, 12} THEN compute_cc(i_fun, i_A, i_B) ELSE isaCc
<1>1. /\ ~mem_read(icode) /\ ~mem_write(icode)
      /\ dstM(icode, i_f.rA) = REG_NONE
      /\ new_pc(i_f, i_cond, i_valM) = IF icode = 7 /\ i_cond THEN i_f.valC ELSE i_f.valP
  BY Codes DEF Executes, mem_read, mem_write, dstM, new_pc
<1>2. status' = "AOK" /\ status = "AOK" /\ Arch!Decoded(icode) /\ i_f.valP = Arch!ftpc /\ i_f.rB = Arch!lo1
  BY <1>1, DecodedFacts DEF Executes
<1>3. /\ isaPc' = new_pc(i_f, i_cond, i_valM)
      /\ isaReg' = set_reg_val(set_reg_val(isaReg, seq_dstE(icode, i_f.rB, i_cond), i_valE),
                               REG_NONE, i_valM)
      /\ isaMem' = isaMem
      /\ isaCc' = IF icode \in {I_ALU, I_IADDQ} THEN compute_cc(i_fun, i_A, i_B) ELSE isaCc
  BY <1>1, <1>2, After DEF Executes
<1>4. isaReg' = set_reg_val(isaReg, seq_dstE(icode, i_f.rB, i_cond), i_valE)
  BY <1>3, NoWrite
<1> QED BY <1>1, <1>2, <1>3, <1>4, Codes

LEMMA NopStep ==
    ASSUME Executes(1)
    PROVE  Arch!Nop
<1>1. seq_dstE(1, Arch!lo1, i_cond) = REG_NONE
  BY Codes DEF seq_dstE, dstE
<1>2. isaReg' = isaReg
  BY <1>1, NoMemory, NoWrite
<1> QED BY <1>2, NoMemory, Codes DEF Arch!Nop

LEMMA RrmovqStep ==
    ASSUME Executes(2)
    PROVE  Arch!Rrmovq
<1>1. i_valE = Arch!Reg(Arch!hi1)
  <2>1. i_valA = Arch!Reg(Arch!hi1)
    BY DecodedFacts, SameOperators, Codes DEF Executes, i_valA, srcA, Arch!Reg
  <2>2. i_A = i_valA /\ i_B = 0 /\ i_fun = A_ADD
    BY Codes DEF Executes, i_A, aluA, i_B, aluB, i_fun, alufun
  <2> QED BY <2>1, <2>2, Operands, AddZero DEF Executes, i_valE
<1>2. seq_dstE(2, Arch!lo1, i_cond) = IF i_cond THEN Arch!lo1 ELSE REG_NONE
  BY Codes DEF seq_dstE, dstE
<1>3. isaReg' = IF Arch!cond_holds(isaCc, Arch!lo0)
                THEN Arch!set_reg_val(isaReg, Arch!lo1, Arch!Reg(Arch!hi1)) ELSE isaReg
  BY <1>1, <1>2, NoMemory, NoWrite, DecodedFacts, SameOperators DEF Executes
<1> QED BY <1>3, NoMemory, Codes DEF Arch!Rrmovq

LEMMA IrmovqStep ==
    ASSUME Executes(3)
    PROVE  Arch!Irmovq
<1>1. i_valE = Arch!cval
  <2>1. i_A = i_f.valC /\ i_B = 0 /\ i_fun = A_ADD /\ i_f.valC = Arch!cval
    BY DecodedFacts, Codes DEF Executes, i_A, aluA, i_B, aluB, i_fun, alufun, need_valC
  <2> QED BY <2>1, ValC, AddZero DEF Executes, i_valE
<1>2. seq_dstE(3, Arch!lo1, i_cond) = Arch!lo1
  BY Codes DEF seq_dstE, dstE
<1> QED BY <1>1, <1>2, NoMemory, SameOperators, Codes DEF Arch!Irmovq

LEMMA AluStep ==
    ASSUME Executes(6)
    PROVE  Arch!Alu
<1>1. /\ i_A = Arch!Reg(Arch!hi1) /\ i_B = Arch!Reg(Arch!lo1) /\ i_fun = Arch!lo0
  <2>1. i_valA = Arch!Reg(Arch!hi1) /\ i_valB = Arch!Reg(Arch!lo1)
    BY DecodedFacts, SameOperators, Codes DEF Executes, i_valA, srcA, i_valB, srcB, Arch!Reg
  <2>2. i_A = i_valA /\ i_B = i_valB /\ i_fun = i_f.ifun
    BY Codes DEF Executes, i_A, aluA, i_B, aluB, i_fun, alufun
  <2> QED BY <2>1, <2>2, DecodedFacts DEF Executes
<1>2. seq_dstE(6, Arch!lo1, i_cond) = Arch!lo1
  BY Codes DEF seq_dstE, dstE
<1>3. i_valE = Arch!compute_alu(Arch!lo0, Arch!Reg(Arch!hi1), Arch!Reg(Arch!lo1))
  BY <1>1, SameOperators DEF i_valE
<1>4. isaReg' = Arch!set_reg_val(isaReg, Arch!lo1, i_valE)
  BY <1>2, NoMemory, SameOperators
<1>5. isaCc' = Arch!compute_cc(Arch!lo0, Arch!Reg(Arch!hi1), Arch!Reg(Arch!lo1))
  BY <1>1, NoMemory, SameOperators
<1> QED BY <1>3, <1>4, <1>5, NoMemory, Codes DEF Arch!Alu

LEMMA JmpStep ==
    ASSUME Executes(7)
    PROVE  Arch!Jmp
<1>1. i_f.valC = Arch!cval /\ (i_cond <=> Arch!cond_holds(isaCc, Arch!lo0))
  BY DecodedFacts, Codes DEF Executes, need_valC
<1>2. seq_dstE(7, Arch!lo1, i_cond) = REG_NONE
  BY Codes DEF seq_dstE, dstE
<1>3. isaReg' = isaReg
  BY <1>2, NoMemory, NoWrite
<1> QED BY <1>1, <1>3, NoMemory, Codes DEF Arch!Jmp

LEMMA IaddqStep ==
    ASSUME Executes(12)
    PROVE  Arch!Iaddq
<1>1. i_A = Arch!cval /\ i_B = Arch!Reg(Arch!lo1) /\ i_fun = A_ADD
  <2>1. i_valB = Arch!Reg(Arch!lo1) /\ i_f.valC = Arch!cval
    BY DecodedFacts, SameOperators, Codes DEF Executes, i_valB, srcB, Arch!Reg, need_valC
  <2> QED BY <2>1, Codes DEF Executes, i_A, aluA, i_B, aluB, i_fun, alufun
<1>2. seq_dstE(12, Arch!lo1, i_cond) = Arch!lo1
  BY Codes DEF seq_dstE, dstE
<1>3. i_valE = Arch!Wrap(Arch!Reg(Arch!lo1) + Arch!cval)
  <2>1. i_A \in Word /\ i_B \in Word
    BY Operands DEF Executes
  <2>2. i_valE = Wrap(i_A + i_B)
    BY <1>1, <2>1, AluAdds DEF i_valE
  <2>3. i_A + i_B = i_B + i_A
    BY <2>1, Bounds
  <2> QED BY <1>1, <2>2, <2>3, SameOperators
<1>4. isaReg' = Arch!set_reg_val(isaReg, Arch!lo1, i_valE)
  BY <1>2, NoMemory, SameOperators
<1>5. isaCc' = Arch!compute_cc(Arch!A_ADD, Arch!cval, Arch!Reg(Arch!lo1))
  BY <1>1, NoMemory, SameOperators DEF A_ADD, Arch!A_ADD
<1> QED BY <1>3, <1>4, <1>5, NoMemory, Codes DEF Arch!Iaddq

(* Instructions that use memory: they fail when the address is bad. *)
LEMMA WithMemory ==
    ASSUME NEW icode \in {4, 5, 8, 9, 10, 11}, Executes(icode)
    PROVE  /\ Arch!Decoded(icode) /\ status = "AOK"
           /\ ~WordOK(i_addr) => status' = "ADR" /\ UNCHANGED <<isaPc, isaReg, isaMem, isaCc>>
           /\ WordOK(i_addr) =>
                /\ status' = "AOK" /\ isaCc' = isaCc
                /\ isaPc' = new_pc(i_f, i_cond, i_valM)
                /\ isaReg' = set_reg_val(set_reg_val(isaReg, dstE(icode, i_f.rB), i_valE),
                                         dstM(icode, i_f.rA), i_valM)
                /\ isaMem' = IF icode \in {4, 8, 10}
                             THEN set_word_val(isaMem, i_addr, mem_data(icode, i_valA, i_f.valP))
                             ELSE isaMem
<1>1. /\ mem_read(icode) \/ mem_write(icode)
      /\ mem_write(icode) <=> icode \in {4, 8, 10}
      /\ icode \notin {I_ALU, I_IADDQ} /\ icode # I_RRMOVQ
  BY Codes DEF mem_read, mem_write
<1>2. /\ Arch!Decoded(icode) /\ status = "AOK"
      /\ WordOK(i_addr) => status' = "AOK"
      /\ ~WordOK(i_addr) => status' = "ADR"
  BY <1>1, DecodedFacts DEF Executes
<1>3. seq_dstE(icode, i_f.rB, i_cond) = dstE(icode, i_f.rB)
  BY <1>1 DEF seq_dstE
<1>4. ASSUME ~WordOK(i_addr) PROVE UNCHANGED <<isaPc, isaReg, isaMem, isaCc>>
  BY <1>2, <1>4, After DEF Executes
<1>5. ASSUME WordOK(i_addr)
      PROVE  /\ isaCc' = isaCc
             /\ isaPc' = new_pc(i_f, i_cond, i_valM)
             /\ isaReg' = set_reg_val(set_reg_val(isaReg, dstE(icode, i_f.rB), i_valE),
                                      dstM(icode, i_f.rA), i_valM)
             /\ isaMem' = IF icode \in {4, 8, 10}
                          THEN set_word_val(isaMem, i_addr, mem_data(icode, i_valA, i_f.valP))
                          ELSE isaMem
  BY <1>1, <1>2, <1>3, <1>5, After DEF Executes
<1> QED BY <1>2, <1>4, <1>5

LEMMA RmmovqStep ==
    ASSUME Executes(4)
    PROVE  Arch!Rmmovq
<1>1. i_addr = Arch!DataAt /\ i_valA = Arch!Reg(Arch!hi1) /\ i_f.valP = Arch!ftpc
  BY Addresses, DecodedFacts, SameOperators, Codes DEF Executes, i_valA, srcA, Arch!Reg
<1>2. /\ dstE(4, i_f.rB) = REG_NONE /\ dstM(4, i_f.rA) = REG_NONE
      /\ mem_data(4, i_valA, i_f.valP) = i_valA
      /\ new_pc(i_f, i_cond, i_valM) = i_f.valP
  BY Codes DEF Executes, dstE, dstM, mem_data, new_pc
<1>3. CASE WordOK(i_addr)
  <2>1. isaReg' = isaReg
    BY <1>2, <1>3, WithMemory, NoWrite
  <2>2. isaMem' = Arch!set_word_val(isaMem, Arch!DataAt, Arch!Reg(Arch!hi1))
    BY <1>1, <1>2, <1>3, WithMemory, SameOperators
  <2>3. /\ isaPc' = Arch!ftpc /\ isaCc' = isaCc /\ status' = status
        /\ Arch!Decoded(4) /\ Arch!WordOK(Arch!DataAt)
    BY <1>1, <1>2, <1>3, WithMemory, SameOperators
  <2> QED BY <2>1, <2>2, <2>3, Codes DEF Arch!Rmmovq
<1>4. CASE ~WordOK(i_addr)
  <2>1. isaMem' = Arch!set_word_val(isaMem, Arch!DataAt, Arch!Reg(Arch!hi1))
    BY <1>1, <1>4, WithMemory, SameOperators DEF set_word_val
  <2>2. /\ status' = "ADR" /\ isaPc' = isaPc /\ isaReg' = isaReg /\ isaCc' = isaCc
        /\ Arch!Decoded(4) /\ ~Arch!WordOK(Arch!DataAt)
    BY <1>1, <1>4, WithMemory, SameOperators
  <2> QED BY <2>1, <2>2, Codes DEF Arch!Rmmovq, Arch!Fail
<1> QED BY <1>3, <1>4

LEMMA MrmovqStep ==
    ASSUME Executes(5)
    PROVE  Arch!Mrmovq
<1>1. i_addr = Arch!DataAt /\ i_f.rA = Arch!hi1 /\ i_f.valP = Arch!ftpc
  BY Addresses, DecodedFacts, Codes DEF Executes
<1>2. /\ dstE(5, i_f.rB) = REG_NONE /\ dstM(5, i_f.rA) = Arch!hi1
      /\ new_pc(i_f, i_cond, i_valM) = i_f.valP
  BY <1>1, Codes DEF Executes, dstE, dstM, new_pc
<1>3. CASE WordOK(i_addr)
  <2>1. i_valM = Arch!get_word_val(isaMem, Arch!DataAt, 0)
    BY <1>1, <1>3, SameOperators, Codes DEF Executes, i_valM, mem_read, get_word_val
  <2>2. isaReg' = Arch!set_reg_val(isaReg, Arch!hi1, i_valM)
    BY <1>2, <1>3, WithMemory, NoWrite, SameOperators
  <2>3. /\ isaPc' = Arch!ftpc /\ isaCc' = isaCc /\ status' = status /\ isaMem' = isaMem
        /\ Arch!Decoded(5) /\ Arch!WordOK(Arch!DataAt)
    BY <1>1, <1>2, <1>3, WithMemory, SameOperators
  <2> QED BY <2>1, <2>2, <2>3, Codes DEF Arch!Mrmovq
<1>4. CASE ~WordOK(i_addr)
  <2>1. /\ status' = "ADR" /\ isaPc' = isaPc /\ isaReg' = isaReg /\ isaCc' = isaCc
        /\ isaMem' = isaMem /\ Arch!Decoded(5) /\ ~Arch!WordOK(Arch!DataAt)
    BY <1>1, <1>4, WithMemory, SameOperators
  <2> QED BY <2>1, Codes DEF Arch!Mrmovq, Arch!Fail
<1> QED BY <1>3, <1>4

LEMMA CallStep ==
    ASSUME Executes(8)
    PROVE  Arch!Call
<1>1. /\ i_addr = Arch!dvalPushed /\ i_valE = Arch!dvalPushed /\ i_f.valP = Arch!ftpc
      /\ i_f.valC = Arch!cval
  BY Addresses, DecodedFacts, Codes DEF Executes, need_valC
<1>2. WordOK(i_addr)
  BY <1>1, SupportedFacts, Codes DEF Executes
<1>3. /\ dstE(8, i_f.rB) = Arch!REG_RSP /\ dstM(8, i_f.rA) = REG_NONE
      /\ mem_data(8, i_valA, i_f.valP) = i_f.valP
      /\ new_pc(i_f, i_cond, i_valM) = i_f.valC
  BY Codes DEF Executes, dstE, dstM, mem_data, new_pc, REG_RSP, Arch!REG_RSP
<1>4. isaReg' = Arch!set_reg_val(isaReg, Arch!REG_RSP, Arch!dvalPushed)
  BY <1>1, <1>2, <1>3, WithMemory, NoWrite, SameOperators
<1>5. isaMem' = Arch!set_word_val(isaMem, Arch!dvalPushed, Arch!ftpc)
  BY <1>1, <1>2, <1>3, WithMemory, SameOperators
<1>6. /\ isaPc' = Arch!cval /\ isaCc' = isaCc /\ status' = status
      /\ Arch!Decoded(8) /\ Arch!WordOK(Arch!dvalPushed)
  BY <1>1, <1>2, <1>3, WithMemory, SameOperators
<1> QED BY <1>4, <1>5, <1>6, Codes DEF Arch!Call

LEMMA RetStep ==
    ASSUME Executes(9)
    PROVE  Arch!Ret
<1>1. i_addr = Arch!dval /\ i_valE = Arch!dvalPopped
  BY Addresses DEF Executes
<1>2. /\ dstE(9, i_f.rB) = Arch!REG_RSP /\ dstM(9, i_f.rA) = REG_NONE
      /\ new_pc(i_f, i_cond, i_valM) = i_valM
  BY Codes DEF Executes, dstE, dstM, new_pc, REG_RSP, Arch!REG_RSP
<1>3. CASE WordOK(i_addr)
  <2>1. i_valM = Arch!get_word_val(isaMem, Arch!dval, 0)
    BY <1>1, <1>3, SameOperators, Codes DEF Executes, i_valM, mem_read, get_word_val
  <2>2. isaReg' = Arch!set_reg_val(isaReg, Arch!REG_RSP, Arch!dvalPopped)
    BY <1>1, <1>2, <1>3, WithMemory, NoWrite, SameOperators
  <2>3. /\ isaPc' = i_valM /\ isaCc' = isaCc /\ status' = status /\ isaMem' = isaMem
        /\ Arch!Decoded(9) /\ Arch!WordOK(Arch!dval)
    BY <1>1, <1>2, <1>3, WithMemory, SameOperators
  <2> QED BY <2>1, <2>2, <2>3, Codes DEF Arch!Ret
<1>4. CASE ~WordOK(i_addr)
  <2>1. /\ status' = "ADR" /\ isaPc' = isaPc /\ isaReg' = isaReg /\ isaCc' = isaCc
        /\ isaMem' = isaMem /\ Arch!Decoded(9) /\ ~Arch!WordOK(Arch!dval)
    BY <1>1, <1>4, WithMemory, SameOperators
  <2> QED BY <2>1, Codes DEF Arch!Ret, Arch!Fail
<1> QED BY <1>3, <1>4

LEMMA PushqStep ==
    ASSUME Executes(10)
    PROVE  Arch!Pushq
<1>1. /\ i_addr = Arch!dvalPushed /\ i_valE = Arch!dvalPushed /\ i_f.valP = Arch!ftpc
      /\ i_valA = Arch!Reg(Arch!hi1)
  BY Addresses, DecodedFacts, SameOperators, Codes DEF Executes, i_valA, srcA, Arch!Reg
<1>2. WordOK(i_addr)
  BY <1>1, SupportedFacts, Codes DEF Executes
<1>3. /\ dstE(10, i_f.rB) = Arch!REG_RSP /\ dstM(10, i_f.rA) = REG_NONE
      /\ mem_data(10, i_valA, i_f.valP) = i_valA
      /\ new_pc(i_f, i_cond, i_valM) = i_f.valP
  BY Codes DEF Executes, dstE, dstM, mem_data, new_pc, REG_RSP, Arch!REG_RSP
<1>4. isaReg' = Arch!set_reg_val(isaReg, Arch!REG_RSP, Arch!dvalPushed)
  BY <1>1, <1>2, <1>3, WithMemory, NoWrite, SameOperators
<1>5. isaMem' = Arch!set_word_val(isaMem, Arch!dvalPushed, Arch!Reg(Arch!hi1))
  BY <1>1, <1>2, <1>3, WithMemory, SameOperators
<1>6. /\ isaPc' = Arch!ftpc /\ isaCc' = isaCc /\ status' = status
      /\ Arch!Decoded(10) /\ Arch!WordOK(Arch!dvalPushed)
  BY <1>1, <1>2, <1>3, WithMemory, SameOperators
<1> QED BY <1>4, <1>5, <1>6, Codes DEF Arch!Pushq

LEMMA PopqStep ==
    ASSUME Executes(11)
    PROVE  Arch!Popq
<1>1. /\ i_addr = Arch!dval /\ i_valE = Arch!dvalPopped /\ i_f.valP = Arch!ftpc /\ i_f.rA = Arch!hi1
  BY Addresses, DecodedFacts DEF Executes
<1>2. WordOK(i_addr)
  BY <1>1, SupportedFacts, Codes DEF Executes
<1>3. /\ dstE(11, i_f.rB) = Arch!REG_RSP /\ dstM(11, i_f.rA) = Arch!hi1
      /\ new_pc(i_f, i_cond, i_valM) = i_f.valP
  BY <1>1, Codes DEF Executes, dstE, dstM, new_pc, REG_RSP, Arch!REG_RSP
<1>4. i_valM = Arch!get_word_val(isaMem, Arch!dval, 0)
  BY <1>1, <1>2, SameOperators, Codes DEF Executes, i_valM, mem_read, get_word_val
<1>5. isaReg' = Arch!set_reg_val(Arch!set_reg_val(isaReg, Arch!REG_RSP, Arch!dvalPopped),
                                 Arch!hi1, i_valM)
  BY <1>1, <1>2, <1>3, WithMemory, SameOperators
<1>6. /\ isaPc' = Arch!ftpc /\ isaCc' = isaCc /\ status' = status /\ isaMem' = isaMem
      /\ Arch!Decoded(11) /\ Arch!WordOK(Arch!dval)
  BY <1>1, <1>2, <1>3, WithMemory, SameOperators
<1> QED BY <1>4, <1>5, <1>6, Codes DEF Arch!Popq

-----------------------------------------------------------------------------
(* The theorems. *)

LEMMA StepIsInstruction ==
    ASSUME SeqTypeOK, SupportedStep
    PROVE  Arch!Next
<1>1. Arch!Supported /\ sim_step
  BY DEF SupportedStep
<1>2. CASE ~ByteOK(isaPc) \/ i_f.icode \notin 1 .. 12
  BY <1>1, <1>2, StopStep DEF Arch!Next, Arch!step_state
<1>3. CASE ByteOK(isaPc) /\ i_f.icode \in 1 .. 12
  <2>1. Executes(i_f.icode)
    BY <1>1, <1>3 DEF Executes
  <2>2. i_f.icode \in {1, 2, 3, 4, 5, 6, 7, 8, 9, 10, 11, 12}
    BY <1>3
  <2>3. Arch!step_state
    BY <2>1, <2>2, NopStep, RrmovqStep, IrmovqStep, RmmovqStep, MrmovqStep, AluStep, JmpStep,
       CallStep, RetStep, PushqStep, PopqStep, IaddqStep DEF Arch!step_state
  <2> QED BY <1>1, <2>3 DEF Arch!Next
<1> QED BY <1>2, <1>3

(* The wires of ssim.c's step hold words and register IDs, whatever the    *)
(* program, the size of the words and the memory.                          *)
THEOREM SeqTypes == SeqSpec => []SeqTypeOK
<1>1. SeqTypeOK /\ [SupportedStep]_vars => SeqTypeOK'
  <2>1. CASE SupportedStep
    BY <2>1, StepTypes
  <2>2. CASE UNCHANGED vars
    BY <2>2 DEF vars, SeqTypeOK
  <2> QED BY <2>1, <2>2
<1> QED BY <1>1, InitTypes, PTL DEF SeqSpec

(* Every sim_step of ssim.c does what step_state of isa.c does, from the   *)
(* same state on: the safety part of SeqImplementsY86.                     *)
THEOREM SeqStepsAreY86 == SeqSpec => Arch!Init /\ [][Arch!Next]_(Arch!vars)
<1>1. Init => Arch!Init
  <2> SUFFICES ASSUME Init PROVE Arch!Init
    OBVIOUS
  <2>1. mem \in Memory
    BY ImagesAssumption DEF Init, Memory
  <2>2. PendingReg = reg /\ PendingMem = mem
    BY DEF Init, PendingReg, PendingMem, WrittenBack, ResetWires, set_reg_val, reg_valid, RegIds, REG_NONE
  <2> QED BY <2>1, <2>2, SameOperators
          DEF Init, Arch!Init, isaPc, isaReg, isaMem, isaCc, ResetWires, DEFAULT_CC, Arch!DEFAULT_CC,
              RegIds, Arch!RegIds, REG_NONE, Arch!REG_NONE
<1>2. SeqTypeOK /\ [SupportedStep]_vars => [Arch!Next]_(Arch!vars)
  <2>1. CASE SupportedStep
    BY <2>1, StepIsInstruction
  <2>2. CASE UNCHANGED vars
    BY <2>2 DEF vars, Arch!vars, isaPc, isaReg, isaMem, isaCc, PendingReg, PendingMem
  <2> QED BY <2>1, <2>2
<1> QED BY <1>1, <1>2, SeqTypes, PTL DEF SeqSpec

=============================================================================
