----------------------------- MODULE ISAProofs -----------------------------
(***************************************************************************)
(* Lemmas about words, memory, the register file and the fetch of an       *)
(* instruction, which the proofs about both processors use.                *)
(***************************************************************************)
EXTENDS Control, TLAPS

-----------------------------------------------------------------------------
(* Words, registers and memory. *)

LEMMA Bounds ==
    /\ 0 \in Word /\ WordBytes \in Word /\ -WordBytes \in Word /\ WordBytes \in Nat /\ Half \in Nat
    /\ \A x \in Word : x \in Int
    /\ \A x \in Int : 0 <= x /\ x <= MemLen + WordBytes + 2 => x \in Word
BY WordBytesAssumption, HalfAssumption, MemLenAssumption DEF Word

LEMMA WrapType == \A x \in Int : Wrap(x) \in Word
<1> TAKE x \in Int
<1>1. CASE x \in Word
  BY <1>1 DEF Wrap
<1>2. CASE x \notin Word
  <2>1. Half \in Nat /\ Half > 0
    BY HalfAssumption, MemLenAssumption, WordBytesAssumption
  <2>2. (x + Half) % (2 * Half) \in 0 .. 2 * Half - 1
    BY <2>1
  <2> QED BY <1>2, <2>1, <2>2 DEF Wrap, Word
<1> QED BY <1>1, <1>2

LEMMA AluType == \A op \in Int, x, y \in Word : compute_alu(op, x, y) \in Word
<1> TAKE op \in Int, x, y \in Word
<1>1. Wrap(x + y) \in Word /\ Wrap(y - x) \in Word
  BY WrapType, Bounds
<1> QED BY <1>1, BitwiseAssumption, Bounds DEF compute_alu

LEMMA CCType == \A op \in Int, x, y \in Word : compute_cc(op, x, y) \in CondCodes
BY DEF compute_cc, CondCodes

(* Adding nothing. *)
LEMMA AddZero == \A x \in Word : compute_alu(A_ADD, x, 0) = x
BY Bounds DEF compute_alu, Wrap, A_ADD, A_SUB, A_AND, A_XOR

LEMMA AluAdds == \A x, y \in Word : compute_alu(A_ADD, x, y) = Wrap(x + y)
BY DEF compute_alu, A_ADD, A_SUB, A_AND, A_XOR

LEMMA RegType ==
    ASSUME NEW g \in [RegIds -> Word], NEW id
    PROVE  get_reg_val(g, id) \in Word
BY Bounds DEF get_reg_val, reg_valid

LEMMA SetRegType ==
    ASSUME NEW g \in [RegIds -> Word], NEW id, NEW x \in Word
    PROVE  set_reg_val(g, id, x) \in [RegIds -> Word]
BY DEF set_reg_val, reg_valid

LEMMA ByteType ==
    ASSUME NEW mm \in Memory, NEW pos \in Int, NEW x \in Byte
    PROVE  get_byte_val(mm, pos, x) \in Byte
BY MemLenAssumption DEF Memory, get_byte_val, ByteOK

LEMMA WordType ==
    ASSUME NEW mm \in Memory, NEW pos \in Int, NEW x \in Word,
           WordOK(pos) => pos + WordBytes <= MemLen
    PROVE  get_word_val(mm, pos, x) \in Word
<1>1. CASE WordOK(pos)
  <2>1. pos >= 0 /\ pos + WordBytes <= MemLen
    BY <1>1 DEF WordOK
  <2>2. [i \in 0 .. WordBytes - 1 |-> mm[pos + i]] \in Bytes
    BY <2>1, WordBytesAssumption, MemLenAssumption DEF Memory, Bytes
  <2> QED BY <1>1, <2>2, DecodeAssumption DEF get_word_val, WordAt
<1>2. CASE ~WordOK(pos)
  BY <1>2 DEF get_word_val
<1> QED BY <1>1, <1>2

LEMMA SetWordType ==
    ASSUME NEW mm \in Memory, NEW pos \in Int, NEW x \in Word
    PROVE  set_word_val(mm, pos, x) \in Memory
<1>1. Encode(x) \in Bytes
  BY EncodeAssumption
<1>2. \A i \in pos .. pos + WordBytes - 1 : Encode(x)[i - pos] \in Byte
  BY <1>1, WordBytesAssumption DEF Bytes
<1> QED BY <1>2 DEF set_word_val, Memory

(* The next bytes after a byte of memory do not wrap. *)
LEMMA NearWordOK ==
    ASSUME NEW at \in Int, at >= 0, at <= MemLen + 1
    PROVE  WordOK(at) <=> at + WordBytes <= MemLen
BY Bounds, MemLenAssumption DEF WordOK, Wrap

(* What is fetched from memory has the types of a pipeline register.       *)
LEMMA FetchTypes ==
    ASSUME NEW mm \in Memory, NEW at \in Int, NEW error \in BOOLEAN, ~error => ByteOK(at)
    PROVE  LET i == Fetched(mm, at, error)
           IN  /\ i.icode \in 0 .. 15 /\ i.ifun \in 0 .. 15 /\ i.rA \in 0 .. 15 /\ i.rB \in 0 .. 15
               /\ i.valC \in Word /\ i.valP \in Int
               /\ error => i.icode = I_NOP
               /\ ~error => i.valP \in Word
<1> DEFINE instr  == IF error THEN 16 * I_NOP ELSE get_byte_val(mm, at, 16 * I_NOP)
           icode  == instr \div 16
           regids == IF need_regids(icode) THEN get_byte_val(mm, at + 1, 255) ELSE 255
           immAt  == IF need_regids(icode) THEN at + 2 ELSE at + 1
           valC   == IF need_valC(icode) THEN get_word_val(mm, immAt, 0) ELSE 0
           valP   == IF need_valC(icode) THEN immAt + WordBytes ELSE immAt
<1>1. Fetched(mm, at, error) = [icode |-> icode, ifun |-> instr % 16,
         rA |-> regids \div 16, rB |-> regids % 16, valC |-> valC, valP |-> valP]
  BY DEF Fetched
<1>2. instr \in Byte /\ regids \in Byte
  <2>1. 16 * I_NOP \in Byte /\ 255 \in Byte
    BY DEF I_NOP, Byte
  <2> QED BY <2>1, ByteType
<1>3. error => icode = I_NOP
  BY DEF I_NOP
<1>4. /\ icode \in 0 .. 15 /\ instr % 16 \in 0 .. 15
      /\ regids \div 16 \in 0 .. 15 /\ regids % 16 \in 0 .. 15
  <2> HIDE DEF instr, regids
  <2> QED BY <1>2 DEF Byte
<1>5. immAt \in {at + 1, at + 2} /\ immAt \in Int
  OBVIOUS
<1> HIDE DEF icode, instr, regids, immAt
<1>6. valC \in Word
  <2>1. CASE need_valC(icode)
    <3>1. ~error
      BY <1>3, <2>1 DEF need_valC, I_NOP, I_IRMOVQ, I_RMMOVQ, I_MRMOVQ, I_JMP, I_CALL, I_IADDQ
    <3>2. immAt >= 0 /\ immAt <= MemLen + 1
      BY <1>5, <3>1, MemLenAssumption DEF ByteOK
    <3>3. WordOK(immAt) => immAt + WordBytes <= MemLen
      BY <1>5, <3>2, NearWordOK
    <3> QED BY <1>5, <2>1, <3>3, WordType, Bounds
  <2>2. CASE ~need_valC(icode)
    BY <2>2, Bounds
  <2> QED BY <2>1, <2>2
<1>7. valP \in Int
  BY <1>5, Bounds
<1>8. ~error => valP \in Word
  <2> SUFFICES ASSUME ~error PROVE valP \in Word
    OBVIOUS
  <2>1. valP >= 0 /\ valP <= MemLen + WordBytes + 2
    BY <1>5, Bounds, MemLenAssumption DEF ByteOK
  <2> QED BY <1>7, <2>1, Bounds
<1> HIDE DEF valC, valP
<1> QED BY <1>1, <1>3, <1>4, <1>6, <1>7, <1>8

=============================================================================
