-------------------------------- MODULE ISA --------------------------------
(***************************************************************************)
(* The Y86-64 words, memory, register file, ALU and condition codes of     *)
(* isa.c, as operators that the instruction set and both processors use.   *)
(*                                                                         *)
(* A word is a signed integer of WordBytes bytes that wraps around; the    *)
(* code has WordBytes = 8 and Half = 2^63.  A memory is a function from    *)
(* addresses to bytes, a register file a function from register IDs to     *)
(* words.  A call that returns FALSE leaves its destination alone: here it *)
(* is passed as the last argument.  How C lays a word out in bytes, and    *)
(* its bitwise operators, are parameters.                                  *)
(***************************************************************************)
EXTENDS Integers

CONSTANTS
    WordBytes,   \* bytes per word
    Half,        \* half of the number of words
    MemLen,      \* bytes of memory
    Images,      \* the memories that load_mem leaves
    Encode(_),   \* the bytes of a word, in the order they have in memory
    Decode(_),   \* the word that has these bytes
    And(_, _),   \* C's & on words
    Xor(_, _)    \* C's ^ on words

Word  == -Half .. Half - 1
Byte  == 0 .. 255
Bytes == [0 .. WordBytes - 1 -> Byte]

ASSUME WordBytesAssumption == WordBytes \in Nat \ {0}
ASSUME HalfAssumption == Half \in Nat /\ MemLen + WordBytes + 2 < Half
ASSUME MemLenAssumption == MemLen \in Nat
ASSUME ImagesAssumption == Images \subseteq [0 .. MemLen - 1 -> Byte]
ASSUME EncodeAssumption == \A x \in Word : Encode(x) \in Bytes /\ Decode(Encode(x)) = x
ASSUME DecodeAssumption == \A b \in Bytes : Decode(b) \in Word
ASSUME BitwiseAssumption == \A x, y \in Word : And(x, y) \in Word /\ Xor(x, y) \in Word

-----------------------------------------------------------------------------
(* Names. *)

I_HALT   == 0
I_NOP    == 1
I_RRMOVQ == 2
I_IRMOVQ == 3
I_RMMOVQ == 4
I_MRMOVQ == 5
I_ALU    == 6
I_JMP    == 7
I_CALL   == 8
I_RET    == 9
I_PUSHQ  == 10
I_POPQ   == 11
I_IADDQ  == 12

A_ADD == 0
A_SUB == 1
A_AND == 2
A_XOR == 3

C_YES == 0
C_LE  == 1
C_L   == 2
C_E   == 3
C_NE  == 4
C_GE  == 5
C_G   == 6

REG_RSP  == 4
REG_NONE == 15
RegIds   == 0 .. REG_NONE - 1

-----------------------------------------------------------------------------
(* Words. *)

(* The word that is x modulo the number of words. *)
Wrap(x) == IF x \in Word THEN x ELSE ((x + Half) % (2 * Half)) - Half

(* Faulty: the sum is kept as it is. *)
compute_alu_NoWrap(op, argA, argB) ==
    CASE op = A_ADD -> argA + argB
      [] op = A_SUB -> Wrap(argB - argA)
      [] op = A_AND -> And(argA, argB)
      [] op = A_XOR -> Xor(argA, argB)
      [] OTHER      -> 0

compute_alu(op, argA, argB) ==
    CASE op = A_ADD -> Wrap(argA + argB)
      [] op = A_SUB -> Wrap(argB - argA)
      [] op = A_AND -> And(argA, argB)
      [] op = A_XOR -> Xor(argA, argB)
      [] OTHER      -> 0

(* Faulty: a subtraction's overflow is found as an addition's. *)
compute_cc_AddsAlways(op, argA, argB) ==
    LET val == compute_alu(op, argA, argB)
    IN  [zf |-> val = 0, sf |-> val < 0,
         of |-> op \in {A_ADD, A_SUB} /\ (argA < 0) = (argB < 0) /\ (val < 0) # (argA < 0)]

compute_cc(op, argA, argB) ==
    LET val == compute_alu(op, argA, argB)
    IN  [zf |-> val = 0, sf |-> val < 0,
         of |-> \/ op = A_ADD /\ (argA < 0) = (argB < 0) /\ (val < 0) # (argA < 0)
                \/ op = A_SUB /\ (argA > 0) = (argB < 0) /\ (val < 0) # (argB < 0)]

CondCodes  == [zf : BOOLEAN, sf : BOOLEAN, of : BOOLEAN]
DEFAULT_CC == [zf |-> TRUE, sf |-> FALSE, of |-> FALSE]

cond_holds(cc, cond) ==
    LET less == cc.sf # cc.of
    IN  \/ cond = C_YES
        \/ cond = C_LE /\ (less \/ cc.zf)
        \/ cond = C_L  /\ less
        \/ cond = C_E  /\ cc.zf
        \/ cond = C_NE /\ ~cc.zf
        \/ cond = C_GE /\ ~less
        \/ cond = C_G  /\ ~less /\ ~cc.zf

-----------------------------------------------------------------------------
(* Memory and registers. *)

Memory == [0 .. MemLen - 1 -> Byte]

ByteOK(pos) == pos >= 0 /\ pos < MemLen

(* The sum is a word and wraps: a position within WordBytes of the largest *)
(* word passes.                                                            *)
WordOK(pos) == pos >= 0 /\ Wrap(pos + WordBytes) <= MemLen

get_byte_val(m, pos, dest) == IF ByteOK(pos) THEN m[pos] ELSE dest

WordAt(m, pos) == Decode([i \in 0 .. WordBytes - 1 |-> m[pos + i]])

get_word_val(m, pos, dest) == IF WordOK(pos) THEN WordAt(m, pos) ELSE dest

set_word_val(m, pos, val) ==
    IF ~WordOK(pos) THEN m
    ELSE [i \in DOMAIN m |-> IF i \in pos .. pos + WordBytes - 1
                             THEN Encode(val)[i - pos]
                             ELSE m[i]]

reg_valid(id) == id \in RegIds

get_reg_val(r, id) == IF reg_valid(id) THEN r[id] ELSE 0

set_reg_val(r, id, val) == IF reg_valid(id) THEN [r EXCEPT ![id] = val] ELSE r
=============================================================================
