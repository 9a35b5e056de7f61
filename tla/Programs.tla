------------------------------ MODULE Programs ------------------------------
(***************************************************************************)
(* Y86-64 programs for TLC, in words of one byte: an instruction has at    *)
(* most three bytes.  A program is a sequence of instructions; jumps and   *)
(* calls name the position of the instruction they go to.                  *)
(***************************************************************************)
EXTENDS ISA, Sequences

Plain(code)      == [code |-> code, target |-> 0]
To(code, target) == [code |-> code, target |-> target]

U(x) == x % 256

irmovq(V, rB)     == Plain(<<48, 240 + rB, U(V)>>)
cmov(c, rA, rB)   == Plain(<<32 + c, 16 * rA + rB>>)
rmmovq(rA, V, rB) == Plain(<<64, 16 * rA + rB, U(V)>>)
mrmovq(V, rB, rA) == Plain(<<80, 16 * rA + rB, U(V)>>)
op(fun, rA, rB)   == Plain(<<96 + fun, 16 * rA + rB>>)
jump(c, target)   == To(<<112 + c, 0>>, target)
call(target)      == To(<<128, 0>>, target)
ret               == Plain(<<144>>)
pushq(rA)         == Plain(<<160, 16 * rA + 15>>)
popq(rA)          == Plain(<<176, 16 * rA + 15>>)
iaddq(V, rB)      == Plain(<<192, 240 + rB, U(V)>>)
halt              == Plain(<<0>>)
nop               == Plain(<<16>>)
illegal           == Plain(<<208>>)

(* Where each instruction is, and the bytes of them all. *)
Addresses(program) ==
    LET at[k \in 1 .. Len(program)] ==
          IF k = 1 THEN 0 ELSE at[k - 1] + Len(program[k - 1].code)
    IN  at

Assembled(program) ==
    LET at == Addresses(program)
        bytes[k \in 0 .. Len(program)] ==
          IF k = 0 THEN <<>>
          ELSE LET i == program[k]
               IN  bytes[k - 1] \o (IF i.target = 0 THEN i.code ELSE <<i.code[1], at[i.target]>>)
    IN  bytes[Len(program)]

(* The bytes from address 0, and the data from address at; 0 elsewhere.    *)
Image(bytes, at, data, size) ==
    [a \in 0 .. size - 1 |->
        CASE a < Len(bytes)                -> bytes[a + 1]
          [] a \in at .. at + Len(data) - 1 -> data[a - at + 1]
          [] OTHER                         -> 0]

-----------------------------------------------------------------------------
(* Words of one byte. *)

ByteEncode(x) == [i \in {0} |-> x % 256]
ByteDecode(b) == IF b[0] < 128 THEN b[0] ELSE b[0] - 256

Bits[x \in 0 .. 255, y \in 0 .. 255] ==
    IF x = 0 \/ y = 0 THEN 0 ELSE (x % 2) * (y % 2) + 2 * Bits[x \div 2, y \div 2]

Signed(x)     == IF x < 128 THEN x ELSE x - 256
ByteAnd(x, y) == Signed(Bits[U(x), U(y)])
ByteXor(x, y) == Signed(U(x) + U(y) - 2 * Bits[U(x), U(y)])

-----------------------------------------------------------------------------
(***************************************************************************)
(* The programs TLC runs the processors on, in words of one byte.  Every   *)
(* program sets the stack pointer and %rax, has Free instructions of the   *)
(* alphabet or Free + 1 of the ones the pipeline's control has to look at, *)
(* and ends with a move and a halt.  The stack holds the address of the    *)
(* second instruction, a stack address and the largest word.               *)
(***************************************************************************)

CONSTANT Free   \* instructions that are chosen freely

RAX == 0
RCX == 1

Stack == 24

Alphabet ==
    {op(A_SUB, RAX, RCX), op(A_XOR, RAX, RAX), op(A_AND, RCX, RAX), iaddq(1, RAX),
     cmov(C_L, RAX, RCX), jump(C_NE, 5), jump(C_LE, 3), call(4), ret,
     pushq(RAX), pushq(REG_RSP), popq(RAX), popq(REG_RSP),
     mrmovq(2, REG_RSP, RAX), mrmovq(1, REG_RSP, REG_RSP), mrmovq(0, RAX, RCX),
     rmmovq(RAX, 1, REG_RSP), rmmovq(RCX, 0, RAX), mrmovq(Stack + 1, REG_NONE, RAX),
     halt, nop, illegal}

Source(middle) ==
    <<irmovq(Stack, REG_RSP), irmovq(3, RAX)>> \o middle \o <<cmov(C_YES, RCX, RAX), halt>>

(* Loads and their uses, returns, branches and what they may overtake.      *)
Hazardous ==
    {op(A_SUB, RAX, RCX), cmov(C_L, RAX, RCX), jump(C_NE, 5), jump(C_LE, 3), call(4), ret,
     popq(RAX), popq(REG_RSP), mrmovq(1, REG_RSP, REG_RSP), mrmovq(2, REG_RSP, RAX),
     rmmovq(RAX, 1, REG_RSP), illegal}

MCImages ==
    {Image(Assembled(Source(middle)), Stack, <<3, Stack + 1, 127>>, MemLen) :
        middle \in [1 .. Free -> Alphabet] \cup [1 .. Free + 1 -> Hazardous]}

(* A store, and a load from an address without a base register. *)
NoBaseImages ==
    {Image(Assembled(Source(<<rmmovq(RAX, 1, REG_RSP), mrmovq(Stack + 1, REG_NONE, RAX)>>)),
           Stack, <<3, Stack + 1, 127>>, MemLen)}

(* In the pipeline an operand needs registers that exist (see README).     *)
PipeNamed == {I_RMMOVQ, I_MRMOVQ, I_ALU}
=============================================================================
