----------------------------- MODULE BlockSizes -----------------------------
(***************************************************************************)
(* The arithmetic of mm.c on block sizes: the size of the block for a      *)
(* request, and the free list a block belongs to.                          *)
(***************************************************************************)
EXTENDS Integers

CONSTANT SizeT      \* number of values of size_t: 2^32 in the 32-bit build

ASSUME SizeTAssumption == SizeT \in Nat /\ SizeT >= 1024

-----------------------------------------------------------------------------

(* Unsigned addition: it wraps.                                            *)
Plus(a, b) == IF a + b < SizeT THEN a + b ELSE a + b - SizeT

(* x & ~0x7 *)
MultipleOf8(x) == x - (x % 8)

(* A block holds the payload, rounded up, and two tags; 16 bytes at least. *)
ALIGN_TO_FULLBLK(size) ==
    LET full == Plus(MultipleOf8(Plus(size, 7)), 8)
    IN  IF full > 16 THEN full ELSE 16

(* The sizes that mm_malloc treats specially are rounded up further.       *)
Requested(size) ==
    CASE size = 112 -> 128
      [] size = 448 -> 512
      [] OTHER      -> size

(* Lists 0 to 9 hold blocks of up to 16, 32, ... 8192 bytes, list 10 the   *)
(* larger ones.                                                            *)
Limit == <<16, 32, 64, 128, 256, 512, 1024, 2048, 4096, 8192>>

LIST_NUM == 11

get_list_index(size) ==
    CHOOSE i \in 0..LIST_NUM - 1 :
        /\ i < 10 => size <= Limit[i + 1]
        /\ i > 0  => size > Limit[i]
=============================================================================
