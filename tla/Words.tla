------------------------------- MODULE Words --------------------------------
(***************************************************************************)
(* Machine words and the integer operations of the I, M and A instructions *)
(* (exec_rv32i, exec_rv32m, exec_rv32a in cpu.rs), for any word size.  The *)
(* operands and results are unsigned words, as the register file holds     *)
(* them; `as i32` is as_i32.                                               *)
(***************************************************************************)
EXTENDS Integers

CONSTANTS
  Width,       \* bits of a word, 32 in the code
  HalfWidth,   \* bits of a halfword, 16 in the code
  ByteWidth    \* bits of a byte, 8 in the code

ASSUME WidthAssumption ==
  /\ Width \in Nat /\ HalfWidth \in Nat /\ ByteWidth \in Nat
  /\ 0 < ByteWidth /\ ByteWidth < HalfWidth /\ HalfWidth < Width

M    == 2 ^ Width
Word == 0 .. M - 1

Abs(n) == IF n < 0 THEN -n ELSE n

\* `as i32` of a u32, and back; the same for the narrow signed types.
as_signed(a, width) == IF a >= 2 ^ (width - 1) THEN a - 2 ^ width ELSE a

as_i32(a) == as_signed(a, Width)
as_u32(n) == n % M

\* The low part of a word, and its sign extension: `as i8 as i32 as u32`.
truncate(a, width)    == a % 2 ^ width
sign_extend(a, width) == as_u32(as_signed(truncate(a, width), width))

wrapping_add(a, b) == as_u32(a + b)
wrapping_sub(a, b) == as_u32(a - b)
wrapping_mul(a, b) == as_u32(a * b)

\* A shift amount is taken modulo the word size (& 0x1F).
shamt(b)  == b % Width
shl(a, b) == as_u32(a * 2 ^ shamt(b))
shr(a, b) == a \div 2 ^ shamt(b)
sar(a, b) == as_u32(as_i32(a) \div 2 ^ shamt(b))

bit(a, i) == (a \div 2 ^ i) % 2

bit_and(a, b) ==
  LET and[i \in 0 .. Width] ==
        IF i = 0 THEN 0
        ELSE and[i - 1] + bit(a, i - 1) * bit(b, i - 1) * 2 ^ (i - 1)
  IN  and[Width]

bit_or(a, b)  == a + b - bit_and(a, b)
bit_xor(a, b) == a + b - 2 * bit_and(a, b)
bit_not(a)    == M - 1 - a

boolean(p) == IF p THEN 1 ELSE 0

least(a, b)    == IF a <= b THEN a ELSE b
greatest(a, b) == IF a >= b THEN a ELSE b

-----------------------------------------------------------------------------
(* Division as Rust has it: the quotient of integers is rounded to zero.   *)

quotient(a, b) == IF (a < 0) = (b < 0) THEN Abs(a) \div Abs(b)
                  ELSE -(Abs(a) \div Abs(b))

remainder(a, b) == a - quotient(a, b) * b

\* The high half of a product of two integers, an i64 or u64 shifted right.
high(n) == as_u32(n \div M)

-----------------------------------------------------------------------------
(* The tables of OP and OP_IMM, of the M extension, and of the AMOs.       *)

alu(f, a, b) ==
  CASE f = "add"  -> wrapping_add(a, b)
    [] f = "sub"  -> wrapping_sub(a, b)
    [] f = "sll"  -> shl(a, b)
    [] f = "slt"  -> boolean(as_i32(a) < as_i32(b))
    [] f = "sltu" -> boolean(a < b)
    [] f = "xor"  -> bit_xor(a, b)
    [] f = "srl"  -> shr(a, b)
    [] f = "sra"  -> sar(a, b)
    [] f = "or"   -> bit_or(a, b)
    [] f = "and"  -> bit_and(a, b)

\* Mutant: the signed quotient and remainder round down.
MulDivFloor(f, a, b) ==
  CASE f = "mul"    -> wrapping_mul(a, b)
    [] f = "mulh"   -> high(as_i32(a) * as_i32(b))
    [] f = "mulhsu" -> high(as_i32(a) * b)
    [] f = "mulhu"  -> high(a * b)
    [] f = "div"    -> IF b = 0 THEN M - 1
                       ELSE as_u32(IF as_i32(b) > 0
                                   THEN as_i32(a) \div as_i32(b)
                                   ELSE (-as_i32(a)) \div (-as_i32(b)))
    [] f = "divu"   -> IF b = 0 THEN M - 1 ELSE a \div b
    [] f = "rem"    -> IF b = 0 THEN a
                       ELSE as_u32(remainder(as_i32(a), as_i32(b)))
    [] f = "remu"   -> IF b = 0 THEN a ELSE a % b

muldiv(f, a, b) ==
  CASE f = "mul"    -> wrapping_mul(a, b)
    [] f = "mulh"   -> high(as_i32(a) * as_i32(b))
    [] f = "mulhsu" -> high(as_i32(a) * b)
    [] f = "mulhu"  -> high(a * b)
    [] f = "div"    -> IF b = 0 THEN M - 1
                       ELSE as_u32(quotient(as_i32(a), as_i32(b)))
    [] f = "divu"   -> IF b = 0 THEN M - 1 ELSE a \div b
    [] f = "rem"    -> IF b = 0 THEN a
                       ELSE as_u32(remainder(as_i32(a), as_i32(b)))
    [] f = "remu"   -> IF b = 0 THEN a ELSE a % b

\* The word an AMO leaves in memory, from the old one and rs2.
amo(f, old, b) ==
  CASE f = "lr"      -> old
    [] f = "sc"      -> b
    [] f = "amoswap" -> b
    [] f = "amoadd"  -> wrapping_add(old, b)
    [] f = "amoxor"  -> bit_xor(old, b)
    [] f = "amoand"  -> bit_and(old, b)
    [] f = "amoor"   -> bit_or(old, b)
    [] f = "amomin"  -> as_u32(least(as_i32(old), as_i32(b)))
    [] f = "amomax"  -> as_u32(greatest(as_i32(old), as_i32(b)))
    [] f = "amominu" -> least(old, b)
    [] f = "amomaxu" -> greatest(old, b)

\* Mutant: BGE compares unsigned.
TakenUnsigned(f, a, b) ==
  CASE f = "beq"  -> a = b
    [] f = "bne"  -> a # b
    [] f = "blt"  -> as_i32(a) < as_i32(b)
    [] f \in {"bge", "bgeu"} -> a >= b
    [] f = "bltu" -> a < b

\* OP_BRANCH: is the branch taken?
taken(f, a, b) ==
  CASE f = "beq"  -> a = b
    [] f = "bne"  -> a # b
    [] f = "blt"  -> as_i32(a) < as_i32(b)
    [] f = "bge"  -> as_i32(a) >= as_i32(b)
    [] f = "bltu" -> a < b
    [] f = "bgeu" -> a >= b

\* exec_csr: the value a CSR instruction leaves behind.
csr_value(f, old, src) ==
  CASE f = "csrr"  -> old
    [] f = "csrrw" -> src
    [] f = "csrrs" -> bit_or(old, src)
    [] f = "csrrc" -> bit_and(old, bit_not(src))
=============================================================================
