-------------------------------- MODULE Exec --------------------------------
(***************************************************************************)
(* What instructions do to the registers and to memory: the arms of        *)
(* exec_rv32i, exec_rv32m, exec_rv32a, exec_rv32fd and the CSR part of     *)
(* exec_csr (cpu.rs), on a decoded instruction.  Wide and Compressed are   *)
(* about the decoding.                                                     *)
(*                                                                         *)
(* A short program runs from address 0 and from any register contents.     *)
(* Memory is words at their own addresses (Memory is about the rest).  An  *)
(* interrupt handler that saves and restores what it uses may update a     *)
(* word between two instructions.                                          *)
(***************************************************************************)
EXTENDS SoftFloat, Sequences

CONSTANTS
  Regs,       \* integer registers, with 0
  FRegs,      \* floating-point registers
  Cells,      \* word addresses
  Csrs,       \* numbers of control and status registers
  Tasks,      \* programs, registers they may start from, and the words an
              \* interrupt handler counts up: [progs, regs, fregs, counted]
  Transfers   \* programs that copy the single in f1 to f2

\* `fmt` is the format of a floating-point instruction; a CSR instruction has
\* the number of its CSR in `imm`.
Inst(op, fmt, rd, rs1, rs2, rs3, imm) ==
  [op |-> op, fmt |-> fmt, rd |-> rd, rs1 |-> rs1, rs2 |-> rs2, rs3 |-> rs3,
   imm |-> imm]

ASSUME ExecAssumption ==
  /\ 0 \in Regs
  /\ Cells \subseteq Word
  /\ \A t \in Tasks : /\ t.regs \subseteq {r \in [Regs -> Word] : r[0] = 0}
                      /\ t.fregs \subseteq [FRegs -> DoubleWord]
                      /\ t.counted \subseteq Cells

VARIABLES
  start,    \* the program, and what the registers held at its start
  pc,
  regs,
  fregs,    \* the bits of the f64 registers
  mem,
  csrs,
  updates   \* how many times the word at each address was counted up

prog == start.prog

vars == <<start, pc, regs, fregs, mem, csrs, updates>>

Init ==
  /\ \E t \in Tasks : \E p \in t.progs, x \in t.regs, f \in t.fregs :
       start = [prog |-> p, regs |-> x, fregs |-> f, counted |-> t.counted]
  /\ regs = start.regs
  /\ fregs = start.fregs
  /\ pc = 0
  /\ mem = [a \in Cells |-> 0]
  /\ csrs = [c \in Csrs |-> 0]
  /\ updates = [a \in Cells |-> 0]

Fetched == pc % 4 = 0 /\ pc \div 4 < Len(prog)
Current == prog[pc \div 4 + 1]
next_pc == wrapping_add(pc, 4)

\* Mutant: x0 can be written.
WriteAnyReg(n, val) == [regs EXCEPT ![n] = val]

write_reg(n, val) == IF n = 0 THEN regs ELSE [regs EXCEPT ![n] = val]

\* The instruction writes integer register rd, and nothing else.
WriteX(i, val) ==
  /\ regs' = write_reg(i.rd, val)
  /\ pc' = next_pc
  /\ UNCHANGED <<start, fregs, mem, csrs, updates>>

WriteF(i, bits) ==
  /\ fregs' = [fregs EXCEPT ![i.rd] = bits]
  /\ pc' = next_pc
  /\ UNCHANGED <<start, regs, mem, csrs, updates>>

Address(i) == wrapping_add(regs[i.rs1], as_u32(i.imm))

-----------------------------------------------------------------------------
(* exec_rv32i, exec_rv32m, exec_rv32a and exec_csr.                        *)

AluOps    == {"add", "sub", "sll", "slt", "sltu", "xor", "srl", "sra", "or",
              "and"}
MulDivOps == {"mul", "mulh", "mulhsu", "mulhu", "div", "divu", "rem", "remu"}
AmoOps    == {"lr", "sc", "amoswap", "amoadd", "amoxor", "amoand", "amoor",
              "amomin", "amomax", "amominu", "amomaxu"}
BranchOps == {"beq", "bne", "blt", "bge", "bltu", "bgeu"}
LoadOps   == {"lb", "lh", "lw", "lbu", "lhu"}
StoreOps  == {"sb", "sh", "sw"}

\* The forms with an immediate, and the operation of each.
ImmOps    == [addi |-> "add", slti |-> "slt", sltiu |-> "sltu",
              xori |-> "xor", ori |-> "or", andi |-> "and", slli |-> "sll",
              srli |-> "srl", srai |-> "sra"]
CsrOps    == [csrr |-> "csrr", csrrw |-> "csrrw", csrrs |-> "csrrs",
              csrrc |-> "csrrc", csrrwi |-> "csrrw", csrrsi |-> "csrrs",
              csrrci |-> "csrrc"]
CsrImmOps == {"csrrwi", "csrrsi", "csrrci"}

ExecOp(i) ==
  /\ i.op \in AluOps
  /\ WriteX(i, alu(i.op, regs[i.rs1], regs[i.rs2]))

ExecImm(i) ==
  /\ i.op \in DOMAIN ImmOps
  /\ WriteX(i, alu(ImmOps[i.op], regs[i.rs1], as_u32(i.imm)))

ExecUpper(i) ==
  /\ i.op \in {"lui", "auipc"}
  /\ WriteX(i, IF i.op = "lui" THEN as_u32(i.imm)
               ELSE wrapping_add(pc, as_u32(i.imm)))

\* OP_MISC_MEM
ExecFence(i) ==
  /\ i.op = "fence"
  /\ pc' = next_pc
  /\ UNCHANGED <<start, regs, fregs, mem, csrs, updates>>

ExecMulDiv(i) ==
  /\ i.op \in MulDivOps
  /\ WriteX(i, muldiv(i.op, regs[i.rs1], regs[i.rs2]))

ExecJal(i) ==
  /\ i.op = "jal"
  /\ regs' = write_reg(i.rd, next_pc)
  /\ pc' = wrapping_add(pc, as_u32(i.imm))
  /\ UNCHANGED <<start, fregs, mem, csrs, updates>>

\* Mutant: the link is written before the target is read.
JalrLinkFirst(i) ==
  /\ i.op = "jalr"
  /\ regs' = write_reg(i.rd, next_pc)
  /\ LET target == wrapping_add(write_reg(i.rd, next_pc)[i.rs1], as_u32(i.imm))
     IN  pc' = target - (target % 2)
  /\ UNCHANGED <<start, fregs, mem, csrs, updates>>

ExecJalr(i) ==
  /\ i.op = "jalr"
  /\ LET target == Address(i)
     IN  /\ regs' = write_reg(i.rd, next_pc)
         /\ pc' = target - (target % 2)
  /\ UNCHANGED <<start, fregs, mem, csrs, updates>>

ExecBranch(i) ==
  /\ i.op \in BranchOps
  /\ pc' = IF taken(i.op, regs[i.rs1], regs[i.rs2])
           THEN wrapping_add(pc, as_u32(i.imm)) ELSE next_pc
  /\ UNCHANGED <<start, regs, fregs, mem, csrs, updates>>

ExecLoad(i) ==
  /\ i.op \in LoadOps
  /\ Address(i) \in Cells
  /\ LET word == mem[Address(i)]
     IN  WriteX(i, CASE i.op = "lb"  -> sign_extend(word, ByteWidth)
                     [] i.op = "lh"  -> sign_extend(word, HalfWidth)
                     [] i.op = "lw"  -> word
                     [] i.op = "lbu" -> truncate(word, ByteWidth)
                     [] i.op = "lhu" -> truncate(word, HalfWidth))

\* The low `width` bits of `word` become those of `val`.
Overwrite(word, val, width) ==
  word - truncate(word, width) + truncate(val, width)

ExecStore(i) ==
  /\ i.op \in StoreOps
  /\ Address(i) \in Cells
  /\ LET width == [sb |-> ByteWidth, sh |-> HalfWidth, sw |-> Width][i.op]
     IN  mem' = [mem EXCEPT ![Address(i)] = Overwrite(@, regs[i.rs2], width)]
  /\ pc' = next_pc
  /\ UNCHANGED <<start, regs, fregs, csrs, updates>>

\* A counted update: AMOADD of a one, or an SC, which always succeeds.
Counts(i) == i.op = "sc" \/ (i.op = "amoadd" /\ regs[i.rs2] = 1)

\* Mutant: AMOADD writes rd before it reads rs2.
AmoWritesRdFirst(i) ==
  /\ i.op \in AmoOps
  /\ regs[i.rs1] \in Cells
  /\ LET addr == regs[i.rs1]
         old  == mem[addr]
         rd   == write_reg(i.rd, IF i.op = "sc" THEN 0 ELSE old)
         src  == IF i.op = "amoadd" THEN rd[i.rs2] ELSE regs[i.rs2]
     IN  /\ mem' = IF i.op = "lr" THEN mem
                   ELSE [mem EXCEPT ![addr] = amo(i.op, old, src)]
         /\ regs' = rd
         /\ updates' = IF Counts(i) THEN [updates EXCEPT ![addr] = @ + 1]
                       ELSE updates
  /\ pc' = next_pc
  /\ UNCHANGED <<start, fregs, csrs>>

ExecAmo(i) ==
  /\ i.op \in AmoOps
  /\ regs[i.rs1] \in Cells
  /\ LET addr == regs[i.rs1]
         old  == mem[addr]
     IN  /\ mem' = IF i.op = "lr" THEN mem
                   ELSE [mem EXCEPT ![addr] = amo(i.op, old, regs[i.rs2])]
         /\ regs' = write_reg(i.rd, IF i.op = "sc" THEN 0 ELSE old)
         /\ updates' = IF Counts(i) THEN [updates EXCEPT ![addr] = @ + 1]
                       ELSE updates
  /\ pc' = next_pc
  /\ UNCHANGED <<start, fregs, csrs>>

\* The immediate of a CSR instruction is its rs1 field.
ExecCsr(i) ==
  LET src == IF i.op \in CsrImmOps THEN i.rs1 ELSE regs[i.rs1]
  IN  /\ i.op \in DOMAIN CsrOps
      /\ csrs' = [csrs EXCEPT ![i.imm] = csr_value(CsrOps[i.op], @, src)]
      /\ regs' = write_reg(i.rd, csrs[i.imm])
      /\ pc' = next_pc
      /\ UNCHANGED <<start, fregs, mem, updates>>

-----------------------------------------------------------------------------
(* exec_rv32fd.                                                            *)

read_fp(i, n)  == IF i.fmt = Single THEN read_f32(fregs[n]) ELSE fregs[n]
write_fp(i, p) == IF i.fmt = Single THEN write_f32(p) ELSE write_f64(p)

ArithOps   == {"fadd", "fsub", "fmul", "fdiv", "fsqrt"}
SignOps    == {"fsgnj", "fsgnjn", "fsgnjx"}
MinMaxOps  == {"fmin", "fmax"}
CompareOps == {"fle", "flt", "feq"}
FusedOps   == {"fmadd", "fmsub", "fnmsub", "fnmadd"}

ExecArith(i) ==
  LET a == read_fp(i, i.rs1)
      b == read_fp(i, i.rs2)
  IN  /\ i.op \in ArithOps
      /\ WriteF(i, write_fp(i, CASE i.op = "fadd" -> add(i.fmt, a, b)
                                 [] i.op = "fsub" -> sub(i.fmt, a, b)
                                 [] i.op = "fmul" -> mul(i.fmt, a, b)
                                 [] i.op = "fdiv" -> div(i.fmt, a, b)
                                 [] i.op = "fsqrt" -> sqrt(i.fmt, a)))

\* Sign injection works on bits: a NaN is not made canonical, and the .d
\* form takes the register as it is.
ExecSign(i) ==
  LET a   == read_fp(i, i.rs1)
      b   == read_fp(i, i.rs2)
      neg == CASE i.op = "fsgnj"  -> is_negative(i.fmt, b)
               [] i.op = "fsgnjn" -> ~is_negative(i.fmt, b)
               [] i.op = "fsgnjx" ->
                    is_negative(i.fmt, a) # is_negative(i.fmt, b)
      p   == WithSign(i.fmt, neg, magnitude(i.fmt, a))
  IN  /\ i.op \in SignOps
      /\ WriteF(i, IF i.fmt = Single THEN boxed(p) ELSE p)

ExecMinMax(i) ==
  LET a == read_fp(i, i.rs1)
      b == read_fp(i, i.rs2)
      results == CASE is_nan(i.fmt, a) -> {b}
                   [] ~is_nan(i.fmt, a) /\ is_nan(i.fmt, b) -> {a}
                   [] OTHER -> IF i.op = "fmin" THEN min_results(i.fmt, a, b)
                               ELSE max_results(i.fmt, a, b)
  IN  /\ i.op \in MinMaxOps
      /\ \E p \in results : WriteF(i, write_fp(i, p))

ExecCompare(i) ==
  LET a == read_fp(i, i.rs1)
      b == read_fp(i, i.rs2)
  IN  /\ i.op \in CompareOps
      /\ WriteX(i, boolean(CASE i.op = "fle" -> le(i.fmt, a, b)
                             [] i.op = "flt" -> lt(i.fmt, a, b)
                             [] i.op = "feq" -> eq(i.fmt, a, b)))

\* FCVT to an integer, and FCLASS.
ExecToInt(i) ==
  LET a == read_fp(i, i.rs1)
  IN  /\ i.op \in {"fcvt.w", "fcvt.wu", "fclass"}
      /\ WriteX(i, CASE i.op = "fcvt.w"  ->
                          as_u32(to_int(i.fmt, a, -(M \div 2), M \div 2 - 1))
                     [] i.op = "fcvt.wu" -> to_int(i.fmt, a, 0, M - 1)
                     [] i.op = "fclass"  -> class(i.fmt, a))

\* FCVT to format fmt, from an integer or from the other format.
ExecToFloat(i) ==
  /\ i.op \in {"fcvt.f.w", "fcvt.f.wu", "fcvt.f.f"}
  /\ WriteF(i, write_fp(i,
       CASE i.op = "fcvt.f.w"  -> from_int(i.fmt, as_i32(regs[i.rs1]))
         [] i.op = "fcvt.f.wu" -> from_int(i.fmt, regs[i.rs1])
         [] i.op = "fcvt.f.f"  ->
              IF i.fmt = Single THEN convert(Double, Single, fregs[i.rs1])
              ELSE convert(Single, Double, read_f32(fregs[i.rs1]))))

\* FMV.X.W and FMV.W.X.
ExecMove(i) ==
  \/ i.op = "fmv.x.w" /\ WriteX(i, low(fregs[i.rs1]))
  \/ i.op = "fmv.w.x" /\ WriteF(i, boxed(regs[i.rs1]))

\* The product is rounded, and then the sum.
ExecFused(i) ==
  LET f == i.fmt
      product == mul(f, read_fp(i, i.rs1), read_fp(i, i.rs2))
      c == read_fp(i, i.rs3)
  IN  /\ i.op \in FusedOps
      /\ WriteF(i, write_fp(i,
           CASE i.op = "fmadd"  -> add(f, product, c)
             [] i.op = "fmsub"  -> sub(f, product, c)
             [] i.op = "fnmsub" -> negate(f, sub(f, product, c))
             [] i.op = "fnmadd" -> negate(f, add(f, product, c))))

\* Mutant: FLW goes through write_f32 as FLD goes through write_f64.
LoadFpCanonical(i) ==
  LET a == Address(i)
  IN  \/ /\ i.op = "flw" /\ a \in Cells
         /\ WriteF(i, write_f32(mem[a]))
      \/ /\ i.op = "fld" /\ a \in Cells /\ wrapping_add(a, 4) \in Cells
         /\ WriteF(i, write_f64(join(mem[a], mem[wrapping_add(a, 4)])))

\* FLW boxes the word; FLD goes through write_f64.
ExecLoadFp(i) ==
  LET a == Address(i)
  IN  \/ /\ i.op = "flw" /\ a \in Cells
         /\ WriteF(i, boxed(mem[a]))
      \/ /\ i.op = "fld" /\ a \in Cells /\ wrapping_add(a, 4) \in Cells
         /\ WriteF(i, write_f64(join(mem[a], mem[wrapping_add(a, 4)])))

ExecStoreFp(i) ==
  LET a == Address(i)
      d == fregs[i.rs2]
  IN  /\ \/ /\ i.op = "fsw" /\ a \in Cells
            /\ mem' = [mem EXCEPT ![a] = low(d)]
         \/ /\ i.op = "fsd" /\ a \in Cells /\ wrapping_add(a, 4) \in Cells
            /\ mem' = [mem EXCEPT ![a] = low(d),
                                  ![wrapping_add(a, 4)] = high_word(d)]
      /\ pc' = next_pc
      /\ UNCHANGED <<start, regs, fregs, csrs, updates>>

-----------------------------------------------------------------------------
ExecInteger(i) ==
  \/ ExecOp(i) \/ ExecImm(i) \/ ExecUpper(i) \/ ExecMulDiv(i) \/ ExecJal(i)
  \/ ExecJalr(i) \/ ExecBranch(i) \/ ExecLoad(i) \/ ExecStore(i)
  \/ ExecAmo(i) \/ ExecCsr(i) \/ ExecFence(i)

ExecFloat(i) ==
  \/ ExecArith(i) \/ ExecSign(i) \/ ExecMinMax(i) \/ ExecCompare(i)
  \/ ExecToInt(i) \/ ExecToFloat(i) \/ ExecMove(i) \/ ExecFused(i)
  \/ ExecLoadFp(i) \/ ExecStoreFp(i)

execute == Fetched /\ (ExecInteger(Current) \/ ExecFloat(Current))

\* An interrupt between two instructions whose handler executes an AMOADD of
\* one and returns.
Interrupt ==
  /\ Fetched
  /\ \E a \in start.counted :
       /\ updates[a] < 2
       /\ mem' = [mem EXCEPT ![a] = wrapping_add(@, 1)]
       /\ updates' = [updates EXCEPT ![a] = @ + 1]
  /\ UNCHANGED <<start, pc, regs, fregs, csrs>>

Next == execute \/ Interrupt

Spec == Init /\ [][Next]_vars

-----------------------------------------------------------------------------
(* Properties.  They are about short programs that compute one thing in    *)
(* several instructions; x1, x2, f1 and f2 are their operands.             *)

X(op, d, a, b)    == Inst(op, Single, d, a, b, 0, 0)
F(op, f, d, a, b) == Inst(op, f, d, a, b, 0, 0)

Completed(progs) == pc = 4 * Len(prog) /\ prog \in progs

\* Registers hold words, and x0 stays zero whatever instruction names it as
\* its destination (write_reg, cpu.rs:305).
TypeOK ==
  /\ pc \in Word
  /\ regs \in [Regs -> Word] /\ regs[0] = 0
  /\ fregs \in [FRegs -> DoubleWord]
  /\ mem \in [Cells -> Word]
  /\ csrs \in [Csrs -> Word]

ByPair(op1, op2) == {<<X(op1, 3, 1, 2), X(op2, 4, 1, 2)>>}
AddCarry  == {<<X("add", 3, 1, 2), X("sltu", 4, 3, 1)>>}
SubBorrow == {<<X("sltu", 4, 1, 2), X("sub", 3, 1, 2)>>}
MulSigned == ByPair("mulh", "mul")
MulMixed  == ByPair("mulhsu", "mul")
MulPlain  == ByPair("mulhu", "mul")
DivSigned == ByPair("div", "rem")
DivPlain  == ByPair("divu", "remu")

\* Two-word arithmetic done with pairs of instructions is exact: ADD or SUB
\* with the carry from SLTU, the high and the low half of a product for each
\* signedness, and quotients with remainders, which have the sign of the
\* dividend and answer a division by zero and the one that overflows as the
\* instruction set says (cpu.rs:738).
PairsExact ==
  LET a == regs[1]
      b == regs[2]
      sa == as_i32(a)
      sb == as_i32(b)
      x == regs[3]
      y == regs[4]
  IN  /\ Completed(AddCarry)  => x + y * M = a + b
      /\ Completed(SubBorrow) => x - y * M = a - b
      /\ Completed(MulSigned) => as_i32(x) * M + y = sa * sb
      /\ Completed(MulMixed)  => as_i32(x) * M + y = sa * b
      /\ Completed(MulPlain)  => x * M + y = a * b
      /\ Completed(DivPlain)  =>
           IF b = 0 THEN x = M - 1 /\ y = a ELSE a = x * b + y /\ y < b
      /\ Completed(DivSigned) =>
           IF b = 0 THEN x = M - 1 /\ y = a
           ELSE /\ y = as_u32(a - x * b)
                /\ Abs(as_i32(y)) < Abs(sb)
                /\ y # 0 => (as_i32(y) < 0) = (sa < 0)
                /\ Abs(as_i32(x)) * Abs(sb) <= Abs(sa)

Imm(op, d, a, n)   == Inst(op, Single, d, a, 0, 0, n)
Put(op, b)         == Inst(op, Single, 0, 0, b, 0, 4)
Narrow(store, load, shift, width) ==
  <<Put("sw", 2), Put(store, 1), Imm(load, 3, 0, 4),
    Imm("slli", 4, 1, Width - width), Imm(shift, 4, 4, Width - width)>>
AmoByOp(amo_op, op) ==
  <<Put("sw", 1), Imm("addi", 4, 0, 4), X(amo_op, 3, 4, 2),
    Imm("lw", 4, 0, 4), X(op, 3, 1, 2)>>
AmoByBranch(amo_op, branch) ==
  <<Put("sw", 2), Imm("addi", 4, 0, 4), X(amo_op, 3, 4, 1),
    Imm("lw", 4, 0, 4), X("or", 3, 1, 0),
    Inst(branch, Single, 0, 1, 2, 0, 8), X("or", 3, 2, 0)>>
AddByLrSc ==
  <<Put("sw", 1), Imm("addi", 4, 0, 4), X("lr", 3, 4, 0), X("add", 3, 3, 2),
    X("sc", 4, 4, 3), X("or", 0, 3, 0), Imm("lw", 4, 4, 4)>>

Agreeing ==
  {Narrow("sb", "lb", "srai", ByteWidth),
   Narrow("sb", "lbu", "srli", ByteWidth),
   Narrow("sh", "lh", "srai", HalfWidth),
   Narrow("sh", "lhu", "srli", HalfWidth),
   AmoByOp("amoadd", "add"), AmoByOp("amoxor", "xor"),
   AmoByOp("amoor", "or"), AmoByOp("amoand", "and"),
   AmoByBranch("amomin", "blt"), AmoByBranch("amomax", "bge"),
   AmoByBranch("amominu", "bltu"), AmoByBranch("amomaxu", "bgeu"),
   AddByLrSc}

\* Different instructions for the same thing agree: a narrow load after a
\* narrow store and a pair of shifts, an AMO and the ALU instruction or the
\* branch it stands for, LR and SC around an ADD and the sum (cpu.rs:619,
\* cpu.rs:784).
SequencesAgree == Completed(Agreeing) => regs[3] = regs[4]

Swaps == {<<Imm("csrrw", 1, 1, 0), Imm("csrrw", 1, 1, 0)>>,
          <<X("amoswap", 1, 2, 1), X("amoswap", 1, 2, 1)>>}
Call  == {<<X("jalr", 1, 1, 0), X("add", 3, 3, 2),
            Inst("beq", Single, 0, 0, 0, 0, 12),
            X("add", 4, 4, 2), X("jalr", 0, 1, 0)>>}

\* An instruction whose destination is also a source uses the old value:
\* swapping a register twice with a CSR (what a handler does with mscratch)
\* or with a word of memory leaves all as it was, and a call through the
\* link register itself runs the function once and comes back (cpu.rs:594).
OperandsReadFirst ==
  /\ Completed(Swaps) /\ start.counted = {} =>
       regs = start.regs /\ mem = [a \in Cells |-> 0]
  /\ Completed(Call) /\ start.regs[1] = 12 =>
       /\ regs[3] = wrapping_add(start.regs[3], regs[2])
       /\ regs[4] = wrapping_add(start.regs[4], regs[2])

\* No update of a word that both the program and a handler count up with
\* AMOADD is lost, wherever the interrupt comes and even when the register
\* of the operand is that of the result (cpu.rs:784).
NoLostUpdate == \A a \in start.counted : mem[a] = updates[a] % M

-----------------------------------------------------------------------------
SpillDouble == {<<Inst("fsd", Double, 0, 0, 1, 0, 4),
                  Inst("fld", Double, 2, 0, 0, 0, 4)>>}

\* Moving a float does not change a bit of it: a boxed single (a NaN with a
\* payload too) through memory, integer registers and sign injection in any
\* order, and a double that is no NaN through memory (cpu.rs:835).
FloatsKept ==
  /\ Completed(Transfers) /\ high_word(start.fregs[1]) = M - 1 =>
       fregs[2] = start.fregs[1]
  /\ Completed(SpillDouble) /\ ~is_nan(Double, start.fregs[1]) =>
       fregs[2] = start.fregs[1]

Widened == <<F("fcvt.f.f", Double, 3, 1, 0), F("fcvt.f.f", Double, 4, 2, 0)>>
ArithBoth ==
  {Widened \o <<F(op, Double, 3, 3, 4), F("fcvt.f.f", Single, 3, 3, 0),
                F(op, Single, 4, 1, 2)>> : op \in ArithOps}
CompareBoth ==
  {Widened \o <<F(op, Double, 3, 3, 4), F(op, Single, 4, 1, 2)>> :
     op \in CompareOps}
ThroughDouble ==
  {<<F("fcvt.f.w", Double, 3, 1, 0), F("fcvt.w", Double, 3, 3, 0)>>,
   <<F("fcvt.f.wu", Double, 3, 1, 0), F("fcvt.wu", Double, 3, 3, 0)>>}
DoubleAsSingle == {<<F("fcvt.f.w", Double, 3, 1, 0),
                     F("fclass", Single, 3, 3, 0)>>}

\* Single and double instructions agree on the registers they share:
\* arithmetic and comparison of two singles is the same in doubles, an
\* integer comes back from a double, and a register that holds a double is
\* a quiet NaN to a single instruction (read_f32, cpu.rs:312).  The wide
\* format has more than twice the bits of the narrow one, so that rounding
\* twice is rounding once.
FormatsAgree ==
  /\ Completed(ArithBoth)      => fregs[3] = fregs[4]
  /\ Completed(CompareBoth)    => regs[3] = regs[4]
  /\ Completed(ThroughDouble)  => regs[3] = regs[1]
  /\ Completed(DoubleAsSingle) => regs[3] = 9

Observed ==
  {<<F(op, Single, 3, 1, 2), F("fmv.x.w", Single, 3, 3, 0)>> :
     op \in ArithOps \cup MinMaxOps \cup {"fcvt.f.f"}}
MinThenMax(f) == {<<F("fmin", f, 3, 1, 2), F("fmax", f, 4, 1, 2),
                    F("fle", f, 3, 3, 4)>>}

\* A NaN that an operation on singles leaves in a register is the canonical
\* one, whatever NaNs went in, and a minimum is at most the maximum unless
\* both operands are NaN (write_f32, cpu.rs:323).
NaNsCanonical ==
  /\ Completed(Observed) /\ is_nan(Single, regs[3]) => regs[3] = NaN(Single)
  /\ \A f \in {Single, Double} :
       Completed(MinThenMax(f)) =>
         (regs[3] = 0 <=> \A n \in {1, 2} :
                            is_nan(f, read_fp([fmt |-> f], n)))

Fused == {<<Inst("fmadd", Single, 4, 1, 2, 3, 0)>>}

\* FMADD computes s1 * s2 + s3 and rounds the result once, as the comment
\* on OP_MADD says (inst.rs:45).
FusedRoundsOnce ==
  LET a == read_f32(fregs[1])
      b == read_f32(fregs[2])
      c == read_f32(fregs[3])
      exact == Value(Single, a) * Value(Single, b)
               + Value(Single, c) * One(Single)
  IN  /\ Completed(Fused)
      /\ \A p \in {a, b, c} : magnitude(Single, p) < InfMag(Single)
      /\ exact # 0
      => fregs[4] = boxed(Nearest(Single, exact < 0, Abs(exact), One(Single)))
=============================================================================
