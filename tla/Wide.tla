-------------------------------- MODULE Wide --------------------------------
(***************************************************************************)
(* The two readers of a 32-bit instruction: execute_inst32 (cpu.rs) and    *)
(* decode_rv32 (disasm.rs).  Both start from DecodedInst32 (inst.rs), and  *)
(* each has its own table of opcodes, funct3 and funct7.  Effects and      *)
(* texts are those of Compressed.                                          *)
(*                                                                         *)
(* A word is its value as an i32.  What the A, F and D instructions        *)
(* compute is opaque here; they have no text.                              *)
(***************************************************************************)
EXTENDS Compressed, TLC

-----------------------------------------------------------------------------
(* DecodedInst32.                                                          *)

decode(w) == [raw    |-> w,
              opcode |-> field(w, 0, 7),
              rd     |-> field(w, 7, 5),
              funct3 |-> field(w, 12, 3),
              rs1    |-> field(w, 15, 5),
              rs2    |-> field(w, 20, 5),
              rs3    |-> field(w, 27, 5),
              funct7 |-> field(w, 25, 7)]

\* Bit 31, and sign extension from `width` bits.
sign(w) == IF w < 0 THEN 1 ELSE 0

sext(v, width) == IF v >= 2 ^ (width - 1) THEN v - 2 ^ width ELSE v

i_imm(w) == w \div 2 ^ 20

s_imm(w) == sext(field(w, 25, 7) * 2 ^ 5 + field(w, 7, 5), 12)

b_imm(w) ==
  sext(sign(w) * 2 ^ 12 + field(w, 7, 1) * 2 ^ 11 + field(w, 25, 6) * 2 ^ 5
         + field(w, 8, 4) * 2, 13)

u_imm(w) == w - (w % 4096)

j_imm(w) ==
  sext(sign(w) * 2 ^ 20 + field(w, 12, 8) * 2 ^ 12 + field(w, 20, 1) * 2 ^ 11
         + field(w, 21, 10) * 2, 21)

-----------------------------------------------------------------------------
(* Opcodes (inst.rs).                                                      *)

OP_LOAD     ==   3
OP_LOAD_FP  ==   7
OP_MISC_MEM ==  15
OP_IMM      ==  19
OP_AUIPC    ==  23
OP_STORE    ==  35
OP_STORE_FP ==  39
OP_AMO      ==  47
OP_OP       ==  51
OP_LUI      ==  55
OP_MADD     ==  67
OP_MSUB     ==  71
OP_NMSUB    ==  75
OP_NMADD    ==  79
OP_OP_FP    ==  83
OP_BRANCH   ==  99
OP_JALR     == 103
OP_JAL      == 111
OP_SYSTEM   == 115

-----------------------------------------------------------------------------
(* execute_inst32.                                                         *)

\* A table from funct3 to a name; what it does not list is illegal.
Pick(names, f3) == IF f3 \in DOMAIN names THEN names[f3] ELSE "illegal"

IfLegal(name, effect) == IF name = "illegal" THEN Illegal ELSE effect

ExecBranch(i) ==
  LET test == Pick(0 :> "beq" @@ 1 :> "bne" @@ 4 :> "blt" @@ 5 :> "bge"
                     @@ 6 :> "bltu" @@ 7 :> "bgeu", i.funct3)
  IN  IfLegal(test, Jump(Branch(test, i.rs1, i.rs2, b_imm(i.raw))))

ExecLoad(i) ==
  LET width == Pick(0 :> "lb" @@ 1 :> "lh" @@ 2 :> "lw" @@ 4 :> "lbu"
                      @@ 5 :> "lhu", i.funct3)
  IN  IfLegal(width, LoadX(i.rd, width, i.rs1, i_imm(i.raw)))

ExecStore(i) ==
  LET width == Pick(0 :> "sb" @@ 1 :> "sh" @@ 2 :> "sw", i.funct3)
  IN  IfLegal(width, Store(i.rs2, width, i.rs1, s_imm(i.raw)))

\* OP_IMM: the shift amount is the rs2 field.
ExecImm(i) ==
  LET src1  == read_reg(i.rs1)
      imm   == Imm(i_imm(i.raw))
      names == 2 :> "slt" @@ 3 :> "sltu" @@ 4 :> "xor" @@ 6 :> "or"
                 @@ 7 :> "and"
  IN  write_reg(i.rd,
        CASE i.funct3 = 0 -> Plus(src1, imm)
          [] i.funct3 = 1 -> Shift("sll", src1, i.rs2)
          [] i.funct3 = 5 ->
               Shift(IF i.funct7 = 32 THEN "sra" ELSE "srl", src1, i.rs2)
          [] OTHER -> <<names[i.funct3], src1, imm>>)

\* OP_OP with funct7 other than 1.
ExecOp(i) ==
  LET src1 == read_reg(i.rs1)
      src2 == read_reg(i.rs2)
      f    == CASE i.funct7 = 0 ->
                     Pick(0 :> "add" @@ 1 :> "sll" @@ 2 :> "slt" @@ 3 :> "sltu"
                            @@ 4 :> "xor" @@ 5 :> "srl" @@ 6 :> "or"
                            @@ 7 :> "and", i.funct3)
                [] i.funct7 = 32 -> Pick(0 :> "sub" @@ 5 :> "sra", i.funct3)
                [] OTHER -> "illegal"
  IN  IfLegal(f, write_reg(i.rd, IF f = "add" THEN Plus(src1, src2)
                                 ELSE <<f, src1, src2>>))

exec_rv32i(i) ==
  CASE i.opcode = OP_LUI    -> write_reg(i.rd, Is(Imm(u_imm(i.raw))))
    [] i.opcode = OP_AUIPC  -> write_reg(i.rd,
                                         <<"pc", Imm(u_imm(i.raw)), Zero>>)
    [] i.opcode = OP_JAL    -> Link(i.rd, Relative(j_imm(i.raw)))
    [] i.opcode = OP_JALR   -> Link(i.rd, ToReg(i.rs1, i_imm(i.raw)))
    [] i.opcode = OP_BRANCH -> ExecBranch(i)
    [] i.opcode = OP_LOAD   -> ExecLoad(i)
    [] i.opcode = OP_STORE  -> ExecStore(i)
    [] i.opcode = OP_IMM    -> ExecImm(i)
    [] i.opcode = OP_OP     -> ExecOp(i)
    [] i.opcode = OP_MISC_MEM -> Nothing

exec_rv32m(i) ==
  LET names == <<"mul", "mulh", "mulhsu", "mulhu",
                 "div", "divu", "rem", "remu">>
  IN  write_reg(i.rd,
                <<names[i.funct3 + 1], read_reg(i.rs1), read_reg(i.rs2)>>)

\* OP_LOAD_FP and OP_STORE_FP.
ExecLoadFp(i) ==
  LET width == Pick(2 :> "flw" @@ 3 :> "fld", i.funct3)
  IN  IfLegal(width, LoadF(i.rd, width, i.rs1, i_imm(i.raw)))

ExecStoreFp(i) ==
  LET width == Pick(2 :> "fsw" @@ 3 :> "fsd", i.funct3)
  IN  IfLegal(width, Store(i.rs2, width, i.rs1, s_imm(i.raw)))

\* exec_csr: funct3 zero is told by the immediate alone; MRET is a jump to
\* mepc that also writes mstatus.
exec_csr(i) ==
  LET imm12 == field(i.raw, 20, 12)
      src   == IF i.funct3 >= 5 THEN Imm(i.rs1) ELSE read_reg(i.rs1)
      names == <<"csrrw", "csrrs", "csrrc", "csrr", "csrrw", "csrrs", "csrrc">>
  IN  IF i.funct3 = 0
      THEN CASE imm12 = 0   -> Effect("ecall", 0, NoValue, Onward)
             [] imm12 = 1   -> Halt
             [] imm12 = 770 -> Effect("mret", 0, NoValue, <<"mepc", 0, 0, 0>>)
             [] OTHER       -> Nothing
      ELSE Effect("csr", i.rd, <<names[i.funct3], Imm(imm12), src>>, Onward)

execute_inst32(w) ==
  LET i == decode(w)
  IN  CASE i.opcode = OP_OP /\ i.funct7 = 1 -> exec_rv32m(i)
        [] i.opcode = OP_OP /\ i.funct7 # 1 -> exec_rv32i(i)
        [] i.opcode \in {OP_LUI, OP_AUIPC, OP_JAL, OP_JALR, OP_BRANCH, OP_LOAD,
                         OP_STORE, OP_IMM, OP_MISC_MEM} -> exec_rv32i(i)
        [] i.opcode = OP_LOAD_FP  -> ExecLoadFp(i)
        [] i.opcode = OP_STORE_FP -> ExecStoreFp(i)
        [] i.opcode \in {OP_AMO, OP_MADD, OP_MSUB, OP_NMSUB, OP_NMADD,
                         OP_OP_FP} ->
             Effect("afd", i.rd, NoValue, Onward)
        [] i.opcode = OP_SYSTEM   -> exec_csr(i)
        [] OTHER -> Illegal

-----------------------------------------------------------------------------
(* decode_rv32.  A third register is in the place of the number.           *)

ShowJalr(i) ==
  LET imm == i_imm(i.raw)
  IN  IF i.rd = 0 /\ imm = 0
      THEN IF i.rs1 = 1 THEN Show("ret", 0, 0, 0) ELSE Show("jr", i.rs1, 0, 0)
      ELSE Show("jalr", i.rd, i.rs1, imm)

ShowBranch(i) ==
  LET zero  == 0 :> "beqz" @@ 1 :> "bnez" @@ 4 :> "bltz" @@ 5 :> "bgez"
      names == 0 :> "beq" @@ 1 :> "bne" @@ 4 :> "blt" @@ 5 :> "bge"
                 @@ 6 :> "bltu" @@ 7 :> "bgeu"
  IN  IF i.funct3 \in DOMAIN zero /\ i.rs2 = 0
      THEN Show(zero[i.funct3], i.rs1, 0, b_imm(i.raw))
      ELSE Show(Pick(names, i.funct3), i.rs1, i.rs2, b_imm(i.raw))

ShowLoad(i) ==
  Show(Pick(0 :> "lb" @@ 1 :> "lh" @@ 2 :> "lw" @@ 4 :> "lbu" @@ 5 :> "lhu",
            i.funct3),
       i.rd, i.rs1, i_imm(i.raw))

ShowStore(i) ==
  Show(Pick(0 :> "sb" @@ 1 :> "sh" @@ 2 :> "sw", i.funct3),
       i.rs2, i.rs1, s_imm(i.raw))

ShowImm(i) ==
  LET imm   == i_imm(i.raw)
      names == 2 :> "slti" @@ 3 :> "sltiu" @@ 4 :> "xori" @@ 6 :> "ori"
                 @@ 7 :> "andi"
  IN  CASE i.funct3 = 0 ->
             IF i.raw = OP_IMM THEN Show("nop", 0, 0, 0)
             ELSE IF i.rs1 = 0 THEN Show("li", i.rd, 0, imm)
             ELSE IF imm = 0 THEN Show("mv", i.rd, i.rs1, 0)
             ELSE Show("addi", i.rd, i.rs1, imm)
        [] i.funct3 = 1 -> Show("slli", i.rd, i.rs1, i.rs2)
        [] i.funct3 = 5 -> Show(IF i.funct7 = 32 THEN "srai" ELSE "srli",
                                i.rd, i.rs1, i.rs2)
        [] OTHER -> Show(names[i.funct3], i.rd, i.rs1, imm)

\* Mutant: one bit of funct7 tells SUB and SRA.
ShowOpByBit(i) ==
  LET base == <<"add", "sll", "slt", "sltu", "xor", "srl", "or", "and">>
      mext == <<"mul", "mulh", "mulhsu", "mulhu",
                "div", "divu", "rem", "remu">>
  IN  Show(CASE i.funct7 = 0  -> base[i.funct3 + 1]
             [] i.funct7 = 1  -> mext[i.funct3 + 1]
             [] i.funct7 \in 32 .. 63 ->
                  Pick(0 :> "sub" @@ 5 :> "sra", i.funct3)
             [] OTHER -> "illegal",
           i.rd, i.rs1, i.rs2)

ShowOp(i) ==
  LET base == <<"add", "sll", "slt", "sltu", "xor", "srl", "or", "and">>
      mext == <<"mul", "mulh", "mulhsu", "mulhu",
                "div", "divu", "rem", "remu">>
  IN  Show(CASE i.funct7 = 0  -> base[i.funct3 + 1]
             [] i.funct7 = 1  -> mext[i.funct3 + 1]
             [] i.funct7 = 32 -> Pick(0 :> "sub" @@ 5 :> "sra", i.funct3)
             [] OTHER -> "illegal",
           i.rd, i.rs1, i.rs2)

\* The three exact words, then the CSR instructions; the operand is shown as
\* a register whatever funct3 is.
ShowSystem(i) ==
  LET names == <<"csrrw", "csrrs", "csrrc", "csr_op",
                 "csrrwi", "csrrsi", "csrrci">>
  IN  CASE i.raw = OP_SYSTEM                -> Show("ecall", 0, 0, 0)
        [] i.raw = OP_SYSTEM + 2 ^ 20       -> Show("ebreak", 0, 0, 0)
        [] i.raw = OP_SYSTEM + 770 * 2 ^ 20 -> Show("mret", 0, 0, 0)
        [] OTHER -> Show(IF i.funct3 = 0 THEN "csr_op" ELSE names[i.funct3],
                         i.rd, i.rs1, field(i.raw, 20, 12))

decode_rv32(w) ==
  LET i == decode(w)
  IN  CASE i.opcode = OP_LUI    -> Show("lui", i.rd, 0, u_imm(w) \div 4096)
        [] i.opcode = OP_AUIPC  -> Show("auipc", i.rd, 0, u_imm(w) \div 4096)
        [] i.opcode = OP_JAL    -> IF i.rd = 0 THEN Show("j", 0, 0, j_imm(w))
                                   ELSE Show("jal", i.rd, 0, j_imm(w))
        [] i.opcode = OP_JALR   -> ShowJalr(i)
        [] i.opcode = OP_BRANCH -> ShowBranch(i)
        [] i.opcode = OP_LOAD   -> ShowLoad(i)
        [] i.opcode = OP_STORE  -> ShowStore(i)
        [] i.opcode = OP_IMM    -> ShowImm(i)
        [] i.opcode = OP_OP     -> ShowOp(i)
        [] i.opcode = OP_LOAD_FP  -> Show("flw", i.rd, i.rs1, i_imm(w))
        [] i.opcode = OP_STORE_FP -> Show("fsw", i.rs2, i.rs1, s_imm(w))
        [] i.opcode = OP_SYSTEM -> ShowSystem(i)
        [] OTHER -> Show("unimpl", 0, 0, 0)
=============================================================================
