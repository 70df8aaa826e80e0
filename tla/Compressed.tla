----------------------------- MODULE Compressed -----------------------------
(***************************************************************************)
(* The two readers of a compressed instruction: execute_inst16 (cpu.rs),   *)
(* which runs it, and decode_rvc (disasm.rs), which shows it to the user   *)
(* of the debugger.  They decode the halfword independently.               *)
(*                                                                         *)
(* The executor's reading is the effect it has: the register, memory cell  *)
(* or flag it sets, from what, and where it goes next.  The disassembler's *)
(* reading is a mnemonic and its operands; a target is kept as the offset  *)
(* that both add to the pc.  Listing compares the two.                     *)
(***************************************************************************)
EXTENDS Integers, Sequences

-----------------------------------------------------------------------------
(* Fields and immediates.                                                  *)

\* shift_then_mask with the mask 2^width - 1.
field(v, shift, width) == (v \div 2 ^ shift) % 2 ^ width

\* The fields <<shift, width, left>> of h, moved to the left and or-ed; no
\* two of them meet.
Gather(h, fields) ==
  LET or[n \in 0 .. Len(fields)] ==
        IF n = 0 THEN 0
        ELSE LET f == fields[n]
             IN  or[n - 1] + field(h, f[1], f[2]) * 2 ^ f[3]
  IN  or[Len(fields)]

\* `as i16`, and the shift left and back that sign-extends.
as_i16(v) == IF v >= 2 ^ 15 THEN v - 2 ^ 16 ELSE v

sign_extend(v, k) == as_i16((v * 2 ^ k) % 2 ^ 16) \div 2 ^ k

op(h)     == field(h, 0, 2)
funct3(h) == field(h, 13, 3)
rd(h)     == field(h, 7, 5)
rs2(h)    == field(h, 2, 5)
bit12(h)  == field(h, 12, 1)
shamt(h)  == field(h, 2, 5)

creg(h, shift) == field(h, shift, 3) + 8

cl_word_offset(h)   == Gather(h, <<<<10, 3, 3>>, <<6, 1, 2>>, <<5, 1, 6>>>>)
cl_double_offset(h) == Gather(h, <<<<10, 3, 3>>, <<5, 2, 6>>>>)

ci_word_sp_offset(h)   == Gather(h, <<<<12, 1, 5>>, <<4, 3, 2>>, <<2, 2, 6>>>>)
ci_double_sp_offset(h) == Gather(h, <<<<12, 1, 5>>, <<5, 2, 3>>, <<2, 3, 6>>>>)
css_word_sp_offset(h)   == Gather(h, <<<<9, 4, 2>>, <<7, 2, 6>>>>)
css_double_sp_offset(h) == Gather(h, <<<<10, 3, 3>>, <<7, 3, 6>>>>)

\* Immediates of execute_inst16.
imm6(h) == Gather(h, <<<<12, 1, 5>>, <<2, 5, 0>>>>)

imm6_sext(h) == sign_extend(imm6(h), 10)

addi4spn_imm(h) ==
  Gather(h, <<<<11, 2, 4>>, <<7, 4, 6>>, <<6, 1, 2>>, <<5, 1, 3>>>>)

addi16sp_imm(h) == Gather(h, <<<<12, 1, 9>>, <<3, 2, 7>>, <<5, 1, 6>>,
                              <<2, 1, 5>>, <<6, 1, 4>>>>)

\* Mutant: the scale the immediate already carries is applied again.
Addi16spScaled(h) == sign_extend(addi16sp_imm(h), 6) * 16

addi16sp_offset(h) == sign_extend(addi16sp_imm(h), 6)

jump_offset(h) ==
  sign_extend(Gather(h, <<<<12, 1, 11>>, <<8, 1, 10>>, <<9, 2, 8>>,
                         <<6, 1, 7>>, <<7, 1, 6>>, <<2, 1, 5>>,
                         <<11, 1, 4>>, <<3, 3, 1>>>>), 4)

branch_offset(h) ==
  sign_extend(Gather(h, <<<<12, 1, 8>>, <<5, 2, 6>>, <<2, 1, 5>>,
                         <<10, 2, 3>>, <<3, 2, 1>>>>), 7)

-----------------------------------------------------------------------------
(* Effects, shared with the 32-bit instructions.  Two that leave the same  *)
(* machine are the same effect: adding zero is a copy, and writing x0, or  *)
(* a register to itself, is nothing.                                       *)

X(n) == <<"x", n>>
Imm(n) == <<"imm", n>>
Zero == Imm(0)

\* read_reg: x0 reads as zero.
read_reg(n) == IF n = 0 THEN Zero ELSE X(n)

Is(v) == <<"is", v, Zero>>

Plus(a, b) == CASE b = Zero -> Is(a)
                [] a = Zero -> Is(b)
                [] OTHER    -> <<"add", a, b>>

Shift(f, a, k) == IF k = 0 THEN Is(a) ELSE <<f, a, Imm(k)>>

\* Where the pc goes: on, to pc + off, to a register + off, or to pc + off if
\* two registers compare.
Onward == <<"next", 0, 0, 0>>
Relative(off) == <<"pc", 0, 0, off>>
ToReg(n, off) == <<"reg", n, 0, off>>
Branch(test, n, m, off) == <<test, n, m, off>>

Effect(do, reg, expr, next) ==
  [do |-> do, reg |-> reg, expr |-> expr, next |-> next]

NoValue == <<"none", Zero, Zero>>
Nothing == Effect("none", 0, NoValue, Onward)
Illegal == Effect("illegal", 0, NoValue, <<"stay", 0, 0, 0>>)
Halt    == Effect("halt", 0, NoValue, Onward)
Jump(next) == Effect("none", 0, NoValue, next)

\* write_reg: x0 stays zero.
write_reg(n, expr) ==
  IF n = 0 \/ expr = Is(X(n)) THEN Nothing ELSE Effect("x", n, expr, Onward)

\* Register n gets the address after the instruction.
Link(n, next) == IF n = 0 THEN Jump(next)
                 ELSE Effect("x", n, <<"link", Zero, Zero>>, next)

\* A load reads memory whatever its destination.
LoadX(n, width, b, off) ==
  Effect("load", n, <<width, read_reg(b), Imm(off)>>, Onward)
LoadF(n, width, b, off) ==
  Effect("f", n, <<width, read_reg(b), Imm(off)>>, Onward)
Store(n, width, b, off) ==
  Effect("store", n, <<width, read_reg(b), Imm(off)>>, Onward)

-----------------------------------------------------------------------------
(* execute_inst16.                                                         *)

Quadrant0(h) ==
  LET r == creg(h, 2)
      b == creg(h, 7)
  IN  CASE funct3(h) = 0 -> IF addi4spn_imm(h) = 0 THEN Illegal
                            ELSE write_reg(r, Plus(X(2), Imm(addi4spn_imm(h))))
        [] funct3(h) = 1 -> LoadF(r, "fld", b, cl_double_offset(h))
        [] funct3(h) = 2 -> LoadX(r, "lw", b, cl_word_offset(h))
        [] funct3(h) = 3 -> LoadF(r, "flw", b, cl_word_offset(h))
        [] funct3(h) = 5 -> Store(r, "fsd", b, cl_double_offset(h))
        [] funct3(h) = 6 -> Store(r, "sw", b, cl_word_offset(h))
        [] funct3(h) = 7 -> Store(r, "fsw", b, cl_word_offset(h))
        [] OTHER         -> Illegal

\* (1, 3): C.ADDI16SP and C.LUI.
UpperImmediate(h) ==
  IF rd(h) = 2
  THEN IF addi16sp_imm(h) = 0 THEN Illegal
       ELSE write_reg(2, Plus(X(2), Imm(addi16sp_offset(h))))
  ELSE IF rd(h) = 0 \/ imm6(h) = 0 THEN Illegal
  ELSE write_reg(rd(h), Is(Imm(imm6_sext(h) * 4096)))

\* (1, 4): shifts by a constant, C.ANDI and the register-register group.
Arithmetic(h) ==
  LET r     == creg(h, 7)
      group == field(h, 10, 2)
      f     == <<"sub", "xor", "or", "and">>[field(h, 5, 2) + 1]
  IN  CASE group \in {0, 1} ->
             IF bit12(h) # 0 THEN Illegal
             ELSE IF shamt(h) = 0 THEN Nothing
             ELSE write_reg(r, Shift(IF group = 0 THEN "srl" ELSE "sra",
                                     X(r), shamt(h)))
        [] group = 2 -> write_reg(r, <<"and", X(r), Imm(imm6_sext(h))>>)
        [] OTHER -> IF bit12(h) # 0 THEN Illegal
                    ELSE write_reg(r, <<f, X(r), X(creg(h, 2))>>)

Quadrant1(h) ==
  LET r == rd(h)
      s == creg(h, 7)
  IN  CASE funct3(h) = 0 -> IF r # 0 /\ imm6_sext(h) # 0
                            THEN write_reg(r, Plus(X(r), Imm(imm6_sext(h))))
                            ELSE Nothing
        [] funct3(h) = 1 -> Link(1, Relative(jump_offset(h)))
        [] funct3(h) = 2 -> write_reg(r, Is(Imm(imm6_sext(h))))
        [] funct3(h) = 3 -> UpperImmediate(h)
        [] funct3(h) = 4 -> Arithmetic(h)
        [] funct3(h) = 5 -> Jump(Relative(jump_offset(h)))
        [] funct3(h) = 6 -> Jump(Branch("beq", s, 0, branch_offset(h)))
        [] funct3(h) = 7 -> Jump(Branch("bne", s, 0, branch_offset(h)))

\* (2, 4): C.JR, C.MV, C.EBREAK, C.JALR and C.ADD.
MoveJump(h) ==
  LET r == rd(h)
      s == rs2(h)
  IN  IF bit12(h) = 0 /\ s = 0
      THEN IF r = 0 THEN Illegal ELSE Jump(ToReg(r, 0))
      ELSE IF bit12(h) = 0 THEN write_reg(r, Is(X(s)))
      ELSE IF r = 0 /\ s = 0 THEN Halt
      ELSE IF s = 0 THEN Link(1, ToReg(r, 0))
      ELSE write_reg(r, Plus(X(r), X(s)))

Quadrant2(h) ==
  LET r == rd(h)
      s == rs2(h)
  IN  CASE funct3(h) = 0 -> IF bit12(h) # 0 THEN Illegal
                            ELSE IF r # 0 /\ shamt(h) # 0
                            THEN write_reg(r, Shift("sll", X(r), shamt(h)))
                            ELSE Nothing
        [] funct3(h) = 1 -> LoadF(r, "fld", 2, ci_double_sp_offset(h))
        [] funct3(h) = 2 -> IF r = 0 THEN Illegal
                            ELSE LoadX(r, "lw", 2, ci_word_sp_offset(h))
        [] funct3(h) = 3 -> LoadF(r, "flw", 2, ci_word_sp_offset(h))
        [] funct3(h) = 4 -> MoveJump(h)
        [] funct3(h) = 5 -> Store(s, "fsd", 2, css_double_sp_offset(h))
        [] funct3(h) = 6 -> Store(s, "sw", 2, css_word_sp_offset(h))
        [] funct3(h) = 7 -> Store(s, "fsw", 2, css_word_sp_offset(h))

execute_inst16(h) ==
  CASE op(h) = 0 -> Quadrant0(h)
    [] op(h) = 1 -> Quadrant1(h)
    [] op(h) = 2 -> Quadrant2(h)

-----------------------------------------------------------------------------
(* decode_rvc: a mnemonic, up to two registers and a number.               *)

Show(name, p, q, k) == <<name, p, q, k>>
Reserved == Show("c.reserved", 0, 0, 0)

\* The offsets of format_target_rvc and format_branch_target_rvc.
format_target_rvc(h) ==
  sign_extend(Gather(h, <<<<12, 1, 11>>, <<8, 1, 10>>, <<9, 2, 8>>,
                         <<6, 1, 7>>, <<7, 1, 6>>, <<2, 1, 5>>,
                         <<11, 1, 4>>, <<3, 3, 1>>>>), 4)

format_branch_target_rvc(h) ==
  sign_extend(Gather(h, <<<<12, 1, 8>>, <<5, 2, 6>>, <<2, 1, 5>>,
                         <<10, 2, 3>>, <<3, 2, 1>>>>), 7)

ShowQuadrant0(h) ==
  LET rdc  == creg(h, 2)
      rs1c == creg(h, 7)
      imm  == Gather(h, <<<<11, 2, 4>>, <<7, 4, 6>>, <<6, 1, 2>>,
                         <<5, 1, 3>>>>)
      name == <<"c.fld", "c.lw", "c.flw", "", "c.fsd", "c.sw", "c.fsw">>
  IN  CASE funct3(h) = 0 -> IF imm = 0 THEN Reserved
                            ELSE Show("c.addi4spn", rdc, 2, imm)
        [] funct3(h) \in {1, 5} ->
             Show(name[funct3(h)], rdc, rs1c, cl_double_offset(h))
        [] funct3(h) \in {2, 3, 6, 7} ->
             Show(name[funct3(h)], rdc, rs1c, cl_word_offset(h))
        [] OTHER -> Reserved

ShowUpperImmediate(h) ==
  LET imm == Gather(h, <<<<12, 1, 9>>, <<3, 2, 7>>, <<5, 1, 6>>, <<2, 1, 5>>,
                        <<6, 1, 4>>>>)
      low == Gather(h, <<<<12, 1, 5>>, <<2, 5, 0>>>>)
  IN  IF rd(h) = 2
      THEN IF imm = 0 THEN Reserved
           ELSE Show("c.addi16sp", 2, 0, sign_extend(imm, 6))
      ELSE IF rd(h) = 0 \/ low = 0 THEN Reserved
      ELSE Show("c.lui", rd(h), 0, sign_extend(low, 10))

ShowArithmetic(h) ==
  LET rs1c  == creg(h, 7)
      group == field(h, 10, 2)
      imm   == sign_extend(Gather(h, <<<<12, 1, 5>>, <<2, 5, 0>>>>), 10)
      names == <<"c.sub", "c.xor", "c.or", "c.and">>
  IN  CASE group \in {0, 1} ->
             IF bit12(h) # 0 THEN Reserved
             ELSE Show(IF group = 0 THEN "c.srli" ELSE "c.srai", rs1c, 0,
                       shamt(h))
        [] group = 2 -> Show("c.andi", rs1c, 0, imm)
        [] OTHER -> IF bit12(h) # 0 THEN Reserved
                    ELSE Show(names[field(h, 5, 2) + 1], rs1c,
                              creg(h, 2), 0)

ShowQuadrant1(h) ==
  LET rs1c == creg(h, 7)
      imm  == sign_extend(Gather(h, <<<<12, 1, 5>>, <<2, 5, 0>>>>), 10)
  IN  CASE funct3(h) = 0 -> IF rd(h) = 0 THEN Show("c.nop", 0, 0, 0)
                            ELSE Show("c.addi", rd(h), 0, imm)
        [] funct3(h) = 1 -> Show("c.jal", 0, 0, format_target_rvc(h))
        [] funct3(h) = 2 -> Show("c.li", rd(h), 0, imm)
        [] funct3(h) = 3 -> ShowUpperImmediate(h)
        [] funct3(h) = 4 -> ShowArithmetic(h)
        [] funct3(h) = 5 -> Show("c.j", 0, 0, format_target_rvc(h))
        [] funct3(h) = 6 ->
             Show("c.beqz", rs1c, 0, format_branch_target_rvc(h))
        [] funct3(h) = 7 ->
             Show("c.bnez", rs1c, 0, format_branch_target_rvc(h))

ShowMoveJump(h) ==
  IF bit12(h) = 0 /\ rs2(h) = 0
  THEN IF rd(h) = 0 THEN Reserved ELSE Show("c.jr", rd(h), 0, 0)
  ELSE IF bit12(h) = 0 THEN Show("c.mv", rd(h), rs2(h), 0)
  ELSE IF rd(h) = 0 /\ rs2(h) = 0 THEN Show("c.ebreak", 0, 0, 0)
  ELSE IF rs2(h) = 0 THEN Show("c.jalr", rd(h), 0, 0)
  ELSE Show("c.add", rd(h), rs2(h), 0)

ShowQuadrant2(h) ==
  CASE funct3(h) = 0 -> IF bit12(h) # 0 THEN Reserved
                        ELSE Show("c.slli", rd(h), 0, shamt(h))
    [] funct3(h) = 1 -> Show("c.fldsp", rd(h), 2, ci_double_sp_offset(h))
    [] funct3(h) = 2 -> IF rd(h) = 0 THEN Reserved
                        ELSE Show("c.lwsp", rd(h), 2, ci_word_sp_offset(h))
    [] funct3(h) = 3 -> Show("c.flwsp", rd(h), 2, ci_word_sp_offset(h))
    [] funct3(h) = 4 -> ShowMoveJump(h)
    [] funct3(h) = 5 -> Show("c.fsdsp", rs2(h), 2, css_double_sp_offset(h))
    [] funct3(h) = 6 -> Show("c.swsp", rs2(h), 2, css_word_sp_offset(h))
    [] funct3(h) = 7 -> Show("c.fswsp", rs2(h), 2, css_word_sp_offset(h))

decode_rvc(h) ==
  CASE op(h) = 0 -> ShowQuadrant0(h)
    [] op(h) = 1 -> ShowQuadrant1(h)
    [] op(h) = 2 -> ShowQuadrant2(h)
=============================================================================
