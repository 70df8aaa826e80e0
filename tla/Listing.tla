------------------------------ MODULE Listing -------------------------------
(***************************************************************************)
(* What the debugger tells its user about an instruction against what the  *)
(* processor does with it, for 16-bit and 32-bit instructions alike: the   *)
(* text of decode_instruction_with_symbols (disasm.rs), the effect of      *)
(* execute_inst16 and execute_inst32 (cpu.rs), and is_call_instruction     *)
(* (lib.rs), which decides what debug_step_over does.                      *)
(***************************************************************************)
EXTENDS Wide

CONSTANT Insts    \* what is fetched: a halfword, or a word as an i32

ASSUME InstsAssumption ==
  \A i \in Insts : i % 4 # 3 => i \in 0 .. 2 ^ 16 - 1

VARIABLES
  inst,     \* the instruction
  effect,   \* what the executor did with it, once it has run
  text      \* what the disassembler shows for it, once it is asked

vars == <<inst, effect, text>>

is_compressed(i) == i % 4 # 3

\* Mutant: only C.JAL counts among the compressed ones.
OnlyCJal(i) ==
  IF is_compressed(i) THEN op(i) = 1 /\ funct3(i) = 1
  ELSE decode(i).opcode \in {OP_JAL, OP_JALR} /\ decode(i).rd \in {1, 5}

is_call_instruction(i) ==
  IF is_compressed(i)
  THEN \/ op(i) = 1 /\ funct3(i) = 1
       \/ op(i) = 2 /\ funct3(i) = 4 /\ bit12(i) = 1
  ELSE decode(i).opcode \in {OP_JAL, OP_JALR} /\ decode(i).rd \in {1, 5}

Pending == <<>>

Init ==
  /\ inst \in Insts
  /\ effect = Pending
  /\ text = Pending

\* The run loop executes the instruction, and disassemble_range shows it.
ExecuteAndShow ==
  /\ effect = Pending
  /\ effect' = <<IF is_compressed(inst) THEN execute_inst16(inst)
                 ELSE execute_inst32(inst)>>
  /\ text' = IF is_compressed(inst) THEN decode_rvc(inst)
             ELSE decode_rv32(inst)
  /\ UNCHANGED inst

Next == ExecuteAndShow

Spec == Init /\ [][Next]_vars

-----------------------------------------------------------------------------
(* What an assembler makes of a text: the 32-bit instruction it names, or  *)
(* that the compressed mnemonic expands to.  These are the formats of the  *)
(* instruction set, not code of the repository.                            *)

RType(opcode, f3, f7, p, q, r) ==
  opcode + p * 2 ^ 7 + f3 * 2 ^ 12 + q * 2 ^ 15 + r * 2 ^ 20 + f7 * 2 ^ 25

IType(opcode, f3, p, q, k) ==
  opcode + p * 2 ^ 7 + f3 * 2 ^ 12 + q * 2 ^ 15 + k * 2 ^ 20

\* Value r at k(q).
SType(opcode, f3, r, q, k) ==
  RType(opcode, f3, k \div 32, k % 32, q, r)

BType(f3, p, q, k) ==
  RType(OP_BRANCH, f3, ((k \div 32) % 64) - (IF k < 0 THEN 64 ELSE 0),
        ((k \div 2) % 16) * 2 + ((k \div 2048) % 2), p, q)

UType(opcode, p, k) == opcode + p * 2 ^ 7 + k * 2 ^ 12

JType(p, k) ==
  OP_JAL + p * 2 ^ 7 + ((k \div 4096) % 256) * 2 ^ 12
    + (((k \div 2) % 1024) * 2 + ((k \div 2048) % 2)
         - (IF k < 0 THEN 2048 ELSE 0)) * 2 ^ 20

\* Mnemonics that share a format, with their funct3.
Branches  == "beq" :> 0 @@ "bne" :> 1 @@ "blt" :> 4 @@ "bge" :> 5
               @@ "bltu" :> 6 @@ "bgeu" :> 7
ZeroBranches == "beqz" :> 0 @@ "bnez" :> 1 @@ "bltz" :> 4 @@ "bgez" :> 5
                  @@ "c.beqz" :> 0 @@ "c.bnez" :> 1
Loads     == "lb" :> 0 @@ "lh" :> 1 @@ "lw" :> 2 @@ "lbu" :> 4 @@ "lhu" :> 5
               @@ "c.lw" :> 2 @@ "c.lwsp" :> 2
Stores    == "sb" :> 0 @@ "sh" :> 1 @@ "sw" :> 2 @@ "c.sw" :> 2
               @@ "c.swsp" :> 2
LoadsFp   == "flw" :> 2 @@ "c.flw" :> 2 @@ "c.flwsp" :> 2 @@ "c.fld" :> 3
               @@ "c.fldsp" :> 3
StoresFp  == "fsw" :> 2 @@ "c.fsw" :> 2 @@ "c.fswsp" :> 2 @@ "c.fsd" :> 3
               @@ "c.fsdsp" :> 3
Immediates == "addi" :> 0 @@ "slti" :> 2 @@ "sltiu" :> 3 @@ "xori" :> 4
                @@ "ori" :> 6 @@ "andi" :> 7 @@ "slli" :> 1 @@ "srli" :> 5
                @@ "c.addi4spn" :> 0
\* The compressed ones whose source is their destination.
InPlace   == "c.addi" :> 0 @@ "c.addi16sp" :> 0 @@ "c.slli" :> 1
               @@ "c.srli" :> 5 @@ "c.andi" :> 7
Registers == "add" :> 0 @@ "sll" :> 1 @@ "slt" :> 2 @@ "sltu" :> 3
               @@ "xor" :> 4 @@ "srl" :> 5 @@ "or" :> 6 @@ "and" :> 7
RegistersInPlace == "c.add" :> 0 @@ "c.xor" :> 4 @@ "c.or" :> 6 @@ "c.and" :> 7
Products  == "mul" :> 0 @@ "mulh" :> 1 @@ "mulhsu" :> 2 @@ "mulhu" :> 3
               @@ "div" :> 4 @@ "divu" :> 5 @@ "rem" :> 6 @@ "remu" :> 7
CsrOps    == "csrrw" :> 1 @@ "csrrs" :> 2 @@ "csrrc" :> 3

NoInst == -1

Assemble(t) ==
  LET n == t[1]
      p == t[2]
      q == t[3]
      k == t[4]
  IN  CASE n \in DOMAIN Branches     -> BType(Branches[n], p, q, k)
        [] n \in DOMAIN ZeroBranches -> BType(ZeroBranches[n], p, 0, k)
        [] n \in DOMAIN Loads    -> IType(OP_LOAD, Loads[n], p, q, k)
        [] n \in DOMAIN Stores   -> SType(OP_STORE, Stores[n], p, q, k)
        [] n \in DOMAIN LoadsFp  -> IType(OP_LOAD_FP, LoadsFp[n], p, q, k)
        [] n \in DOMAIN StoresFp -> SType(OP_STORE_FP, StoresFp[n], p, q, k)
        [] n \in DOMAIN Immediates -> IType(OP_IMM, Immediates[n], p, q, k)
        [] n \in DOMAIN InPlace  -> IType(OP_IMM, InPlace[n], p, p, k)
        [] n = "srai"   -> RType(OP_IMM, 5, 32, p, q, k)
        [] n = "c.srai" -> RType(OP_IMM, 5, 32, p, p, k)
        [] n \in DOMAIN Registers -> RType(OP_OP, Registers[n], 0, p, q, k)
        [] n \in DOMAIN RegistersInPlace ->
             RType(OP_OP, RegistersInPlace[n], 0, p, p, q)
        [] n = "sub"    -> RType(OP_OP, 0, 32, p, q, k)
        [] n = "sra"    -> RType(OP_OP, 5, 32, p, q, k)
        [] n = "c.sub"  -> RType(OP_OP, 0, 32, p, p, q)
        [] n \in DOMAIN Products -> RType(OP_OP, Products[n], 1, p, q, k)
        [] n \in {"li", "c.li"}   -> IType(OP_IMM, 0, p, 0, k)
        [] n = "mv"     -> IType(OP_IMM, 0, p, q, 0)
        [] n = "c.mv"   -> RType(OP_OP, 0, 0, p, 0, q)
        [] n \in {"nop", "c.nop"} -> OP_IMM
        [] n \in {"lui", "c.lui"} -> UType(OP_LUI, p, k)
        [] n = "auipc"  -> UType(OP_AUIPC, p, k)
        [] n \in {"j", "c.j"}     -> JType(0, k)
        [] n = "jal"    -> JType(p, k)
        [] n = "c.jal"  -> JType(1, k)
        [] n = "ret"    -> IType(OP_JALR, 0, 0, 1, 0)
        [] n \in {"jr", "c.jr"}   -> IType(OP_JALR, 0, 0, p, 0)
        [] n = "c.jalr" -> IType(OP_JALR, 0, 1, p, 0)
        [] n = "jalr"   -> IType(OP_JALR, 0, p, q, k)
        [] n \in DOMAIN CsrOps ->
             IType(OP_SYSTEM, CsrOps[n], p, q, sext(k, 12))
        [] n = "ecall"  -> OP_SYSTEM
        [] n \in {"ebreak", "c.ebreak"} -> IType(OP_SYSTEM, 0, 0, 0, 1)
        [] n = "mret"   -> IType(OP_SYSTEM, 0, 0, 0, 770)
        [] OTHER        -> NoInst

-----------------------------------------------------------------------------
Refused  == {"illegal", "c.reserved"}
Unspoken == {"unimpl", "csr_op"}

\* The debugger's listing tells what runs.  The instruction that the text of
\* decode_rvc or decode_rv32 names, assembled again, has the effect that the
\* instruction shown has in execute_inst16 or execute_inst32: no encoding is
\* shown as another one, and what is shown as reserved does not run.
TextTellsEffect ==
  effect # Pending =>
    CASE text[1] \in Refused  -> effect[1].do = "illegal"
      [] text[1] \in Unspoken -> TRUE
      [] OTHER -> execute_inst32(Assemble(text)) = effect[1]

Links(e) == e.expr[1] = "link" /\ e.reg \in {1, 5}

\* Every instruction that links through ra or t0 is stepped over as a call
\* (is_call_instruction is how debug_step_over decides).
LinkIsCall ==
  effect # Pending /\ Links(effect[1]) => is_call_instruction(inst)

\* The instructions is_call_instruction takes for a call are the ones its
\* comments name: those that link.
CallIsLink ==
  effect # Pending /\ is_call_instruction(inst) => Links(effect[1])

\* Bit b of an instruction or, as a two's complement number, of a value.
Bit(h, b) == IF b >= 31 THEN sign(h) ELSE (h \div 2 ^ b) % 2

\* Bits `bits` of an immediate, from the left, are bits `from` of the
\* instruction.
Layout(bits, from) == [b \in {bits[i] : i \in DOMAIN bits} |->
                         from[CHOOSE i \in DOMAIN bits : bits[i] = b]]

CL_WORD   == Layout(<<5, 4, 3, 2, 6>>, <<12, 11, 10, 6, 5>>)
CL_DOUBLE == Layout(<<5, 4, 3, 7, 6>>, <<12, 11, 10, 6, 5>>)
CI_WORD   == Layout(<<5, 4, 3, 2, 7, 6>>, <<12, 6, 5, 4, 3, 2>>)
CI_DOUBLE == Layout(<<5, 4, 3, 8, 7, 6>>, <<12, 6, 5, 4, 3, 2>>)
CSS_WORD   == Layout(<<5, 4, 3, 2, 7, 6>>, <<12, 11, 10, 9, 8, 7>>)
CSS_DOUBLE == Layout(<<5, 4, 3, 8, 7, 6>>, <<12, 11, 10, 9, 8, 7>>)
CIW       == Layout(<<5, 4, 9, 8, 7, 6, 2, 3>>, <<12, 11, 10, 9, 8, 7, 6, 5>>)
CI        == Layout(<<5, 4, 3, 2, 1, 0>>, <<12, 6, 5, 4, 3, 2>>)
CI_SP     == Layout(<<9, 4, 6, 8, 7, 5>>, <<12, 6, 5, 4, 3, 2>>)
CJ        == Layout(<<11, 4, 9, 8, 10, 6, 7, 3, 2, 1, 5>>,
                    <<12, 11, 10, 9, 8, 7, 6, 5, 4, 3, 2>>)
CB        == Layout(<<8, 4, 3, 7, 6, 2, 1, 5>>,
                    <<12, 11, 10, 6, 5, 4, 3, 2>>)
S_TYPE    == Layout(<<11, 10, 9, 8, 7, 6, 5, 4, 3, 2, 1, 0>>,
                    <<31, 30, 29, 28, 27, 26, 25, 11, 10, 9, 8, 7>>)
B_TYPE    == Layout(<<12, 10, 9, 8, 7, 6, 5, 4, 3, 2, 1, 11>>,
                    <<31, 30, 29, 28, 27, 26, 25, 11, 10, 9, 8, 7>>)
J_TYPE    == Layout(<<20, 10, 9, 8, 7, 6, 5, 4, 3, 2, 1, 11, 19, 18, 17, 16,
                      15, 14, 13, 12>>,
                    <<31, 30, 29, 28, 27, 26, 25, 24, 23, 22, 21, 20, 19, 18,
                      17, 16, 15, 14, 13, 12>>)

\* Value v of instruction h has the bits of the layout and no other; a signed
\* one repeats bit `top` above it.
Unsigned(v, h, place) ==
  \A b \in 0 .. 31 :
     Bit(v, b) = IF b \in DOMAIN place THEN Bit(h, place[b]) ELSE 0

Signed(v, h, place, top) ==
  \A b \in 0 .. 31 :
     Bit(v, b) = IF b \in DOMAIN place THEN Bit(h, place[b])
                 ELSE IF b > top THEN Bit(h, place[top]) ELSE 0

\* The immediate decoders of execute_inst16 place every bit where the
\* instruction set has it (the layouts quoted above cl_word_offset and its
\* neighbours in cpu.rs, and the formats CIW, CI, CJ and CB for the ones
\* decoded in place), and so do those of DecodedInst32 whose bits are
\* scattered, in the formats S, B and J (inst.rs:101).
ImmediatesWellPlaced ==
  effect # Pending =>
    IF is_compressed(inst)
    THEN /\ Unsigned(cl_word_offset(inst), inst, CL_WORD)
         /\ Unsigned(cl_double_offset(inst), inst, CL_DOUBLE)
         /\ Unsigned(ci_word_sp_offset(inst), inst, CI_WORD)
         /\ Unsigned(ci_double_sp_offset(inst), inst, CI_DOUBLE)
         /\ Unsigned(css_word_sp_offset(inst), inst, CSS_WORD)
         /\ Unsigned(css_double_sp_offset(inst), inst, CSS_DOUBLE)
         /\ Unsigned(addi4spn_imm(inst), inst, CIW)
         /\ Signed(imm6_sext(inst), inst, CI, 5)
         /\ Signed(addi16sp_offset(inst), inst, CI_SP, 9)
         /\ Signed(jump_offset(inst), inst, CJ, 11)
         /\ Signed(branch_offset(inst), inst, CB, 8)
    ELSE /\ Signed(s_imm(inst), inst, S_TYPE, 11)
         /\ Signed(b_imm(inst), inst, B_TYPE, 12)
         /\ Signed(j_imm(inst), inst, J_TYPE, 20)
=============================================================================
