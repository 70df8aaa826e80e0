----------------------------- MODULE MCListing ------------------------------
(***************************************************************************)
(* Listing over every compressed halfword and over 32-bit words that have  *)
(* every opcode, funct3 and funct7, the registers that an instruction or a *)
(* mnemonic treats specially, and every immediate bit on its own.          *)
(***************************************************************************)
EXTENDS Listing

AllHalfwords == {h \in 0 .. 2 ^ 16 - 1 : h % 4 # 3}

\* One opcode that stands for none of them is included.
Opcodes == {OP_LOAD, OP_LOAD_FP, OP_MISC_MEM, OP_IMM, OP_AUIPC, OP_STORE,
            OP_STORE_FP, OP_AMO, OP_OP, OP_LUI, OP_MADD, OP_MSUB, OP_NMSUB,
            OP_NMADD, OP_OP_FP, OP_BRANCH, OP_JALR, OP_JAL, OP_SYSTEM, 127}

\* Every funct7 where the code looks at it, as a signed number.
Funct7(o) == IF o \in {OP_IMM, OP_OP} THEN -64 .. 63 ELSE {-64, -1, 0, 1, 32}

EveryFunct == UNION {{RType(o, f3, f7, 10, 11, 12) :
                        f3 \in 0 .. 7, f7 \in Funct7(o)} : o \in Opcodes}

SomeRegs == {0, 1, 5, 31}

EveryReg == {RType(o, f3, f7, p, q, r) :
               o \in Opcodes, f3 \in 0 .. 7, f7 \in {0, 32},
               p \in SomeRegs, q \in SomeRegs, r \in {0, 1, 31}}

\* One bit set in the fields of an immediate, alone or below a sign.
EveryBit == {o + 2 ^ b + s : o \in Opcodes, b \in 7 .. 30,
                             s \in {0, -(2 ^ 30) - 2 ^ 30}}

System == {OP_SYSTEM, OP_SYSTEM + 2 ^ 20, OP_SYSTEM + 770 * 2 ^ 20, OP_IMM}

AllInsts == AllHalfwords \union EveryFunct \union EveryReg \union EveryBit
              \union System

\* The instructions shown as other ones: loads and stores of doubles, with
\* the reserved widths, and the CSR instructions with an immediate.
Misread(i) ==
  LET d == decode(i)
  IN  \/ d.opcode \in {OP_LOAD_FP, OP_STORE_FP} /\ d.funct3 # 2
      \/ d.opcode = OP_SYSTEM /\ d.funct3 \in 5 .. 7

WellShown == {i \in AllInsts : is_compressed(i) \/ ~Misread(i)}
=============================================================================
