----------------------------- MODULE HartProofs -----------------------------
(***************************************************************************)
(* Proofs about the guest machine: its type, the state an interrupt saves  *)
(* and the meaning of a trap, for every address space, every image and     *)
(* every set of patches.                                                   *)
(***************************************************************************)
EXTENDS Hart, TLAPS

USE AddrSpaceAssumption

\* wrapping_add stays in the address space.
LEMMA WrapInAddr ==
  ASSUME NEW a \in Addr, NEW n \in Nat
  PROVE  wrapping_add(a, n) \in Addr
  BY SMT DEF wrapping_add, Addr

\* The instruction at the pc and the address after it are well typed.
LEMMA FetchType ==
  ASSUME HartTypeOK
  PROVE  Inst \in Insts /\ next_pc \in Addr
<1>1. Inst \in Insts
  BY DEF HartTypeOK, Inst
<1>2. Inst.len \in Nat
  BY <1>1 DEF Insts
<1>3. next_pc \in Addr
  BY <1>2, WrapInAddr DEF next_pc, HartTypeOK
<1> QED
  BY <1>1, <1>3

\* The start state of the guest is well typed.
LEMMA GuestInitType == GuestInit => HartTypeOK
<1> SUFFICES ASSUME GuestInit PROVE HartTypeOK
  OBVIOUS
<1>1. 0 \in Addr
  BY DEF Addr
<1>2. EmptyMemory \in [Addr -> Insts]
  BY <1>1 DEF EmptyMemory, Insts, Ops
<1>3. ResetCsr \in Csrs
  BY <1>1 DEF ResetCsr, Csrs
<1> QED
  BY <1>1, <1>2, <1>3 DEF GuestInit, HartTypeOK

\* An instruction that completes keeps the guest well typed.
LEMMA ExecuteType ==
  ASSUME HartTypeOK, Execute, UNCHANGED has_custom_syscalls
  PROVE  HartTypeOK'
<1>0. /\ Inst \in Insts
      /\ Inst.arg \in Addr
      /\ Inst.arg \in Nat
      /\ Inst.mie \in {0, 1}
      /\ Inst.mpie \in {0, 1}
      /\ next_pc \in Addr
  BY FetchType DEF Insts, Addr
<1> USE DEF HartTypeOK
<1>1. CASE ExecPlain
  BY <1>0, <1>1 DEF ExecPlain
<1>2. CASE ExecSetRa
  BY <1>0, <1>2 DEF ExecSetRa
<1>3. CASE ExecStore
  <2>1. PICK patch \in Patches : prog' = [prog EXCEPT ![Inst.arg] = patch]
    BY <1>3 DEF ExecStore
  <2>2. patch \in Insts
    BY PatchesAssumption
  <2>3. prog' \in [Addr -> Insts]
    BY <2>1, <2>2
  <2> QED
    BY <1>0, <1>3, <2>3 DEF ExecStore
<1>4. CASE ExecJump
  BY <1>0, <1>4 DEF ExecJump
<1>5. CASE ExecBranch
  BY <1>0, <1>5 DEF ExecBranch
<1>6. CASE ExecCall
  BY <1>0, <1>6 DEF ExecCall
<1>7. CASE ExecRet
  BY <1>0, <1>7 DEF ExecRet
<1>8. CASE ExecCsr
  BY <1>0, <1>8 DEF ExecCsr, Csrs
<1>9. CASE ExecMret
  BY <1>0, <1>9 DEF ExecMret, Csrs
<1>10. CASE ExecEbreak
  BY <1>0, <1>10 DEF ExecEbreak
<1>11. CASE EcallHooked
  BY <1>0, <1>11 DEF EcallHooked
<1>12. CASE EcallExit
  BY <1>0, <1>12 DEF EcallExit
<1>13. CASE EcallServed
  BY <1>0, <1>13 DEF EcallServed
<1> QED
  BY <1>1, <1>2, <1>3, <1>4, <1>5, <1>6, <1>7, <1>8, <1>9, <1>10, <1>11,
     <1>12, <1>13 DEF Execute

\* Every step of the guest keeps it well typed.
LEMMA GuestNextType ==
  ASSUME HartTypeOK, [GuestNext]_guestVars
  PROVE  HartTypeOK'
<1>1. CASE Execute /\ UNCHANGED has_custom_syscalls
  BY <1>1, ExecuteType
<1>2. CASE Fault /\ UNCHANGED has_custom_syscalls
  BY <1>2 DEF Fault, HartTypeOK, TRAP_EXIT_CODE
<1>3. ASSUME NEW irq \in Irqs, handle_interrupt(irq),
             UNCHANGED has_custom_syscalls
      PROVE  HartTypeOK'
  <2>1. irq \in Nat
    BY IrqsAssumption
  <2> QED
    BY <1>3, <2>1 DEF handle_interrupt, HartTypeOK, Csrs
<1>4. ASSUME NEW image \in Images, ResetHart(image)
      PROVE  HartTypeOK'
  <2>1. /\ image.code \in [Addr -> Insts]
        /\ image.entry \in Addr
        /\ image.ra \in Addr
    BY ImagesAssumption
  <2>2. ResetCsr \in Csrs
    BY DEF ResetCsr, Csrs, Addr
  <2> QED
    BY <1>4, <2>1, <2>2 DEF ResetHart, HartTypeOK
<1>5. ASSUME NEW v \in Addr, PokeRa(v)
      PROVE  HartTypeOK'
  BY <1>5 DEF PokeRa, HartTypeOK
<1>6. ASSUME NEW a \in Addr, NEW patch \in Patches, PokeMemory(a, patch)
      PROVE  HartTypeOK'
  <2>1. patch \in Insts
    BY PatchesAssumption
  <2> QED
    BY <1>6, <2>1 DEF PokeMemory, HartTypeOK
<1>7. ASSUME NEW b \in BOOLEAN, SetHook(b)
      PROVE  HartTypeOK'
  BY <1>7 DEF SetHook, hartVars, HartTypeOK
<1>8. CASE UNCHANGED guestVars
  BY <1>8 DEF guestVars, hartVars, HartTypeOK
<1> QED
  BY <1>1, <1>2, <1>3, <1>4, <1>5, <1>6, <1>7, <1>8 DEF GuestNext

\* The guest machine is always well typed: no instruction, interrupt, load or
\* host write takes the pc, ra or a CSR outside its range.
THEOREM GuestTypeCorrect == GuestSpec => []HartTypeOK
<1>1. GuestInit => HartTypeOK
  BY GuestInitType
<1>2. HartTypeOK /\ [GuestNext]_guestVars => HartTypeOK'
  BY GuestNextType
<1> QED
  BY <1>1, <1>2, PTL DEF GuestSpec

-----------------------------------------------------------------------------
\* A step that leaves the halt state alone keeps TrapIsFailure, and so does a
\* trap, an exit of a machine that has not trapped, and a load.
LEMMA TrapStep ==
  ASSUME TrapIsFailure, [GuestNext]_guestVars
  PROVE  TrapIsFailure'
<1> USE DEF TrapIsFailure
<1>1. CASE ~is_halted /\ Execute
  <2>1. ~trapped
    BY <1>1
  <2>2. trapped' = trapped
    BY <1>1 DEF Execute, ExecPlain, ExecSetRa, ExecStore, ExecJump,
         ExecBranch, ExecCall, ExecRet, ExecCsr, ExecMret, ExecEbreak,
         EcallHooked, EcallExit, EcallServed
  <2> QED
    BY <2>1, <2>2
<1>2. CASE Fault
  BY <1>2 DEF Fault
<1>3. ASSUME NEW irq \in Irqs, handle_interrupt(irq)
      PROVE  TrapIsFailure'
  BY <1>3 DEF handle_interrupt
<1>4. ASSUME NEW image \in Images, ResetHart(image)
      PROVE  TrapIsFailure'
  BY <1>4 DEF ResetHart
<1>5. ASSUME NEW v \in Addr, PokeRa(v)
      PROVE  TrapIsFailure'
  BY <1>5 DEF PokeRa
<1>6. ASSUME NEW a \in Addr, NEW patch \in Patches, PokeMemory(a, patch)
      PROVE  TrapIsFailure'
  BY <1>6 DEF PokeMemory
<1>7. ASSUME NEW b \in BOOLEAN, SetHook(b)
      PROVE  TrapIsFailure'
  BY <1>7 DEF SetHook, hartVars
<1>8. CASE UNCHANGED guestVars
  BY <1>8 DEF guestVars, hartVars
<1> QED
  BY <1>1, <1>2, <1>3, <1>4, <1>5, <1>6, <1>7, <1>8 DEF GuestNext

\* A trap always shows as a failure: once trapped is set, the machine is
\* halted and its exit code is TRAP_EXIT_CODE, until a binary is loaded.
THEOREM TrapShowsAsFailure == GuestSpec => []TrapIsFailure
<1>1. GuestInit => TrapIsFailure
  BY DEF GuestInit, TrapIsFailure
<1>2. TrapIsFailure /\ [GuestNext]_guestVars => TrapIsFailure'
  BY TrapStep
<1> QED
  BY <1>1, <1>2, PTL DEF GuestSpec

-----------------------------------------------------------------------------
\* The trap state of an interrupt survives every step of the guest: what
\* writes MIE, MPIE or MEPC is the guest itself, its MRET, or another
\* interrupt, which MIE = 0 keeps out.
LEMMA InterruptStep ==
  ASSUME HartTypeOK, InterruptStateKept, [GuestNext]_guestVars
  PROVE  InterruptStateKept'
<1> USE DEF InterruptStateKept
<1>1. CASE Execute
  <2>1. CASE ExecCsr
    <3>1. csr \in Csrs
      BY DEF HartTypeOK
    <3>2. CASE Inst.op = "csrw_mtvec" \/ Inst.op = "csrw_mcause"
      BY <2>1, <3>1, <3>2 DEF ExecCsr, Csrs
    <3>3. CASE Inst.op = "csrw_mstatus" \/ Inst.op = "csrw_mepc"
      BY <2>1, <3>3 DEF ExecCsr
    <3> QED
      BY <2>1, <3>2, <3>3 DEF ExecCsr
  <2>2. CASE ExecMret
    BY <2>2 DEF ExecMret
  <2>3. CASE ~ExecCsr /\ ~ExecMret
    <3>1. UNCHANGED <<csr, interrupted>>
      BY <1>1, <2>3 DEF Execute, ExecPlain, ExecSetRa, ExecStore, ExecJump,
           ExecBranch, ExecCall, ExecRet, ExecEbreak, EcallHooked, EcallExit,
           EcallServed
    <3> QED
      BY <3>1
  <2> QED
    BY <2>1, <2>2, <2>3
<1>2. CASE Fault
  BY <1>2 DEF Fault
<1>3. ASSUME NEW irq \in Irqs, interrupts_enabled, handle_interrupt(irq)
      PROVE  InterruptStateKept'
  <2>1. csr \in Csrs /\ csr.mie = 1
    BY <1>3 DEF HartTypeOK, Csrs, interrupts_enabled
  <2>2. interrupted = None
    BY <2>1
  <2>3. csr'.mie = 0 /\ csr'.mpie = 1 /\ csr'.mepc = pc
    BY <1>3, <2>1 DEF handle_interrupt, Csrs
  <2> QED
    BY <1>3, <2>2, <2>3 DEF handle_interrupt
<1>4. ASSUME NEW image \in Images, ResetHart(image)
      PROVE  InterruptStateKept'
  BY <1>4 DEF ResetHart
<1>5. ASSUME NEW v \in Addr, PokeRa(v)
      PROVE  InterruptStateKept'
  BY <1>5 DEF PokeRa
<1>6. ASSUME NEW a \in Addr, NEW patch \in Patches, PokeMemory(a, patch)
      PROVE  InterruptStateKept'
  BY <1>6 DEF PokeMemory
<1>7. ASSUME NEW b \in BOOLEAN, SetHook(b)
      PROVE  InterruptStateKept'
  BY <1>7 DEF SetHook, hartVars
<1>8. CASE UNCHANGED guestVars
  BY <1>8 DEF guestVars, hartVars
<1> QED
  BY <1>1, <1>2, <1>3, <1>4, <1>5, <1>6, <1>7, <1>8 DEF GuestNext

\* A second interrupt never overwrites the mepc of the first: as long as the
\* handler has not returned or written mstatus or mepc, MIE is clear, MPIE is
\* set and mepc is the interrupted address.
THEOREM InterruptKeepsMepc == GuestSpec => []InterruptStateKept
<1>1. GuestInit => InterruptStateKept
  BY DEF GuestInit, InterruptStateKept
<1>2. HartTypeOK /\ InterruptStateKept /\ [GuestNext]_guestVars
        => InterruptStateKept'
  BY InterruptStep
<1> QED
  BY <1>1, <1>2, GuestTypeCorrect, PTL DEF GuestSpec
=============================================================================
