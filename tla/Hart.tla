-------------------------------- MODULE Hart --------------------------------
(***************************************************************************)
(* The guest-visible half of `Cpu` (cpu.rs): program counter, return       *)
(* address, the trap CSRs, and the halt state, with one action per class   *)
(* of instruction and one for taking an external interrupt.                *)
(*                                                                         *)
(* Register and memory data are abstracted away: a branch is a choice, and *)
(* an instruction is known by what it does to the state kept here.         *)
(* Addresses count halfwords, so a compressed instruction has length 1 and *)
(* a 32-bit instruction has length 2.                                      *)
(*                                                                         *)
(* GuestSpec is the abstract specification of the emulator: the guest      *)
(* moves by whole instructions, by interrupts it has enabled, and by what  *)
(* the host writes, and by nothing else.  RunLoop is shown to refine it.   *)
(***************************************************************************)
EXTENDS Naturals

CONSTANTS
  AddrSpace,   \* number of halfword addresses (2^31 in the code)
  Images,      \* what load_binary may be given: code, entry point and the
               \* initial value of ra
  Patches,     \* what a store into code may turn an instruction into
  Irqs,        \* the nonzero interrupt numbers a device may raise
  None         \* Option::None

Addr == 0 .. AddrSpace - 1

Ops == {"plain", "c_add", "set_ra", "store", "jump", "branch", "call",
        "call_x5", "ret", "csrw_mstatus", "csrw_mtvec", "csrw_mepc",
        "csrw_mcause", "mret", "ebreak", "exit", "syscall", "unknown_syscall",
        "illegal"}

(***************************************************************************)
(* `arg` is the target of a transfer, the address of a store, the value    *)
(* written to a CSR or to ra, or the status passed to exit; `mie` and      *)
(* `mpie` are the bits written to mstatus.                                 *)
(***************************************************************************)
Insts == [op : Ops, len : {1, 2}, arg : Addr, mie : {0, 1}, mpie : {0, 1}]

ASSUME AddrSpaceAssumption == AddrSpace \in Nat \ {0}
ASSUME ImagesAssumption    ==
  Images \subseteq [code : [Addr -> Insts], entry : Addr, ra : Addr]
ASSUME PatchesAssumption   == Patches \subseteq Insts
ASSUME IrqsAssumption      == Irqs \subseteq Nat \ {0}
ASSUME NoneAssumption      == None \notin Nat

TRAP_EXIT_CODE == 134

VARIABLES
  prog,        \* the instructions in guest memory
  pc,
  ra,          \* regs[1]
  csr,         \* the MSTATUS bits and MEPC, MCAUSE, MTVEC of the CsrFile
  is_halted,
  exit_code,
  trapped,
  has_custom_syscalls,
  interrupted  \* history: the pc an interrupt saved, until the guest returns
               \* from it or takes over mstatus or mepc itself

hartVars == <<prog, pc, ra, csr, is_halted, exit_code, trapped, interrupted>>
guestVars == <<hartVars, has_custom_syscalls>>

Csrs == [mie : {0, 1}, mpie : {0, 1}, mepc : Addr, mcause : Nat, mtvec : Addr]

\* Cpu::new: every CSR reads as zero.
ResetCsr == [mie |-> 0, mpie |-> 0, mepc |-> 0, mcause |-> 0, mtvec |-> 0]

\* Memory::new reads as zero, and the all-zero halfword is illegal.
EmptyMemory ==
  [a \in Addr |-> [op |-> "illegal", len |-> 1, arg |-> 0, mie |-> 0,
                   mpie |-> 0]]

GuestInit ==
  /\ prog = EmptyMemory
  /\ pc = 0
  /\ ra = 0
  /\ csr = ResetCsr
  /\ is_halted = FALSE
  /\ exit_code = 0
  /\ trapped = FALSE
  /\ has_custom_syscalls = FALSE
  /\ interrupted = None

\* Mutant: the pc does not wrap.
PlainAdd(a, n) == a + n

wrapping_add(a, n) == (a + n) % AddrSpace

Inst == prog[pc]

\* Both executors start from the address after the instruction.
next_pc == wrapping_add(pc, Inst.len)

-----------------------------------------------------------------------------
(* Instructions that complete: execute_inst32 and execute_inst16.          *)

\* Every instruction with no effect on the state kept here.  C.ADD is named
\* apart because is_call_instruction takes it for C.JALR.
ExecPlain ==
  /\ Inst.op \in {"plain", "c_add"}
  /\ pc' = next_pc
  /\ UNCHANGED <<prog, ra, csr, is_halted, exit_code, trapped,
                 interrupted>>

\* A load, move or arithmetic instruction whose destination is ra.
ExecSetRa ==
  /\ Inst.op = "set_ra"
  /\ ra' = Inst.arg
  /\ pc' = next_pc
  /\ UNCHANGED <<prog, csr, is_halted, exit_code, trapped, interrupted>>

\* A store that reaches code.
ExecStore ==
  /\ Inst.op = "store"
  /\ \E patch \in Patches : prog' = [prog EXCEPT ![Inst.arg] = patch]
  /\ pc' = next_pc
  /\ UNCHANGED <<ra, csr, is_halted, exit_code, trapped, interrupted>>

\* JAL, JALR, C.J and C.JR that do not link into ra.
ExecJump ==
  /\ Inst.op \in {"jump", "call_x5"}
  /\ pc' = Inst.arg
  /\ UNCHANGED <<prog, ra, csr, is_halted, exit_code, trapped,
                 interrupted>>

ExecBranch ==
  /\ Inst.op = "branch"
  /\ pc' \in {Inst.arg, next_pc}
  /\ UNCHANGED <<prog, ra, csr, is_halted, exit_code, trapped,
                 interrupted>>

\* JAL and JALR with rd = ra, C.JAL, C.JALR.
ExecCall ==
  /\ Inst.op = "call"
  /\ ra' = next_pc
  /\ pc' = Inst.arg
  /\ UNCHANGED <<prog, csr, is_halted, exit_code, trapped, interrupted>>

\* JALR x0, 0(ra) and C.JR ra.
ExecRet ==
  /\ Inst.op = "ret"
  /\ pc' = ra
  /\ UNCHANGED <<prog, ra, csr, is_halted, exit_code, trapped,
                 interrupted>>

\* The CSR instructions of exec_csr on the CSRs kept here.  A guest that
\* writes mstatus or mepc is managing the trap state itself.
ExecCsr ==
  /\ \/ /\ Inst.op = "csrw_mstatus"
        /\ csr' = [csr EXCEPT !.mie = Inst.mie, !.mpie = Inst.mpie]
        /\ interrupted' = None
     \/ /\ Inst.op = "csrw_mepc"
        /\ csr' = [csr EXCEPT !.mepc = Inst.arg]
        /\ interrupted' = None
     \/ /\ Inst.op = "csrw_mtvec"
        /\ csr' = [csr EXCEPT !.mtvec = Inst.arg]
        /\ UNCHANGED interrupted
     \/ /\ Inst.op = "csrw_mcause"
        /\ csr' = [csr EXCEPT !.mcause = Inst.arg]
        /\ UNCHANGED interrupted
  /\ pc' = next_pc
  /\ UNCHANGED <<prog, ra, is_halted, exit_code, trapped>>

\* MRET: a zero mepc is taken to mean that it was never set.
ExecMret ==
  /\ Inst.op = "mret"
  /\ pc' = IF csr.mepc # 0 THEN csr.mepc ELSE next_pc
  /\ csr' = [csr EXCEPT !.mie = csr.mpie, !.mpie = 1]
  /\ interrupted' = None
  /\ UNCHANGED <<prog, ra, is_halted, exit_code, trapped>>

\* EBREAK and C.EBREAK leave exit_code alone.
ExecEbreak ==
  /\ Inst.op = "ebreak"
  /\ is_halted' = TRUE
  /\ pc' = next_pc
  /\ UNCHANGED <<prog, ra, csr, exit_code, trapped, interrupted>>

EcallOps == {"exit", "syscall", "unknown_syscall"}

\* handle_ecall, host hook first: a nonzero answer ends the call.
EcallHooked ==
  /\ Inst.op \in EcallOps
  /\ has_custom_syscalls
  /\ pc' = next_pc
  /\ UNCHANGED <<prog, ra, csr, is_halted, exit_code, trapped,
                 interrupted>>

\* handle_ecall without a hook, or with one that answered zero.
EcallExit ==
  /\ Inst.op = "exit"
  /\ is_halted' = TRUE
  /\ exit_code' = Inst.arg
  /\ pc' = next_pc
  /\ UNCHANGED <<prog, ra, csr, trapped, interrupted>>

EcallServed ==
  /\ Inst.op = "syscall"
  /\ pc' = next_pc
  /\ UNCHANGED <<prog, ra, csr, is_halted, exit_code, trapped,
                 interrupted>>

Execute ==
  \/ ExecPlain \/ ExecSetRa \/ ExecStore
  \/ ExecJump \/ ExecBranch \/ ExecCall \/ ExecRet
  \/ ExecCsr \/ ExecMret \/ ExecEbreak
  \/ EcallHooked \/ EcallExit \/ EcallServed

\* Mutant: the exit code of a trap is not set.
FaultKeepsExitCode ==
  /\ Inst.op \in {"illegal", "unknown_syscall"}
  /\ trapped' = TRUE
  /\ is_halted' = TRUE
  /\ UNCHANGED <<prog, pc, ra, csr, exit_code, interrupted>>

(***************************************************************************)
(* Instructions that fail: IllegalInstruction, UnknownOpcode and           *)
(* UnknownSyscall return before pc is assigned, and both run loops then    *)
(* stop the machine.                                                       *)
(***************************************************************************)
Fault ==
  /\ Inst.op \in {"illegal", "unknown_syscall"}
  /\ trapped' = TRUE
  /\ exit_code' = TRAP_EXIT_CODE
  /\ is_halted' = TRUE
  /\ UNCHANGED <<prog, pc, ra, csr, interrupted>>

\* Mutant: MPIE is tested in place of MIE.
InterruptsWereEnabled == csr.mpie # 0

interrupts_enabled == csr.mie # 0

\* Mutant: interrupts stay on in the handler.
InterruptKeepsMie(irq) ==
  /\ csr' = [csr EXCEPT !.mepc = pc, !.mcause = irq, !.mpie = csr.mie]
  /\ pc' = IF csr.mtvec # 0 THEN csr.mtvec ELSE pc
  /\ interrupted' = IF interrupted = None THEN pc ELSE interrupted
  /\ UNCHANGED <<prog, ra, is_halted, exit_code, trapped>>

\* The pc moves only when a trap vector is installed.  The interrupt flag
\* that the code sets beside irq in mcause is left out.
handle_interrupt(irq) ==
  /\ csr' = [csr EXCEPT !.mepc = pc, !.mcause = irq, !.mpie = csr.mie,
                        !.mie = 0]
  /\ pc' = IF csr.mtvec # 0 THEN csr.mtvec ELSE pc
  /\ interrupted' = IF interrupted = None THEN pc ELSE interrupted
  /\ UNCHANGED <<prog, ra, is_halted, exit_code, trapped>>

-----------------------------------------------------------------------------
(* What the host does to the guest between calls (lib.rs).                 *)

\* load_binary_with_args: a fresh Cpu that keeps only has_custom_syscalls.
ResetHart(image) ==
  /\ prog' = image.code
  /\ pc' = image.entry
  /\ ra' = image.ra
  /\ csr' = ResetCsr
  /\ is_halted' = FALSE
  /\ exit_code' = 0
  /\ trapped' = FALSE
  /\ interrupted' = None
  /\ UNCHANGED has_custom_syscalls

\* write_register(1, v); the other registers are not kept here.
PokeRa(v) ==
  /\ ra' = v
  /\ UNCHANGED <<prog, pc, csr, is_halted, exit_code, trapped,
                 has_custom_syscalls, interrupted>>

\* write_memory_byte into code.
PokeMemory(a, patch) ==
  /\ prog' = [prog EXCEPT ![a] = patch]
  /\ UNCHANGED <<pc, ra, csr, is_halted, exit_code, trapped,
                 has_custom_syscalls, interrupted>>

SetHook(b) ==
  /\ has_custom_syscalls' = b
  /\ UNCHANGED hartVars

GuestNext ==
  \/ /\ ~is_halted
     /\ Execute \/ Fault
     /\ UNCHANGED has_custom_syscalls
  \/ /\ ~is_halted
     /\ interrupts_enabled
     /\ \E irq \in Irqs : handle_interrupt(irq)
     /\ UNCHANGED has_custom_syscalls
  \/ \E image \in Images : ResetHart(image)
  \/ \E v \in Addr : PokeRa(v)
  \/ \E a \in Addr, patch \in Patches : PokeMemory(a, patch)
  \/ \E b \in BOOLEAN : SetHook(b)

GuestSpec == GuestInit /\ [][GuestNext]_guestVars

-----------------------------------------------------------------------------
\* Every guest variable stays in its type.
HartTypeOK ==
  /\ prog \in [Addr -> Insts]
  /\ pc \in Addr
  /\ ra \in Addr
  /\ csr \in Csrs
  /\ is_halted \in BOOLEAN
  /\ exit_code \in Nat
  /\ trapped \in BOOLEAN
  /\ has_custom_syscalls \in BOOLEAN
  /\ interrupted \in Addr \union {None}

\* A trap always shows as a failure: the machine is stopped and the exit
\* code is the trap code (the comment on Cpu.trapped).
TrapIsFailure == trapped => is_halted /\ exit_code = TRAP_EXIT_CODE

\* From taking an interrupt until the handler returns or writes mstatus or
\* mepc, interrupts are off and mepc keeps the interrupted address
\* (handle_interrupt: "so a second interrupt cannot overwrite mepc").
InterruptStateKept ==
  interrupted # None =>
    csr.mie = 0 /\ csr.mpie = 1 /\ csr.mepc = interrupted
=============================================================================
