----------------------------- MODULE MCRunLoop -----------------------------
(***************************************************************************)
(* Guest images for model checking RunLoop.                                *)
(***************************************************************************)
EXTENDS RunLoop, Sequences

I(op, len, arg) ==
  [op |-> op, len |-> len, arg |-> arg, mie |-> 0, mpie |-> 0]

EnableInterrupts ==
  [op |-> "csrw_mstatus", len |-> 1, arg |-> 0, mie |-> 1, mpie |-> 0]

\* A program given as a sequence, placed at address 0; the rest of memory is
\* zero.
Image(insts, entry) ==
  [code |-> [a \in Addr |-> IF a < Len(insts) THEN insts[a + 1]
                                             ELSE I("illegal", 1, 0)],
   entry |-> entry, ra |-> 0]

\* Installs a handler and loops with interrupts on; the way out of the loop
\* falls into the handler's mret and then exits.
InterruptLoop ==
  Image(<<I("csrw_mtvec", 1, 4), EnableInterrupts, I("plain", 1, 0),
          I("branch", 1, 2), I("mret", 1, 0), I("exit", 1, 3)>>, 0)

\* Calls a function, adds and stops on C.EBREAK.
Calling ==
  Image(<<I("call", 2, 4), I("illegal", 1, 0), I("c_add", 1, 0),
          I("ebreak", 1, 0), I("plain", 1, 0), I("ret", 1, 0)>>, 0)

\* System calls of the three kinds, and a return through a register set by
\* hand.
Syscalls ==
  Image(<<I("syscall", 2, 0), I("illegal", 1, 0), I("set_ra", 1, 5),
          I("ret", 1, 0), I("exit", 1, 1), I("unknown_syscall", 1, 0)>>, 0)

\* The handler rewrites mcause and mepc and turns interrupts on before it
\* returns, so that interrupts nest.
Nesting ==
  Image(<<I("csrw_mtvec", 1, 3), EnableInterrupts, I("jump", 1, 2),
          I("csrw_mcause", 1, 1), I("csrw_mepc", 1, 2), EnableInterrupts,
          I("mret", 1, 0)>>, 0)

\* Stores into its own loop.
SelfModifying ==
  Image(<<I("store", 1, 2), I("call_x5", 2, 0), I("illegal", 1, 0)>>, 0)

\* Comes back to address 0 with interrupts on.
InterruptAtZero ==
  Image(<<I("csrw_mtvec", 1, 3), EnableInterrupts, I("jump", 1, 0),
          I("mret", 1, 0), I("illegal", 1, 0)>>, 0)

\* Runs to exit without a loop, with a handler that returns.
Terminating ==
  Image(<<I("csrw_mtvec", 1, 4), EnableInterrupts, I("plain", 1, 0),
          I("exit", 1, 0), I("mret", 1, 0)>>, 0)

ControlImages   == {Calling, Syscalls, SelfModifying}
InterruptImages == {InterruptLoop, Nesting, Terminating}
LoopImages      == {InterruptLoop}
ZeroImages      == {InterruptAtZero}
EndingImages    == {Terminating}

ExitPatch == {I("exit", 1, 0), I("plain", 2, 0)}
=============================================================================
