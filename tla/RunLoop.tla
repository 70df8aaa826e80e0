------------------------------- MODULE RunLoop -------------------------------
(***************************************************************************)
(* Run control: Cpu::run_slice, Cpu::run and Cpu::step_instruction         *)
(* (cpu.rs), and the debugger and lifecycle calls of Simulator (lib.rs)    *)
(* that drive them.                                                        *)
(*                                                                         *)
(* The host calls one Simulator method at a time; `at` is the point the    *)
(* current call has reached.  A call of run_slice is a sequence of steps   *)
(* (loop head, interrupt poll, one instruction, ...) because the interrupt *)
(* line and its enable belong to the host and may change between any two   *)
(* of them.                                                                *)
(***************************************************************************)
EXTENDS Hart

CONSTANTS
  BreakAddrs,     \* where the host may set a breakpoint
  PokeAddrs,      \* where the host may write into memory
  RaValues,       \* what the host may write to ra
  Hooks,          \* what the host may pass to set_has_custom_syscalls
  Budgets,        \* budgets the host passes to run_slice
  MaxBudget,      \* u32::MAX, the budget of run and run_until_breakpoint
  Delays,         \* what js_get_int_inst_delay may answer, as a u64
  DefaultDelay,   \* the delay a zero answer stands for (1000 in the code)
  StepMod         \* step_counter is a u64: 2^64 in the code

ASSUME HostAssumption ==
  /\ BreakAddrs \subseteq Addr
  /\ PokeAddrs \subseteq Addr
  /\ RaValues \subseteq Addr
  /\ Hooks \subseteq BOOLEAN
ASSUME BudgetAssumption ==
  /\ MaxBudget \in Nat \ {0}
  /\ Budgets \subseteq 0 .. MaxBudget
ASSUME DelayAssumption ==
  /\ Delays \subseteq Nat
  /\ DefaultDelay \in Nat \ {0}
ASSUME StepModAssumption == StepMod \in Nat \ {0}

VARIABLES
  debug_enabled,
  breakpoints,
  resume_past_breakpoint,
  step_counter,
  irq_line,      \* host: the interrupt js_external_interrupt will hand out
  irq_enabled,   \* host: what js_interrupt_enabled answers
  at,            \* where the current call is
  call,          \* which call it is, and the temporary breakpoint it set
  slice,         \* the local variables of run_slice
  ret,           \* the outcome a call is about to return
  user_bps,      \* history: the breakpoints the host asked for
  hit            \* history: the breakpoint reported and not executed since

debugVars == <<debug_enabled, breakpoints, user_bps>>
hostVars  == <<irq_line, irq_enabled>>
vars == <<guestVars, debugVars, hostVars, resume_past_breakpoint,
          step_counter, at, call, slice, ret, hit>>

Locations == {"idle", "outer", "inner", "return"}
Functions == {"none", "run_slice", "run_full", "run_until_breakpoint",
              "debug_step", "debug_step_over", "debug_step_out"}
Statuses  == {"none", "Ok", "Running", "Halted", "Trapped", "Breakpoint"}

NoCall  == [fn |-> "none", temp |-> None, had_bp |-> FALSE]
NoSlice == [budget |-> 0, executed |-> 0, chunk |-> 0, done |-> 0,
            watch |-> FALSE, skip |-> None, started |-> 0,
            took_irq |-> FALSE]
NoRet   == [status |-> "none", steps |-> 0]
NoHit   == [addr |-> None, again |-> FALSE]

Init ==
  /\ GuestInit
  /\ debug_enabled = FALSE
  /\ breakpoints = {}
  /\ resume_past_breakpoint = None
  /\ step_counter = 0
  /\ irq_line = 0
  /\ irq_enabled = FALSE
  /\ at = "idle"
  /\ call = NoCall
  /\ slice = NoSlice
  /\ ret = NoRet
  /\ user_bps = {}
  /\ hit = NoHit

\* The history of reports: one more at the current pc, or the instruction
\* at the current pc executed.
Reported == hit' = [addr |-> pc, again |-> hit.addr = pc]
Executed == hit' = IF hit.addr = pc THEN NoHit ELSE hit

CountStep == step_counter' = (step_counter + 1) % StepMod

-----------------------------------------------------------------------------
(* Cpu::run_slice.                                                         *)

\* Mutant: the resume point is read and not taken.
StartSliceKeepsResume(budget, bps) ==
  /\ at' = "outer"
  /\ slice' = [NoSlice EXCEPT !.budget = budget,
                              !.watch = debug_enabled /\ bps # {},
                              !.skip = resume_past_breakpoint,
                              !.started = step_counter]
  /\ UNCHANGED resume_past_breakpoint

\* Entry, with `bps` the breakpoint set at the time of the call.  The resume
\* point is taken whatever the budget is.
StartSlice(budget, bps) ==
  /\ at' = "outer"
  /\ slice' = [NoSlice EXCEPT !.budget = budget,
                              !.watch = debug_enabled /\ bps # {},
                              !.skip = resume_past_breakpoint,
                              !.started = step_counter]
  /\ resume_past_breakpoint' = None

\* The slice is over: hand its outcome to the caller.  The pc and exit code
\* that go with it are the machine's own.
EndSlice(status, steps) ==
  /\ at' = "return"
  /\ ret' = [status |-> status, steps |-> steps]
  /\ UNCHANGED slice

\* Mutant: the budget is looked at before the halt.
OuterStopBudgetFirst ==
  /\ at = "outer"
  /\ UNCHANGED <<guestVars, debugVars, hostVars, resume_past_breakpoint,
                 step_counter, call, hit>>
  /\ \/ /\ slice.executed >= slice.budget
        /\ EndSlice("Running", slice.executed)
     \/ /\ slice.executed < slice.budget
        /\ is_halted
        /\ EndSlice("Halted", slice.executed)

\* `if self.is_halted` and `if executed >= budget` at the loop head.
OuterStop ==
  /\ at = "outer"
  /\ UNCHANGED <<guestVars, debugVars, hostVars, resume_past_breakpoint,
                 step_counter, call, hit>>
  /\ \/ is_halted /\ EndSlice("Halted", slice.executed)
     \/ /\ ~is_halted
        /\ slice.executed >= slice.budget
        /\ EndSlice("Running", slice.executed)

\* Mutant: the poll interval is not cut to the budget.
FirstOf(a, b) == a

Smaller(a, b) == IF a <= b THEN a ELSE b

\* Mutant: the guest's own interrupt enable is not asked for.
PollIgnoresMie ==
  /\ at = "outer"
  /\ ~is_halted
  /\ slice.executed < slice.budget
  /\ LET take == irq_enabled /\ irq_line # 0
     IN /\ IF take THEN handle_interrupt(irq_line) ELSE UNCHANGED hartVars
        /\ irq_line' = IF take THEN 0 ELSE irq_line
        /\ \E delay \in Delays :
             slice' = [slice EXCEPT
               !.chunk = Smaller(IF delay = 0 THEN DefaultDelay ELSE delay,
                                 slice.budget - slice.executed),
               !.done = 0,
               !.took_irq = slice.took_irq \/ take]
  /\ at' = "inner"
  /\ UNCHANGED <<has_custom_syscalls, debugVars, irq_enabled,
                 resume_past_breakpoint, step_counter, call, ret, hit>>

\* The poll: the delay is asked for first, then the interrupt, which is only
\* taken off the line when both the host and the guest have it enabled.
Poll ==
  /\ at = "outer"
  /\ ~is_halted
  /\ slice.executed < slice.budget
  /\ LET take == irq_enabled /\ interrupts_enabled /\ irq_line # 0
     IN /\ IF take THEN handle_interrupt(irq_line) ELSE UNCHANGED hartVars
        /\ irq_line' = IF take THEN 0 ELSE irq_line
        /\ \E delay \in Delays :
             slice' = [slice EXCEPT
               !.chunk = Smaller(IF delay = 0 THEN DefaultDelay ELSE delay,
                                 slice.budget - slice.executed),
               !.done = 0,
               !.took_irq = slice.took_irq \/ take]
  /\ at' = "inner"
  /\ UNCHANGED <<has_custom_syscalls, debugVars, irq_enabled,
                 resume_past_breakpoint, step_counter, call, ret, hit>>

\* Mutant: `executed += done` is lost.
ChunkDoneLosesCount ==
  /\ at = "inner"
  /\ slice.done >= slice.chunk
  /\ slice' = [slice EXCEPT !.done = 0]
  /\ at' = "outer"
  /\ UNCHANGED <<guestVars, debugVars, hostVars, resume_past_breakpoint,
                 step_counter, call, ret, hit>>

\* The inner loop ran its chunk.
ChunkDone ==
  /\ at = "inner"
  /\ slice.done >= slice.chunk
  /\ slice' = [slice EXCEPT !.executed = slice.executed + slice.done,
                            !.done = 0]
  /\ at' = "outer"
  /\ UNCHANGED <<guestVars, debugVars, hostVars, resume_past_breakpoint,
                 step_counter, call, ret, hit>>

InnerHalted ==
  /\ at = "inner"
  /\ slice.done < slice.chunk
  /\ is_halted
  /\ UNCHANGED <<guestVars, debugVars, hostVars, resume_past_breakpoint,
                 step_counter, call, hit>>
  /\ EndSlice("Halted", slice.executed + slice.done)

\* Mutant: no one-shot skip.
StopsEveryTime == slice.watch /\ pc \in breakpoints

\* A watched breakpoint at pc that this slice may not resume through.
StopsHere == slice.watch /\ pc \in breakpoints /\ slice.skip # pc

InnerBreakpoint ==
  /\ at = "inner"
  /\ slice.done < slice.chunk
  /\ ~is_halted
  /\ StopsHere
  /\ resume_past_breakpoint' = pc
  /\ Reported
  /\ UNCHANGED <<guestVars, debugVars, hostVars, step_counter, call>>
  /\ EndSlice("Breakpoint", slice.executed + slice.done)

\* Mutant: the skip lasts for the whole slice.
SkipKept == slice.skip

\* Only the first instruction of a slice may resume through a breakpoint.
SkipUsed == IF slice.watch THEN None ELSE slice.skip

\* Mutant: the halt is only looked at between chunks.
InnerExecuteHalted ==
  /\ at = "inner"
  /\ slice.done < slice.chunk
  /\ ~StopsHere
  /\ Execute
  /\ CountStep
  /\ slice' = [slice EXCEPT !.done = slice.done + 1, !.skip = SkipUsed]
  /\ Executed
  /\ UNCHANGED <<has_custom_syscalls, debugVars, hostVars,
                 resume_past_breakpoint, at, call, ret>>

InnerExecute ==
  /\ at = "inner"
  /\ slice.done < slice.chunk
  /\ ~is_halted
  /\ ~StopsHere
  /\ Execute
  /\ CountStep
  /\ slice' = [slice EXCEPT !.done = slice.done + 1, !.skip = SkipUsed]
  /\ Executed
  /\ UNCHANGED <<has_custom_syscalls, debugVars, hostVars,
                 resume_past_breakpoint, at, call, ret>>

\* The faulting instruction is not counted.
InnerTrap ==
  /\ at = "inner"
  /\ slice.done < slice.chunk
  /\ ~is_halted
  /\ ~StopsHere
  /\ Fault
  /\ EndSlice("Trapped", slice.executed + slice.done)
  /\ Executed
  /\ UNCHANGED <<has_custom_syscalls, debugVars, hostVars,
                 resume_past_breakpoint, step_counter, call>>

-----------------------------------------------------------------------------
(* The callers of run_slice, once a slice has ended.                       *)

EndCall ==
  /\ at' = "idle"
  /\ call' = NoCall
  /\ slice' = NoSlice
  /\ ret' = NoRet

\* Simulator::run_slice and debug_step return the outcome as it is.
ReturnSlice ==
  /\ at = "return"
  /\ call.fn \in {"run_slice", "debug_step"}
  /\ EndCall
  /\ UNCHANGED <<guestVars, debugVars, hostVars, resume_past_breakpoint,
                 step_counter, hit>>

\* Mutant: a breakpoint leaves the loop, and the machine is marked halted.
ReturnRunAtBreakpoint ==
  /\ at = "return"
  /\ call.fn = "run_full"
  /\ is_halted' = TRUE
  /\ EndCall
  /\ UNCHANGED <<prog, pc, ra, csr, exit_code, trapped, has_custom_syscalls,
                 interrupted, debugVars, hostVars, step_counter, hit,
                 resume_past_breakpoint>>

\* Mutant: a halt does not leave the loop.
ReturnRunForever ==
  /\ at = "return"
  /\ call.fn = "run_full"
  /\ StartSlice(MaxBudget, breakpoints)
  /\ ret' = NoRet
  /\ UNCHANGED <<guestVars, debugVars, hostVars, step_counter, hit, call>>

\* Cpu::run goes on through a spent budget and through a breakpoint.
ReturnRun ==
  /\ at = "return"
  /\ call.fn = "run_full"
  /\ \/ /\ ret.status \in {"Running", "Breakpoint"}
        /\ StartSlice(MaxBudget, breakpoints)
        /\ ret' = NoRet
        /\ UNCHANGED <<is_halted, call>>
     \/ /\ ret.status \in {"Halted", "Trapped"}
        /\ is_halted' = TRUE
        /\ EndCall
        /\ UNCHANGED resume_past_breakpoint
  /\ UNCHANGED <<prog, pc, ra, csr, exit_code, trapped, has_custom_syscalls,
                 interrupted, debugVars, hostVars, step_counter, hit>>

\* run_until_breakpoint goes on through a spent budget only; debug_step_over
\* and debug_step_out then take back the breakpoint they set.
ReturnUntil ==
  /\ at = "return"
  /\ call.fn \in {"run_until_breakpoint", "debug_step_over",
                  "debug_step_out"}
  /\ \/ /\ ret.status = "Running"
        /\ StartSlice(MaxBudget, breakpoints)
        /\ ret' = NoRet
        /\ UNCHANGED <<breakpoints, call>>
     \/ /\ ret.status \in {"Halted", "Trapped", "Breakpoint"}
        /\ breakpoints' = IF call.had_bp THEN breakpoints
                                         ELSE breakpoints \ {call.temp}
        /\ EndCall
        /\ UNCHANGED resume_past_breakpoint
  /\ UNCHANGED <<guestVars, debug_enabled, user_bps, hostVars, step_counter,
                 hit>>

-----------------------------------------------------------------------------
(* The calls that run the guest.                                           *)

CallSlice(budget) ==
  /\ at = "idle"
  /\ StartSlice(budget, breakpoints)
  /\ call' = [fn |-> "run_slice", temp |-> None, had_bp |-> FALSE]
  /\ ret' = NoRet
  /\ UNCHANGED <<guestVars, debugVars, hostVars, step_counter, hit>>

\* run_full and run_until_breakpoint.
CallRun(fn) ==
  /\ at = "idle"
  /\ StartSlice(MaxBudget, breakpoints)
  /\ call' = [fn |-> fn, temp |-> None, had_bp |-> FALSE]
  /\ ret' = NoRet
  /\ UNCHANGED <<guestVars, debugVars, hostVars, step_counter, hit>>

\* Mutant: had_bp is read after the insertion.
RunToInsertFirst(fn, addr) ==
  /\ call' = [fn |-> fn, temp |-> addr, had_bp |-> TRUE]
  /\ breakpoints' = breakpoints \union {addr}
  /\ StartSlice(MaxBudget, breakpoints')
  /\ ret' = NoRet
  /\ UNCHANGED <<guestVars, debug_enabled, user_bps, hostVars, step_counter,
                 hit>>

\* Mutant: whether to watch is decided before the insertion.
RunToWatchFirst(fn, addr) ==
  /\ call' = [fn |-> fn, temp |-> addr, had_bp |-> addr \in breakpoints]
  /\ breakpoints' = breakpoints \union {addr}
  /\ StartSlice(MaxBudget, breakpoints)
  /\ ret' = NoRet
  /\ UNCHANGED <<guestVars, debug_enabled, user_bps, hostVars, step_counter,
                 hit>>

\* The common part of debug_step_over and debug_step_out: a temporary
\* breakpoint at `addr`, remembered unless it was there already.
RunTo(fn, addr) ==
  /\ call' = [fn |-> fn, temp |-> addr, had_bp |-> addr \in breakpoints]
  /\ breakpoints' = breakpoints \union {addr}
  /\ StartSlice(MaxBudget, breakpoints')
  /\ ret' = NoRet
  /\ UNCHANGED <<guestVars, debug_enabled, user_bps, hostVars, step_counter,
                 hit>>

\* Cpu::step_instruction: the breakpoint is looked at before the halt, and
\* no interrupt is polled.  A faulting instruction is counted here.
StepInstruction ==
  /\ at' = "return"
  /\ call' = [fn |-> "debug_step", temp |-> None, had_bp |-> FALSE]
  /\ slice' = [NoSlice EXCEPT !.budget = 1, !.started = step_counter,
                              !.skip = resume_past_breakpoint]
  /\ IF debug_enabled /\ pc \in breakpoints /\ resume_past_breakpoint # pc
     THEN /\ resume_past_breakpoint' = pc
          /\ ret' = [status |-> "Breakpoint", steps |-> 0]
          /\ Reported
          /\ UNCHANGED <<hartVars, step_counter>>
     ELSE /\ resume_past_breakpoint' = None
          /\ \/ /\ is_halted
                /\ ret' = [status |-> "Halted", steps |-> 0]
                /\ UNCHANGED <<hartVars, step_counter, hit>>
             \/ /\ ~is_halted
                /\ Execute
                /\ CountStep
                /\ ret' = [status |-> IF is_halted' THEN "Halted" ELSE "Ok",
                           steps |-> 1]
                /\ Executed
             \/ /\ ~is_halted
                /\ Fault
                /\ CountStep
                /\ ret' = [status |-> "Trapped", steps |-> 1]
                /\ Executed
  /\ UNCHANGED <<has_custom_syscalls, debugVars, hostVars>>

DebugStep ==
  /\ at = "idle"
  /\ StepInstruction

\* is_call_instruction: the test for C.JALR looks at bit 12 only, so C.ADD
\* and C.EBREAK pass it too.
IsCall ==
  \/ Inst.op \in {"call", "call_x5", "c_add"}
  \/ Inst.op = "ebreak" /\ Inst.len = 1

DebugStepOver ==
  /\ at = "idle"
  /\ IF IsCall THEN RunTo("debug_step_over", next_pc) ELSE StepInstruction

DebugStepOut ==
  /\ at = "idle"
  /\ RunTo("debug_step_out", ra)

-----------------------------------------------------------------------------
(* The other calls that change state.                                      *)

LoadBinary(image) ==
  /\ at = "idle"
  /\ ResetHart(image)
  /\ debug_enabled' = FALSE
  /\ breakpoints' = {}
  /\ user_bps' = {}
  /\ resume_past_breakpoint' = None
  /\ step_counter' = 0
  /\ hit' = NoHit
  /\ UNCHANGED <<hostVars, at, call, slice, ret>>

SetHasCustomSyscalls(b) ==
  /\ at = "idle"
  /\ SetHook(b)
  /\ UNCHANGED <<debugVars, hostVars, resume_past_breakpoint, step_counter,
                 at, call, slice, ret, hit>>

SetDebugMode(b) ==
  /\ at = "idle"
  /\ debug_enabled' = b
  /\ UNCHANGED <<guestVars, breakpoints, user_bps, hostVars,
                 resume_past_breakpoint, step_counter, at, call, slice, ret,
                 hit>>

\* add_breakpoint, remove_breakpoint and clear_breakpoints.
SetBreakpoints(bps) ==
  /\ at = "idle"
  /\ breakpoints' = bps
  /\ user_bps' = bps
  /\ UNCHANGED <<guestVars, debug_enabled, hostVars, resume_past_breakpoint,
                 step_counter, at, call, slice, ret, hit>>

WriteRegister(v) ==
  /\ at = "idle"
  /\ PokeRa(v)
  /\ UNCHANGED <<debugVars, hostVars, resume_past_breakpoint, step_counter,
                 at, call, slice, ret, hit>>

WriteMemory(a, patch) ==
  /\ at = "idle"
  /\ PokeMemory(a, patch)
  /\ UNCHANGED <<debugVars, hostVars, resume_past_breakpoint, step_counter,
                 at, call, slice, ret, hit>>

(***************************************************************************)
(* The host's device, at any time.  js_external_interrupt is assumed to    *)
(* take the interrupt it returns off the line.                             *)
(***************************************************************************)
RaiseIrq(irq) ==
  /\ irq_line = 0
  /\ irq_line' = irq
  /\ UNCHANGED <<guestVars, debugVars, irq_enabled, resume_past_breakpoint,
                 step_counter, at, call, slice, ret, hit>>

EnableIrqs(b) ==
  /\ irq_enabled' = b
  /\ UNCHANGED <<guestVars, debugVars, irq_line, resume_past_breakpoint,
                 step_counter, at, call, slice, ret, hit>>

-----------------------------------------------------------------------------
\* The steps of a call in progress.
Running ==
  \/ OuterStop \/ Poll \/ ChunkDone
  \/ InnerHalted \/ InnerBreakpoint \/ InnerExecute \/ InnerTrap
  \/ ReturnSlice \/ ReturnRun \/ ReturnUntil

Calls ==
  \/ \E b \in Budgets : CallSlice(b)
  \/ \E fn \in {"run_full", "run_until_breakpoint"} : CallRun(fn)
  \/ DebugStep \/ DebugStepOver \/ DebugStepOut

Settings ==
  \/ \E image \in Images : LoadBinary(image)
  \/ \E b \in Hooks : SetHasCustomSyscalls(b)
  \/ \E b \in BOOLEAN : SetDebugMode(b)
  \/ \E a \in BreakAddrs : SetBreakpoints(breakpoints \union {a})
  \/ \E a \in BreakAddrs : SetBreakpoints(breakpoints \ {a})
  \/ SetBreakpoints({})
  \/ \E v \in RaValues : WriteRegister(v)
  \/ \E a \in PokeAddrs, patch \in Patches : WriteMemory(a, patch)

Device ==
  \/ \E irq \in Irqs : RaiseIrq(irq)
  \/ \E b \in BOOLEAN : EnableIrqs(b)

Next == Running \/ Calls \/ Settings \/ Device

Spec == Init /\ [][Next]_vars

\* A call runs without yielding, so it keeps taking steps while it can.
\* Nothing makes the host or its device act.
FairSpec == Spec /\ WF_vars(Running)

-----------------------------------------------------------------------------
(* Safety.                                                                 *)

\* Every variable stays in its type.
TypeOK ==
  /\ HartTypeOK
  /\ debug_enabled \in BOOLEAN
  /\ breakpoints \subseteq Addr
  /\ resume_past_breakpoint \in Addr \union {None}
  /\ step_counter \in 0 .. StepMod - 1
  /\ irq_line \in Irqs \union {0}
  /\ irq_enabled \in BOOLEAN
  /\ at \in Locations
  /\ call \in [fn : Functions, temp : Addr \union {None}, had_bp : BOOLEAN]
  /\ slice \in [budget : 0 .. MaxBudget, executed : Nat, chunk : Nat,
               done : Nat, watch : BOOLEAN, skip : Addr \union {None},
               started : 0 .. StepMod - 1, took_irq : BOOLEAN]
  /\ ret \in [status : Statuses, steps : Nat]
  /\ user_bps \subseteq Addr
  /\ hit \in [addr : Addr \union {None}, again : BOOLEAN]

\* Instructions the current slice has executed so far.
StepsSoFar == IF at = "return" THEN ret.steps
                               ELSE slice.executed + slice.done

\* A slice never runs past its budget, wherever the poll interval cuts it:
\* run_slice's chunk arithmetic, and the steps it reports.
SliceWithinBudget == at # "idle" => StepsSoFar <= slice.budget

\* The steps a slice reports are the ones step_counter advanced by, on every
\* way out of the two nested loops of run_slice.
StepsAccounted ==
  at # "idle" => step_counter = (slice.started + StepsSoFar) % StepMod

\* The status a slice ends with describes the machine it leaves behind.  In
\* particular an exit executed as the last instruction of the budget is not
\* reported as Running, and Running means that the whole budget was spent.
\* Only a step can report a breakpoint of a halted machine.
StatusTruthful ==
  at = "return" =>
    \/ /\ ret.status \in {"Running", "Ok"}
       /\ ~is_halted
       /\ ret.steps = slice.budget
    \/ ret.status = "Halted" /\ is_halted
    \/ ret.status = "Trapped" /\ is_halted /\ trapped
    \/ /\ ret.status = "Breakpoint"
       /\ is_halted => call.fn = "debug_step"
       /\ debug_enabled
       /\ pc \in breakpoints

\* The resume point a call leaves behind is the address the machine stands
\* at, so the one-shot skip can never apply to another breakpoint.
ResumePointIsPc ==
  at \in {"idle", "return"} => resume_past_breakpoint \in {None, pc}

\* A continue from a reported breakpoint makes progress: a slice that stops
\* on a breakpoint with no instruction executed and no interrupt taken did
\* not start from a report (run_slice's skip_breakpoint).
ContinueMakesProgress ==
  /\ at = "return"
  /\ ret.status = "Breakpoint"
  /\ ret.steps = 0
  /\ ~slice.took_irq
  => slice.skip = None

\* No instruction at an active breakpoint executes unless the breakpoint was
\* reported since the instruction last executed, in slices and steps alike.
NoMissedBreakpoint ==
  [][step_counter' # step_counter /\ debug_enabled' /\ pc \in breakpoints
       => hit.addr = pc]_vars

\* debug_step_over and debug_step_out leave the breakpoint set as the host
\* made it, whether they stop at their own breakpoint, at another one, or
\* because the guest halted.
TempBreakpointsRemoved == at = "idle" => breakpoints = user_bps

\* A halted machine stays as it is until a binary is loaded: no path
\* executes an instruction, takes an interrupt or changes the exit code.
HaltIsFinal ==
  [][is_halted /\ is_halted' =>
       UNCHANGED <<pc, csr, exit_code, trapped, step_counter>>]_vars

(* Liveness.                                                               *)

\* A slice hands control back to the host, whatever the guest and the device
\* do: run_slice is what keeps the browser worker responsive.
SliceReturns == (call.fn = "run_slice") ~> (at = "idle")

\* An interrupt that stays enabled on both sides is taken while a call is
\* running the guest: the poll of run_slice comes round again.
InterruptIsPolled ==
  (at # "idle" /\ irq_line # 0 /\ irq_enabled /\ csr.mie = 1) ~>
    (at = "idle" \/ irq_line = 0 \/ ~irq_enabled \/ csr.mie = 0)

\* The program has no transfers but mret, so that it reaches its exit or a
\* fault.
Straight ==
  \A a \in Addr : prog[a].op \notin {"jump", "branch", "call", "call_x5",
                                     "ret", "store", "csrw_mepc"}

\* run_full comes back from a program that ends, however often interrupts
\* come, if time and again more than one instruction runs between polls
\* (cpu.rs:371): one is spent on the handler's mret.
RunFullReturns ==
  []<>(at = "idle" \/ is_halted \/ slice.chunk > 1) =>
    ((call.fn = "run_full" /\ breakpoints = {} /\ Straight) ~> at = "idle")

(* What comments in the code say of it.                                    *)

\* cpu.rs: "A breakpoint is reported once."
BreakpointReportedOnce == ~hit.again

\* cpu.rs, Cpu::run: "A breakpoint cannot stall this loop".
BreakpointDoesNotStall ==
  []<>(at = "idle" \/ is_halted \/ slice.chunk > 1) =>
    ((call.fn = "run_full" /\ Straight) ~> at = "idle")

\* lib.rs, SliceStatus::Halted: "The guest called exit."
HaltedIsNotATrap ==
  at = "return" /\ call.fn = "run_slice" /\ ret.status = "Halted" => ~trapped

\* cpu.rs, MEPC: "Address of the first instruction to be executed after
\* handling the current trap."
MretReturnsToMepc ==
  [][interrupted # None /\ Inst.op = "mret" /\ csr'.mie = 1
       => pc' = interrupted]_vars
=============================================================================
