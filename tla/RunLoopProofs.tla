--------------------------- MODULE RunLoopProofs ---------------------------
(***************************************************************************)
(* Proofs about run control, for every address space, image, budget, poll  *)
(* interval and breakpoint set.                                            *)
(***************************************************************************)
EXTENDS RunLoop, HartProofs

USE BudgetAssumption, DelayAssumption, StepModAssumption, HostAssumption,
    NoneAssumption

\* step_counter stays within its width.
LEMMA CounterRange ==
  ASSUME NEW n \in 0 .. StepMod - 1
  PROVE  (n + 1) % StepMod \in 0 .. StepMod - 1
  BY SMT

\* No address is None.
LEMMA NoneIsNoAddr == None \notin Addr
  BY DEF Addr

-----------------------------------------------------------------------------
(* Every step is a step of the guest machine or leaves it alone.           *)

\* What Cpu::run relies on when it marks the machine halted after its loop.
HaltReported ==
  at = "return" /\ ret.status \in {"Halted", "Trapped"} => is_halted

\* The steps inside run_slice.
LEMMA SliceRefines ==
  ASSUME TypeOK,
         OuterStop \/ Poll \/ ChunkDone \/ InnerHalted \/ InnerBreakpoint
           \/ InnerExecute \/ InnerTrap
  PROVE  [GuestNext]_guestVars
<1>1. CASE OuterStop
  BY <1>1 DEF OuterStop
<1>2. CASE Poll
  <2>1. CASE irq_enabled /\ interrupts_enabled /\ irq_line # 0
    <3>1. irq_line \in Irqs
      BY <2>1 DEF TypeOK
    <3>2. /\ handle_interrupt(irq_line)
          /\ ~is_halted
          /\ interrupts_enabled
          /\ UNCHANGED has_custom_syscalls
      BY <1>2, <2>1 DEF Poll
    <3> QED
      BY <3>1, <3>2 DEF GuestNext
  <2>2. CASE ~(irq_enabled /\ interrupts_enabled /\ irq_line # 0)
    <3>1. UNCHANGED hartVars /\ UNCHANGED has_custom_syscalls
      BY <1>2, <2>2 DEF Poll
    <3> QED
      BY <3>1 DEF guestVars
  <2> QED
    BY <2>1, <2>2
<1>3. CASE ChunkDone
  BY <1>3 DEF ChunkDone
<1>4. CASE InnerHalted
  BY <1>4 DEF InnerHalted
<1>5. CASE InnerBreakpoint
  BY <1>5 DEF InnerBreakpoint
<1>6. CASE InnerExecute
  BY <1>6 DEF InnerExecute, GuestNext
<1>7. CASE InnerTrap
  BY <1>7 DEF InnerTrap, GuestNext
<1> QED
  BY <1>1, <1>2, <1>3, <1>4, <1>5, <1>6, <1>7

\* A single step of the debugger.
LEMMA StepRefines ==
  ASSUME StepInstruction
  PROVE  [GuestNext]_guestVars
<1>1. UNCHANGED has_custom_syscalls
  BY DEF StepInstruction
<1>2. \/ UNCHANGED hartVars
      \/ ~is_halted /\ Execute
      \/ ~is_halted /\ Fault
  BY DEF StepInstruction
<1> QED
  BY <1>1, <1>2 DEF GuestNext, guestVars

\* The calls of the host, the returns and the device.
LEMMA HostRefines ==
  ASSUME HaltReported,
         ReturnSlice \/ ReturnRun \/ ReturnUntil \/ Calls \/ Settings
           \/ Device
  PROVE  [GuestNext]_guestVars
<1>1. CASE ReturnSlice
  BY <1>1 DEF ReturnSlice
<1>2. CASE ReturnRun
  <2>1. CASE ret.status \in {"Running", "Breakpoint"}
    <3>1. UNCHANGED <<is_halted, prog, pc, ra, csr, exit_code, trapped,
                      has_custom_syscalls, interrupted>>
      BY <1>2, <2>1 DEF ReturnRun
    <3> QED
      BY <3>1 DEF guestVars, hartVars
  <2>2. CASE ret.status \in {"Halted", "Trapped"}
    <3>1. is_halted' = TRUE
      BY <1>2, <2>2 DEF ReturnRun
    <3>2. is_halted
      BY <1>2, <2>2 DEF ReturnRun, HaltReported
    <3>3. UNCHANGED <<prog, pc, ra, csr, exit_code, trapped,
                      has_custom_syscalls, interrupted>>
      BY <1>2 DEF ReturnRun
    <3> QED
      BY <3>1, <3>2, <3>3 DEF guestVars, hartVars
  <2> QED
    BY <1>2, <2>1, <2>2 DEF ReturnRun
<1>3. CASE ReturnUntil
  BY <1>3 DEF ReturnUntil
<1>4. CASE Calls
  <2>1. ASSUME NEW b \in Budgets, CallSlice(b) PROVE UNCHANGED guestVars
    BY <2>1 DEF CallSlice
  <2>2. ASSUME NEW fn, CallRun(fn) PROVE UNCHANGED guestVars
    BY <2>2 DEF CallRun
  <2>3. ASSUME NEW fn, NEW a, RunTo(fn, a) PROVE UNCHANGED guestVars
    BY <2>3 DEF RunTo
  <2>4. CASE DebugStep
    BY <2>4, StepRefines DEF DebugStep
  <2>5. CASE DebugStepOver
    BY <2>3, <2>5, StepRefines DEF DebugStepOver
  <2>6. CASE DebugStepOut
    BY <2>3, <2>6 DEF DebugStepOut
  <2> QED
    BY <1>4, <2>1, <2>2, <2>4, <2>5, <2>6 DEF Calls
<1>5. CASE Settings
  <2>1. ASSUME NEW image \in Images, LoadBinary(image) PROVE GuestNext
    BY <2>1 DEF LoadBinary, GuestNext
  <2>2. ASSUME NEW b \in Hooks, SetHasCustomSyscalls(b) PROVE GuestNext
    BY <2>2 DEF SetHasCustomSyscalls, GuestNext
  <2>3. ASSUME NEW b \in BOOLEAN, SetDebugMode(b) PROVE UNCHANGED guestVars
    BY <2>3 DEF SetDebugMode
  <2>4. ASSUME NEW bps, SetBreakpoints(bps) PROVE UNCHANGED guestVars
    BY <2>4 DEF SetBreakpoints
  <2>5. ASSUME NEW v \in RaValues, WriteRegister(v) PROVE GuestNext
    BY <2>5 DEF WriteRegister, GuestNext
  <2>6. ASSUME NEW a \in PokeAddrs, NEW patch \in Patches,
              WriteMemory(a, patch)
        PROVE  GuestNext
    BY <2>6 DEF WriteMemory, GuestNext
  <2> QED
    BY <1>5, <2>1, <2>2, <2>3, <2>4, <2>5, <2>6 DEF Settings
<1>6. CASE Device
  BY <1>6 DEF Device, RaiseIrq, EnableIrqs
<1> QED
  BY <1>1, <1>2, <1>3, <1>4, <1>5, <1>6

\* Every step of run control maps to a step of the guest or to a stutter.
LEMMA StepsRefine ==
  ASSUME TypeOK, HaltReported, [Next]_vars
  PROVE  [GuestNext]_guestVars
<1>1. CASE Next
  BY <1>1, SliceRefines, HostRefines DEF Next, Running
<1>2. CASE UNCHANGED vars
  BY <1>2 DEF vars
<1> QED
  BY <1>1, <1>2

-----------------------------------------------------------------------------
(* Types.                                                                  *)

CallType  == [fn : Functions, temp : Addr \union {None}, had_bp : BOOLEAN]
SliceType == [budget : 0 .. MaxBudget, executed : Nat, chunk : Nat,
              done : Nat, watch : BOOLEAN, skip : Addr \union {None},
              started : 0 .. StepMod - 1, took_irq : BOOLEAN]
RetType   == [status : Statuses, steps : Nat]
HitType   == [addr : Addr \union {None}, again : BOOLEAN]

\* The part of the type invariant that is about run control.
LoopTypeOK ==
  /\ debug_enabled \in BOOLEAN
  /\ breakpoints \subseteq Addr
  /\ resume_past_breakpoint \in Addr \union {None}
  /\ step_counter \in 0 .. StepMod - 1
  /\ irq_line \in Irqs \union {0}
  /\ irq_enabled \in BOOLEAN
  /\ at \in Locations
  /\ call \in CallType
  /\ slice \in SliceType
  /\ ret \in RetType
  /\ user_bps \subseteq Addr
  /\ hit \in HitType

\* The type invariant is the guest's and run control's.
LEMMA TypeSplit == TypeOK <=> HartTypeOK /\ LoopTypeOK
  BY DEF TypeOK, LoopTypeOK, CallType, SliceType, RetType, HitType

\* The empty records are well typed.
LEMMA EmptyTypes ==
  NoCall \in CallType /\ NoSlice \in SliceType /\ NoRet \in RetType
    /\ NoHit \in HitType
<1>1. 0 \in 0 .. MaxBudget /\ 0 \in 0 .. StepMod - 1
  OBVIOUS
<1> QED
  BY <1>1 DEF NoCall, NoSlice, NoRet, NoHit, CallType, SliceType, RetType,
     HitType, Functions, Statuses

\* The two updates of the report history are well typed.
LEMMA HitTypes ==
  ASSUME HartTypeOK, LoopTypeOK, Reported \/ Executed
  PROVE  hit' \in HitType
<1>1. CASE Reported
  <2>1. pc \in Addr /\ (hit.addr = pc) \in BOOLEAN
    BY DEF HartTypeOK
  <2> QED
    BY <1>1, <2>1 DEF Reported, HitType
<1>2. CASE Executed
  BY <1>2, EmptyTypes DEF Executed, LoopTypeOK
<1> QED
  BY <1>1, <1>2

\* A new slice is well typed.
LEMMA StartSliceType ==
  ASSUME LoopTypeOK, NEW b \in 0 .. MaxBudget, NEW bps, StartSlice(b, bps)
  PROVE  /\ slice' \in SliceType
         /\ resume_past_breakpoint' \in Addr \union {None}
         /\ at' \in Locations
<1>1. slice' = [budget |-> b, executed |-> 0, chunk |-> 0, done |-> 0,
                watch |-> debug_enabled /\ bps # {},
                skip |-> resume_past_breakpoint,
                started |-> step_counter, took_irq |-> FALSE]
  BY DEF StartSlice, NoSlice
<1>2. (debug_enabled /\ bps # {}) \in BOOLEAN
  BY DEF LoopTypeOK
<1>3. slice' \in SliceType
  BY <1>1, <1>2 DEF LoopTypeOK, SliceType
<1> QED
  BY <1>3 DEF StartSlice, Locations

\* Run control starts well typed.
LEMMA InitType == Init => TypeOK
<1> SUFFICES ASSUME Init PROVE HartTypeOK /\ LoopTypeOK
  BY TypeSplit
<1>1. HartTypeOK
  BY GuestInitType DEF Init
<1>2. LoopTypeOK
  <2>1. 0 \in 0 .. StepMod - 1
    OBVIOUS
  <2> QED
    BY <2>1, EmptyTypes DEF Init, LoopTypeOK, Locations
<1> QED
  BY <1>1, <1>2

\* The steps inside run_slice.
LEMMA SliceType1 ==
  ASSUME HartTypeOK, LoopTypeOK,
         OuterStop \/ Poll \/ ChunkDone \/ InnerHalted \/ InnerBreakpoint
           \/ InnerExecute \/ InnerTrap
  PROVE  LoopTypeOK'
<1>0. slice \in SliceType
  BY DEF LoopTypeOK
<1>1. CASE OuterStop
  <2>1. ret' \in RetType /\ at' \in Locations /\ UNCHANGED slice
    BY <1>0, <1>1 DEF OuterStop, EndSlice, RetType, SliceType, Statuses,
       Locations
  <2> QED
    BY <1>1, <2>1 DEF OuterStop, LoopTypeOK, debugVars, hostVars
<1>2. CASE Poll
  <2>1. PICK delay \in Delays, take \in BOOLEAN :
          slice' = [slice EXCEPT
            !.chunk = Smaller(IF delay = 0 THEN DefaultDelay ELSE delay,
                              slice.budget - slice.executed),
            !.done = 0, !.took_irq = slice.took_irq \/ take]
    BY <1>2 DEF Poll
  <2>2. Smaller(IF delay = 0 THEN DefaultDelay ELSE delay,
                slice.budget - slice.executed) \in Nat
    <3>1. slice.executed < slice.budget
      BY <1>2 DEF Poll
    <3>2. slice.executed \in Nat /\ slice.budget \in 0 .. MaxBudget
      BY <1>0 DEF SliceType
    <3> QED
      BY <3>1, <3>2 DEF Smaller
  <2>3. slice' \in SliceType
    BY <1>0, <2>1, <2>2 DEF SliceType
  <2>4. irq_line' \in Irqs \union {0} /\ at' \in Locations
    BY <1>2 DEF Poll, LoopTypeOK, Locations
  <2> QED
    BY <1>2, <2>3, <2>4 DEF Poll, LoopTypeOK, debugVars
<1>3. CASE ChunkDone
  <2>1. slice.executed + slice.done \in Nat
    BY <1>0 DEF SliceType
  <2>2. slice' \in SliceType
    BY <1>0, <1>3, <2>1 DEF ChunkDone, SliceType
  <2> QED
    BY <1>3, <2>2 DEF ChunkDone, LoopTypeOK, debugVars, hostVars, Locations
<1>4. CASE InnerHalted
  <2>1. ret' \in RetType /\ at' \in Locations /\ UNCHANGED slice
    BY <1>0, <1>4 DEF InnerHalted, EndSlice, RetType, SliceType, Statuses,
       Locations
  <2> QED
    BY <1>4, <2>1 DEF InnerHalted, LoopTypeOK, debugVars, hostVars
<1>5. CASE InnerBreakpoint
  <2>1. ret' \in RetType /\ at' \in Locations /\ UNCHANGED slice
    BY <1>0, <1>5 DEF InnerBreakpoint, EndSlice, RetType, SliceType,
       Statuses, Locations
  <2>2. hit' \in HitType
    BY <1>5, HitTypes DEF InnerBreakpoint
  <2>3. resume_past_breakpoint' \in Addr
    BY <1>5 DEF InnerBreakpoint, HartTypeOK
  <2> QED
    BY <1>5, <2>1, <2>2, <2>3 DEF InnerBreakpoint, LoopTypeOK, debugVars,
       hostVars
<1>6. CASE InnerExecute
  <2>1. hit' \in HitType
    BY <1>6, HitTypes DEF InnerExecute
  <2>2. step_counter' \in 0 .. StepMod - 1
    BY <1>6, CounterRange DEF InnerExecute, CountStep, LoopTypeOK
  <2>3. slice.done + 1 \in Nat
    BY <1>0 DEF SliceType
  <2>4. SkipUsed \in Addr \union {None}
    BY <1>0 DEF SkipUsed, SliceType
  <2>5. slice' \in SliceType
    BY <1>0, <1>6, <2>3, <2>4 DEF InnerExecute, SliceType
  <2> QED
    BY <1>6, <2>1, <2>2, <2>5 DEF InnerExecute, LoopTypeOK, debugVars,
       hostVars
<1>7. CASE InnerTrap
  <2>1. ret' \in RetType /\ at' \in Locations /\ UNCHANGED slice
    BY <1>0, <1>7 DEF InnerTrap, EndSlice, RetType, SliceType, Statuses,
       Locations
  <2>2. hit' \in HitType
    BY <1>7, HitTypes DEF InnerTrap
  <2> QED
    BY <1>7, <2>1, <2>2 DEF InnerTrap, LoopTypeOK, debugVars, hostVars
<1> QED
  BY <1>1, <1>2, <1>3, <1>4, <1>5, <1>6, <1>7

\* A single step of the debugger.
LEMMA StepType ==
  ASSUME HartTypeOK, LoopTypeOK, StepInstruction
  PROVE  LoopTypeOK'
<1>1. at' \in Locations /\ call' \in CallType
  BY DEF StepInstruction, Locations, CallType, Functions
<1>2. slice' \in SliceType
  <2>1. 1 \in 0 .. MaxBudget
    OBVIOUS
  <2>2. NoSlice \in SliceType
    BY EmptyTypes
  <2>3. slice' = [NoSlice EXCEPT !.budget = 1, !.started = step_counter,
                                 !.skip = resume_past_breakpoint]
    BY DEF StepInstruction
  <2> QED
    BY <2>1, <2>2, <2>3 DEF SliceType, LoopTypeOK
<1>3. CASE debug_enabled /\ pc \in breakpoints /\ resume_past_breakpoint # pc
  <2>1. /\ resume_past_breakpoint' = pc
        /\ ret' = [status |-> "Breakpoint", steps |-> 0]
        /\ Reported
        /\ UNCHANGED step_counter
    BY <1>3 DEF StepInstruction
  <2>2. ret' \in RetType /\ resume_past_breakpoint' \in Addr
    BY <2>1 DEF RetType, Statuses, HartTypeOK
  <2>3. hit' \in HitType
    BY <2>1, HitTypes
  <2> QED
    BY <1>1, <1>2, <2>1, <2>2, <2>3 DEF StepInstruction, LoopTypeOK,
       debugVars, hostVars
<1>4. CASE ~(debug_enabled /\ pc \in breakpoints
               /\ resume_past_breakpoint # pc)
  <2>1. resume_past_breakpoint' = None
    BY <1>4 DEF StepInstruction
  <2>2. ret' \in RetType
    BY <1>4 DEF StepInstruction, RetType, Statuses
  <2>3. UNCHANGED hit \/ Executed
    BY <1>4 DEF StepInstruction
  <2>4. hit' \in HitType
    BY <2>3, HitTypes DEF LoopTypeOK
  <2>5. UNCHANGED step_counter \/ CountStep
    BY <1>4 DEF StepInstruction
  <2>6. step_counter' \in 0 .. StepMod - 1
    BY <2>5, CounterRange DEF CountStep, LoopTypeOK
  <2> QED
    BY <1>1, <1>2, <2>1, <2>2, <2>4, <2>6 DEF StepInstruction, LoopTypeOK,
       debugVars, hostVars
<1> QED
  BY <1>3, <1>4

\* The call of debug_step_over and debug_step_out on a temporary breakpoint.
LEMMA RunToType ==
  ASSUME LoopTypeOK, NEW fn \in Functions, NEW addr \in Addr,
         RunTo(fn, addr)
  PROVE  LoopTypeOK'
<1>1. MaxBudget \in 0 .. MaxBudget
  OBVIOUS
<1>2. /\ slice' \in SliceType
      /\ resume_past_breakpoint' \in Addr \union {None}
      /\ at' \in Locations
  BY <1>1, StartSliceType, SMTT(30) DEF RunTo
<1>3. call' \in CallType
  <2>1. (addr \in breakpoints) \in BOOLEAN
    OBVIOUS
  <2> QED
    BY <2>1 DEF RunTo, CallType
<1>4. breakpoints' \subseteq Addr
  BY DEF RunTo, LoopTypeOK
<1> QED
  BY <1>2, <1>3, <1>4, EmptyTypes DEF RunTo, LoopTypeOK, hostVars

\* The returns from a slice.
LEMMA ReturnType ==
  ASSUME LoopTypeOK, ReturnSlice \/ ReturnRun \/ ReturnUntil
  PROVE  LoopTypeOK'
<1>0. MaxBudget \in 0 .. MaxBudget
  OBVIOUS
<1>1. EndCall => /\ at' \in Locations
                 /\ call' \in CallType
                 /\ slice' \in SliceType
                 /\ ret' \in RetType
  BY EmptyTypes DEF EndCall, Locations
<1>2. StartSlice(MaxBudget, breakpoints)
        => /\ slice' \in SliceType
           /\ resume_past_breakpoint' \in Addr \union {None}
           /\ at' \in Locations
  BY <1>0, StartSliceType
<1>3. CASE ReturnSlice
  BY <1>1, <1>3 DEF ReturnSlice, LoopTypeOK, debugVars, hostVars
<1>4. CASE ReturnRun
  <2>1. UNCHANGED <<debugVars, hostVars, step_counter, hit>>
    BY <1>4 DEF ReturnRun
  <2>2. CASE EndCall /\ UNCHANGED resume_past_breakpoint
    BY <1>1, <2>1, <2>2 DEF LoopTypeOK, debugVars, hostVars
  <2>3. CASE /\ StartSlice(MaxBudget, breakpoints)
             /\ ret' = NoRet
             /\ UNCHANGED call
    BY <1>2, <2>1, <2>3, EmptyTypes DEF LoopTypeOK, debugVars, hostVars
  <2> QED
    BY <1>4, <2>2, <2>3 DEF ReturnRun
<1>5. CASE ReturnUntil
  <2>1. UNCHANGED <<debug_enabled, user_bps, hostVars, step_counter, hit>>
    BY <1>5 DEF ReturnUntil
  <2>2. breakpoints' \subseteq Addr
    BY <1>5 DEF ReturnUntil, LoopTypeOK
  <2>3. CASE EndCall /\ UNCHANGED resume_past_breakpoint
    BY <1>1, <2>1, <2>2, <2>3 DEF LoopTypeOK, hostVars
  <2>4. CASE /\ StartSlice(MaxBudget, breakpoints)
             /\ ret' = NoRet
             /\ UNCHANGED call
    BY <1>2, <2>1, <2>2, <2>4, EmptyTypes DEF LoopTypeOK, hostVars
  <2> QED
    BY <1>5, <2>3, <2>4 DEF ReturnUntil
<1> QED
  BY <1>3, <1>4, <1>5

\* The calls of the host and the moves of its device.
LEMMA HostType ==
  ASSUME HartTypeOK, LoopTypeOK, Calls \/ Settings \/ Device
  PROVE  LoopTypeOK'
<1>0. MaxBudget \in 0 .. MaxBudget
  OBVIOUS
<1>1. ASSUME NEW b \in Budgets, CallSlice(b) PROVE LoopTypeOK'
  <2>1. b \in 0 .. MaxBudget
    OBVIOUS
  <2>2. call' \in CallType
    BY <1>1 DEF CallSlice, CallType, Functions
  <2>3. /\ slice' \in SliceType
        /\ resume_past_breakpoint' \in Addr \union {None}
        /\ at' \in Locations
    BY <1>1, <2>1, StartSliceType DEF CallSlice
  <2> QED
    BY <1>1, <2>2, <2>3, EmptyTypes DEF CallSlice, LoopTypeOK, debugVars,
       hostVars
<1>2. ASSUME NEW fn \in {"run_full", "run_until_breakpoint"}, CallRun(fn)
      PROVE  LoopTypeOK'
  <2>1. call' \in CallType
    BY <1>2 DEF CallRun, CallType, Functions
  <2>2. /\ slice' \in SliceType
        /\ resume_past_breakpoint' \in Addr \union {None}
        /\ at' \in Locations
    BY <1>0, <1>2, StartSliceType DEF CallRun
  <2> QED
    BY <1>2, <2>1, <2>2, EmptyTypes DEF CallRun, LoopTypeOK, debugVars,
       hostVars
<1>3. CASE DebugStep
  BY <1>3, StepType DEF DebugStep
<1>4. CASE DebugStepOver
  BY <1>4, StepType, RunToType, FetchType DEF DebugStepOver, Functions
<1>5. CASE DebugStepOut
  BY <1>5, RunToType DEF DebugStepOut, Functions, HartTypeOK
<1>6. ASSUME NEW image \in Images, LoadBinary(image) PROVE LoopTypeOK'
  <2>1. 0 \in 0 .. StepMod - 1
    OBVIOUS
  <2> QED
    BY <1>6, <2>1, EmptyTypes DEF LoadBinary, LoopTypeOK, hostVars
<1>7. ASSUME NEW b \in Hooks, SetHasCustomSyscalls(b) PROVE LoopTypeOK'
  BY <1>7 DEF SetHasCustomSyscalls, LoopTypeOK, debugVars, hostVars
<1>8. ASSUME NEW b \in BOOLEAN, SetDebugMode(b) PROVE LoopTypeOK'
  BY <1>8 DEF SetDebugMode, LoopTypeOK, hostVars
<1>9. ASSUME NEW bps \in SUBSET Addr, SetBreakpoints(bps) PROVE LoopTypeOK'
  BY <1>9 DEF SetBreakpoints, LoopTypeOK, hostVars
<1>10. ASSUME NEW v \in RaValues, WriteRegister(v) PROVE LoopTypeOK'
  BY <1>10 DEF WriteRegister, LoopTypeOK, debugVars, hostVars
<1>11. ASSUME NEW a \in PokeAddrs, NEW patch \in Patches,
              WriteMemory(a, patch)
       PROVE  LoopTypeOK'
  BY <1>11 DEF WriteMemory, LoopTypeOK, debugVars, hostVars
<1>12. CASE Calls
  BY <1>1, <1>2, <1>3, <1>4, <1>5, <1>12 DEF Calls
<1>13. CASE Settings
  <2>1. \A a \in BreakAddrs : /\ breakpoints \union {a} \in SUBSET Addr
                              /\ breakpoints \ {a} \in SUBSET Addr
    BY DEF LoopTypeOK
  <2> QED
    BY <1>6, <1>7, <1>8, <1>9, <1>10, <1>11, <1>13, <2>1 DEF Settings
<1>14. CASE Device
  BY <1>14 DEF Device, RaiseIrq, EnableIrqs, LoopTypeOK, debugVars
<1> QED
  BY <1>12, <1>13, <1>14

\* Halted and Trapped are only reported of a halted machine.
LEMMA HaltReportedStep ==
  ASSUME HaltReported, Next
  PROVE  HaltReported'
<1> USE DEF HaltReported
<1>1. CASE OuterStop
  BY <1>1 DEF OuterStop, EndSlice, guestVars, hartVars
<1>2. CASE Poll \/ ChunkDone \/ InnerExecute
  BY <1>2 DEF Poll, ChunkDone, InnerExecute
<1>3. CASE InnerHalted
  BY <1>3 DEF InnerHalted, guestVars, hartVars
<1>4. CASE InnerBreakpoint
  BY <1>4 DEF InnerBreakpoint, EndSlice
<1>5. CASE InnerTrap
  BY <1>5 DEF InnerTrap, Fault
<1>6. CASE ReturnSlice \/ ReturnRun \/ ReturnUntil
  BY <1>6 DEF ReturnSlice, ReturnRun, ReturnUntil, EndCall, StartSlice
<1>7. CASE StepInstruction
  BY <1>7 DEF StepInstruction, hartVars, Fault
<1>8. CASE Calls
  BY <1>7, <1>8 DEF Calls, CallSlice, CallRun, DebugStep, DebugStepOver,
     DebugStepOut, RunTo, StartSlice
<1>9. CASE Settings
  BY <1>9 DEF Settings, LoadBinary, SetHasCustomSyscalls, SetDebugMode,
     SetBreakpoints, WriteRegister, WriteMemory
<1>10. CASE Device
  BY <1>10 DEF Device, RaiseIrq, EnableIrqs, guestVars, hartVars
<1> QED
  BY <1>1, <1>2, <1>3, <1>4, <1>5, <1>6, <1>8, <1>9, <1>10
  DEF Next, Running

\* Types and HaltReported go together: run's `is_halted = true` is a step of
\* the guest only because the machine is halted already.
LEMMA TypeStep ==
  ASSUME TypeOK, HaltReported, [Next]_vars
  PROVE  TypeOK' /\ HaltReported'
<1>0. HartTypeOK /\ LoopTypeOK
  BY TypeSplit
<1>1. HartTypeOK'
  BY <1>0, StepsRefine, GuestNextType
<1>2. CASE Next
  <2>1. LoopTypeOK'
    BY <1>0, <1>2, SliceType1, ReturnType, HostType DEF Next, Running
  <2>2. TypeOK'
    BY <1>1, <2>1, TypeSplit, PTL
  <2> QED
    BY <1>2, <2>2, HaltReportedStep
<1>3. CASE UNCHANGED vars
  BY <1>3 DEF vars, guestVars, hartVars, debugVars, hostVars, TypeOK,
     HartTypeOK, HaltReported
<1> QED
  BY <1>2, <1>3

\* The start state.
LEMMA InitInv == Init => TypeOK /\ HaltReported
  BY InitType DEF Init, HaltReported

\* Run control is always well typed: in particular step_counter keeps its
\* width, the loop counters of run_slice never go below zero, and resume
\* points and temporary breakpoints are addresses.
THEOREM TypeCorrect == Spec => []TypeOK
<1>1. Init => TypeOK /\ HaltReported
  BY InitInv
<1>2. TypeOK /\ HaltReported /\ [Next]_vars => TypeOK' /\ HaltReported'
  BY TypeStep
<1> QED
  BY <1>1, <1>2, PTL DEF Spec

\* Whatever Cpu::run marks as halted was reported halted.
THEOREM HaltIsReported == Spec => []HaltReported
<1>1. Init => TypeOK /\ HaltReported
  BY InitInv
<1>2. TypeOK /\ HaltReported /\ [Next]_vars => TypeOK' /\ HaltReported'
  BY TypeStep
<1> QED
  BY <1>1, <1>2, PTL DEF Spec

\* Run control implements the guest machine: slices, polls, breakpoints,
\* steps and returns change the guest only by whole instructions, enabled
\* interrupts and the host's own writes.
THEOREM RunLoopRefinesGuest == Spec => GuestSpec
<1>1. Init => GuestInit
  BY DEF Init
<1>2. TypeOK /\ HaltReported /\ [Next]_vars => [GuestNext]_guestVars
  BY StepsRefine
<1> QED
  BY <1>1, <1>2, TypeCorrect, HaltIsReported, PTL DEF Spec, GuestSpec

\* A trap always shows as a failure to the caller of run control.
THEOREM TrapAlwaysFailure == Spec => []TrapIsFailure
  BY RunLoopRefinesGuest, TrapShowsAsFailure, PTL

\* Under run control what an interrupt saved is there until its handler
\* returns.
THEOREM InterruptStateAlwaysKept == Spec => []InterruptStateKept
  BY RunLoopRefinesGuest, InterruptKeepsMepc, PTL

-----------------------------------------------------------------------------
(* The budget of a slice.                                                  *)

\* What bounds a slice at each point of run_slice: nothing is uncounted at
\* the loop head, and a chunk fits into what is left of the budget.
BudgetInv ==
  /\ at = "outer" => slice.done = 0 /\ slice.executed <= slice.budget
  /\ at = "inner" => /\ slice.done <= slice.chunk
                     /\ slice.executed + slice.chunk <= slice.budget
  /\ at = "return" => ret.steps <= slice.budget

\* The smaller of two numbers is below both.
LEMMA SmallerBounds ==
  ASSUME NEW a \in Nat, NEW b \in Nat
  PROVE  Smaller(a, b) \in Nat /\ Smaller(a, b) <= a /\ Smaller(a, b) <= b
  BY DEF Smaller

\* Every new slice starts with nothing executed.
LEMMA StartSliceFields ==
  ASSUME NEW b, NEW bps, StartSlice(b, bps)
  PROVE  /\ at' = "outer"
         /\ slice'.budget = b
         /\ slice'.executed = 0
         /\ slice'.done = 0
         /\ slice'.watch = (debug_enabled /\ bps # {})
         /\ slice'.skip = resume_past_breakpoint
         /\ slice'.took_irq = FALSE
         /\ slice'.started = step_counter
         /\ resume_past_breakpoint' = None
<1>1. slice' = [budget |-> b, executed |-> 0, chunk |-> 0, done |-> 0,
                watch |-> debug_enabled /\ bps # {},
                skip |-> resume_past_breakpoint,
                started |-> step_counter, took_irq |-> FALSE]
  BY DEF StartSlice, NoSlice
<1>2. slice'.watch = (debug_enabled /\ bps # {})
  BY <1>1, Zenon
<1>3. /\ slice'.budget = b
      /\ slice'.executed = 0
      /\ slice'.done = 0
      /\ slice'.skip = resume_past_breakpoint
      /\ slice'.took_irq = FALSE
      /\ slice'.started = step_counter
  BY <1>1, Zenon
<1> QED
  BY <1>2, <1>3 DEF StartSlice

\* What the poll does to the locals of run_slice.
LEMMA PollFields ==
  ASSUME LoopTypeOK, Poll
  PROVE  /\ slice'.budget = slice.budget
         /\ slice'.executed = slice.executed
         /\ slice'.done = 0
         /\ slice'.chunk \in Nat
         /\ slice.executed + slice'.chunk <= slice.budget
         /\ slice'.watch = slice.watch
         /\ slice'.skip = slice.skip
         /\ pc' = pc \/ slice'.took_irq = TRUE
         /\ slice.took_irq => slice'.took_irq
         /\ slice'.started = slice.started
<1>0. slice \in SliceType
  BY DEF LoopTypeOK
<1> DEFINE take == irq_enabled /\ interrupts_enabled /\ irq_line # 0
<1>1. PICK delay \in Delays :
        slice' = [slice EXCEPT
          !.chunk = Smaller(IF delay = 0 THEN DefaultDelay ELSE delay,
                            slice.budget - slice.executed),
          !.done = 0, !.took_irq = slice.took_irq \/ take]
  BY DEF Poll
<1> DEFINE chunk == Smaller(IF delay = 0 THEN DefaultDelay ELSE delay,
                            slice.budget - slice.executed)
<1>2. /\ slice'.budget = slice.budget
      /\ slice'.executed = slice.executed
      /\ slice'.done = 0
      /\ slice'.chunk = chunk
      /\ slice'.watch = slice.watch
      /\ slice'.skip = slice.skip
      /\ slice'.took_irq = (slice.took_irq \/ take)
      /\ slice'.started = slice.started
  BY <1>0, <1>1 DEF SliceType
<1>3. chunk \in Nat /\ slice.executed + chunk <= slice.budget
  <2>1. slice.executed < slice.budget
    BY DEF Poll
  <2>2. slice.executed \in Nat /\ slice.budget \in 0 .. MaxBudget
    BY <1>0 DEF SliceType
  <2>3. slice.budget - slice.executed \in Nat
    BY <2>1, <2>2
  <2>4. (IF delay = 0 THEN DefaultDelay ELSE delay) \in Nat
    OBVIOUS
  <2>5. chunk \in Nat /\ chunk <= slice.budget - slice.executed
    BY <2>3, <2>4, SmallerBounds
  <2> QED
    BY <2>2, <2>5
<1>4. ~take => UNCHANGED hartVars
  BY DEF Poll
<1>5. pc' = pc \/ take
  BY <1>4 DEF hartVars
<1> QED
  BY <1>2, <1>3, <1>5

\* What one instruction does to them.
LEMMA ExecuteFields ==
  ASSUME LoopTypeOK, InnerExecute
  PROVE  /\ slice'.budget = slice.budget
         /\ slice'.executed = slice.executed
         /\ slice'.chunk = slice.chunk
         /\ slice'.done = slice.done + 1
         /\ slice'.watch = slice.watch
         /\ slice'.skip = SkipUsed
         /\ slice'.took_irq = slice.took_irq
         /\ slice'.started = slice.started
  BY DEF InnerExecute, LoopTypeOK, SliceType

\* What the end of a chunk does to them.
LEMMA ChunkFields ==
  ASSUME LoopTypeOK, ChunkDone
  PROVE  /\ slice'.budget = slice.budget
         /\ slice'.executed = slice.executed + slice.done
         /\ slice'.done = 0
         /\ slice'.watch = slice.watch
         /\ slice'.skip = slice.skip
         /\ slice'.took_irq = slice.took_irq
         /\ slice'.started = slice.started
  BY DEF ChunkDone, LoopTypeOK, SliceType

\* What a step hands over.
LEMMA StepFields ==
  ASSUME StepInstruction
  PROVE  /\ at' = "return"
         /\ slice'.budget = 1
         /\ slice'.skip = resume_past_breakpoint
         /\ slice'.took_irq = FALSE
         /\ slice'.started = step_counter
<1>1. slice' = [NoSlice EXCEPT !.budget = 1, !.started = step_counter,
                               !.skip = resume_past_breakpoint]
  BY DEF StepInstruction
<1> QED
  BY <1>1 DEF NoSlice, StepInstruction

\* A call by the host or a setting: either a slice starts, or a step is
\* made, or nothing is running.
LEMMA HostShape ==
  ASSUME Calls \/ Settings
  PROVE  /\ at = "idle"
         /\ \/ \E b \in 0 .. MaxBudget : \E bps : StartSlice(b, bps)
            \/ StepInstruction
            \/ at' = "idle"
<1>1. MaxBudget \in 0 .. MaxBudget
  OBVIOUS
<1>2. CASE Calls
  <2>1. ASSUME NEW fn, NEW a, RunTo(fn, a)
        PROVE  \E b \in 0 .. MaxBudget : \E bps : StartSlice(b, bps)
    BY <1>1, <2>1 DEF RunTo
  <2>2. ASSUME NEW b \in Budgets, CallSlice(b)
        PROVE  \E c \in 0 .. MaxBudget : \E bps : StartSlice(c, bps)
    BY <2>2 DEF CallSlice
  <2>3. ASSUME NEW fn, CallRun(fn)
        PROVE  \E b \in 0 .. MaxBudget : \E bps : StartSlice(b, bps)
    BY <1>1, <2>3 DEF CallRun
  <2>4. at = "idle"
    BY <1>2, SMTT(30) DEF Calls, CallSlice, CallRun, DebugStep, DebugStepOver,
       DebugStepOut
  <2> QED
    BY <1>2, <2>1, <2>2, <2>3, <2>4 DEF Calls, DebugStep, DebugStepOver,
       DebugStepOut
<1>3. CASE Settings
  BY <1>3 DEF Settings, LoadBinary, SetHasCustomSyscalls, SetDebugMode,
     SetBreakpoints, WriteRegister, WriteMemory
<1> QED
  BY <1>2, <1>3

\* The budget invariant survives every step.
LEMMA BudgetStep ==
  ASSUME LoopTypeOK, BudgetInv, Next
  PROVE  BudgetInv'
<1>0. /\ slice \in SliceType
      /\ slice.executed \in Nat
      /\ slice.done \in Nat
      /\ slice.chunk \in Nat
      /\ slice.budget \in Nat
  BY DEF LoopTypeOK, SliceType
<1> USE DEF BudgetInv
<1>1. CASE OuterStop
  <2>1. /\ at' = "return"
        /\ ret'.steps = slice.executed
        /\ UNCHANGED slice
    BY <1>1 DEF OuterStop, EndSlice
  <2> QED
    BY <1>1, <2>1 DEF OuterStop
<1>2. CASE Poll
  <2>1. at' = "inner"
    BY <1>2 DEF Poll
  <2>2. /\ slice'.budget = slice.budget
        /\ slice'.executed = slice.executed
        /\ slice'.done = 0
        /\ slice'.chunk \in Nat
        /\ slice.executed + slice'.chunk <= slice.budget
    BY <1>2, PollFields
  <2> QED
    BY <2>1, <2>2
<1>3. CASE ChunkDone
  <2>1. at = "inner" /\ at' = "outer"
    BY <1>3 DEF ChunkDone
  <2> QED
    BY <1>0, <1>3, <2>1, ChunkFields
<1>4. CASE InnerHalted \/ InnerBreakpoint \/ InnerTrap
  <2>1. /\ at = "inner"
        /\ at' = "return"
        /\ ret'.steps = slice.executed + slice.done
        /\ UNCHANGED slice
    BY <1>4 DEF InnerHalted, InnerBreakpoint, InnerTrap, EndSlice
  <2> QED
    BY <1>0, <2>1
<1>5. CASE InnerExecute
  <2>1. at = "inner" /\ at' = "inner" /\ slice.done < slice.chunk
    BY <1>5 DEF InnerExecute
  <2> QED
    BY <1>0, <1>5, <2>1, ExecuteFields
<1>6. ASSUME NEW b \in 0 .. MaxBudget, NEW bps, StartSlice(b, bps)
      PROVE  BudgetInv'
  <2>1. /\ at' = "outer"
        /\ slice'.budget = b
        /\ slice'.executed = 0
        /\ slice'.done = 0
    BY <1>6, StartSliceFields
  <2> QED
    BY <2>1
<1>7. CASE ReturnSlice \/ ReturnRun \/ ReturnUntil
  <2>1. EndCall \/ StartSlice(MaxBudget, breakpoints)
    BY <1>7 DEF ReturnSlice, ReturnRun, ReturnUntil
  <2>2. CASE EndCall
    BY <2>2 DEF EndCall
  <2> QED
    BY <1>6, <2>1, <2>2
<1>8. CASE Calls \/ Settings
  <2>1. CASE StepInstruction
    <3>1. ret'.steps \in {0, 1}
      BY <2>1 DEF StepInstruction
    <3> QED
      BY <2>1, <3>1, StepFields
  <2>2. CASE at' = "idle"
    BY <2>2
  <2> QED
    BY <1>6, <1>8, <2>1, <2>2, HostShape
<1>9. CASE Device
  BY <1>9 DEF Device, RaiseIrq, EnableIrqs
<1> QED
  BY <1>1, <1>2, <1>3, <1>4, <1>5, <1>7, <1>8, <1>9 DEF Next, Running

\* A slice never executes or reports more instructions than its budget,
\* however the poll interval divides it, and a step never more than one.
THEOREM BudgetRespected == Spec => []SliceWithinBudget
<1>1. Init => BudgetInv
  BY DEF Init, BudgetInv
<1>2. TypeOK /\ BudgetInv /\ [Next]_vars => BudgetInv'
  <2> SUFFICES ASSUME TypeOK, BudgetInv, [Next]_vars PROVE BudgetInv'
    OBVIOUS
  <2>1. CASE Next
    BY <2>1, TypeSplit, BudgetStep
  <2>2. CASE UNCHANGED vars
    BY <2>2 DEF vars, BudgetInv
  <2> QED
    BY <2>1, <2>2
<1>3. TypeOK /\ BudgetInv => SliceWithinBudget
  <2> SUFFICES ASSUME TypeOK, BudgetInv PROVE SliceWithinBudget
    OBVIOUS
  <2>1. /\ slice.executed \in Nat
        /\ slice.done \in Nat
        /\ slice.chunk \in Nat
        /\ slice.budget \in Nat
        /\ at \in Locations
    BY DEF TypeOK
  <2> QED
    BY <2>1 DEF BudgetInv, SliceWithinBudget, StepsSoFar, Locations
<1> QED
  BY <1>1, <1>2, <1>3, TypeCorrect, PTL DEF Spec

-----------------------------------------------------------------------------
(* Temporary breakpoints.                                                  *)

\* During a call the breakpoints are the host's and the call's own, and
\* had_bp says whether the two coincide.
TempInv ==
  /\ at = "idle" => breakpoints = user_bps
  /\ at # "idle" => /\ breakpoints = user_bps \union ({call.temp} \ {None})
                    /\ call.had_bp <=> call.temp \in user_bps
                    /\ call.fn \notin {"debug_step_over", "debug_step_out"}
                         => call.temp = None

\* The invariant of temporary breakpoints survives every step.
LEMMA TempStep ==
  ASSUME HartTypeOK, LoopTypeOK, TempInv, Next
  PROVE  TempInv'
<1>0. None \notin user_bps /\ breakpoints \subseteq Addr
  BY NoneIsNoAddr DEF LoopTypeOK
<1> USE DEF TempInv
<1>1. CASE OuterStop \/ Poll \/ ChunkDone \/ InnerHalted \/ InnerBreakpoint
             \/ InnerExecute \/ InnerTrap
  <2>1. at # "idle" /\ at' # "idle" /\ UNCHANGED <<debugVars, call>>
    BY <1>1 DEF OuterStop, Poll, ChunkDone, InnerHalted, InnerBreakpoint,
       InnerExecute, InnerTrap, EndSlice
  <2> QED
    BY <2>1 DEF debugVars
<1>2. CASE ReturnSlice
  <2>1. /\ at = "return"
        /\ at' = "idle"
        /\ call.fn \in {"run_slice", "debug_step"}
        /\ UNCHANGED debugVars
    BY <1>2 DEF ReturnSlice, EndCall
  <2> QED
    BY <2>1 DEF debugVars
<1>3. CASE ReturnRun
  <2>1. /\ at = "return"
        /\ call.fn = "run_full"
        /\ UNCHANGED debugVars
        /\ at' = "idle" \/ (at' = "outer" /\ UNCHANGED call)
    BY <1>3 DEF ReturnRun, EndCall, StartSlice
  <2> QED
    BY <2>1 DEF debugVars
<1>4. CASE ReturnUntil
  <2>1. at = "return" /\ UNCHANGED user_bps
    BY <1>4 DEF ReturnUntil
  <2>2. CASE at' = "outer" /\ UNCHANGED <<breakpoints, call>>
    BY <2>1, <2>2
  <2>3. CASE /\ at' = "idle"
             /\ breakpoints' = IF call.had_bp THEN breakpoints
                                              ELSE breakpoints \ {call.temp}
    <3>1. CASE call.had_bp
      BY <1>0, <2>1, <2>3, <3>1
    <3>2. CASE ~call.had_bp
      BY <1>0, <2>1, <2>3, <3>2
    <3> QED
      BY <3>1, <3>2
  <2> QED
    BY <1>4, <2>2, <2>3 DEF ReturnUntil, EndCall, StartSlice
<1>5. ASSUME NEW b \in Budgets, CallSlice(b) PROVE TempInv'
  <2>1. /\ at = "idle"
        /\ at' = "outer"
        /\ call' = [fn |-> "run_slice", temp |-> None, had_bp |-> FALSE]
        /\ UNCHANGED debugVars
    BY <1>5 DEF CallSlice, StartSlice
  <2> QED
    BY <1>0, <2>1 DEF debugVars
<1>6. ASSUME NEW fn, CallRun(fn) PROVE TempInv'
  <2>1. /\ at = "idle"
        /\ at' = "outer"
        /\ call' = [fn |-> fn, temp |-> None, had_bp |-> FALSE]
        /\ UNCHANGED debugVars
    BY <1>6 DEF CallRun, StartSlice
  <2> QED
    BY <1>0, <2>1 DEF debugVars
<1>7. ASSUME at = "idle", StepInstruction PROVE TempInv'
  <2>1. /\ at' = "return"
        /\ call' = [fn |-> "debug_step", temp |-> None, had_bp |-> FALSE]
        /\ UNCHANGED debugVars
    BY <1>7 DEF StepInstruction
  <2> QED
    BY <1>0, <1>7, <2>1 DEF debugVars
<1>8. ASSUME NEW fn \in {"debug_step_over", "debug_step_out"}, NEW a,
             a # None, at = "idle", RunTo(fn, a)
      PROVE  TempInv'
  <2>1. /\ at' = "outer"
        /\ call'.fn = fn
        /\ call'.temp = a
        /\ call'.had_bp <=> a \in breakpoints
        /\ breakpoints' = breakpoints \union {a}
        /\ UNCHANGED user_bps
    BY <1>8 DEF RunTo, StartSlice
  <2> QED
    BY <1>8, <2>1
<1>9. CASE Settings
  <2>1. ASSUME NEW image \in Images, LoadBinary(image) PROVE TempInv'
    BY <2>1 DEF LoadBinary
  <2>2. ASSUME NEW bps, SetBreakpoints(bps) PROVE TempInv'
    BY <2>2 DEF SetBreakpoints
  <2>3. ASSUME at = "idle", UNCHANGED <<at, breakpoints, user_bps>>
        PROVE  TempInv'
    BY <2>3
  <2> QED
    BY <1>9, <2>1, <2>2, <2>3 DEF Settings, SetHasCustomSyscalls,
       SetDebugMode, WriteRegister, WriteMemory, debugVars
<1>10. CASE Device
  BY <1>10 DEF Device, RaiseIrq, EnableIrqs, debugVars
<1> HIDE DEF TempInv
<1>11. CASE Calls
  <2>1. next_pc # None /\ ra # None
    BY FetchType, NoneIsNoAddr DEF HartTypeOK
  <2> QED
    BY <1>5, <1>6, <1>7, <1>8, <1>11, <2>1 DEF Calls, DebugStep,
       DebugStepOver, DebugStepOut
<1> QED
  BY <1>1, <1>2, <1>3, <1>4, <1>9, <1>10, <1>11 DEF Next, Running

\* Stepping over or out leaves the breakpoint set as the host made it, on
\* every way back to the host.
THEOREM TempBreakpointsAlwaysRemoved == Spec => []TempBreakpointsRemoved
<1>1. Init => TempInv
  BY DEF Init, TempInv
<1>2. TypeOK /\ TempInv /\ [Next]_vars => TempInv'
  <2> SUFFICES ASSUME TypeOK, TempInv, [Next]_vars PROVE TempInv'
    OBVIOUS
  <2>1. CASE Next
    BY <2>1, TypeSplit, TempStep
  <2>2. CASE UNCHANGED vars
    BY <2>2 DEF vars, debugVars, TempInv
  <2> QED
    BY <2>1, <2>2
<1>3. TempInv => TempBreakpointsRemoved
  BY DEF TempInv, TempBreakpointsRemoved
<1> QED
  BY <1>1, <1>2, <1>3, TypeCorrect, PTL DEF Spec

-----------------------------------------------------------------------------
(* Resuming through a reported breakpoint.                                 *)

InLoop == at \in {"outer", "inner"}

\* The resume point is only set between slices, and is the pc; inside a
\* slice it lives on as slice.skip, which is the pc until the slice executes
\* an instruction or takes an interrupt.  Both name a breakpoint that was
\* reported and not executed since.  slice.watch is what the host's debug
\* settings say throughout the slice.
ResumeInv ==
  /\ InLoop => resume_past_breakpoint = None
  /\ resume_past_breakpoint # None => /\ resume_past_breakpoint = pc
                                      /\ hit.addr = pc
  /\ InLoop /\ slice.executed + slice.done = 0 /\ ~slice.took_irq
       => slice.skip \in {None, pc}
  /\ InLoop /\ slice.watch /\ slice.skip # None => hit.addr = slice.skip
  /\ InLoop => (slice.watch <=> debug_enabled /\ breakpoints # {})

\* A slice that starts between slices takes over the resume point.
LEMMA ResumeStart ==
  ASSUME ResumeInv, NEW b, NEW bps, StartSlice(b, bps), bps = breakpoints',
         UNCHANGED <<pc, hit, debug_enabled>>
  PROVE  ResumeInv'
<1>1. /\ at' = "outer"
      /\ slice'.watch = (debug_enabled /\ bps # {})
      /\ slice'.skip = resume_past_breakpoint
      /\ resume_past_breakpoint' = None
  BY StartSliceFields
<1> QED
  BY <1>1 DEF ResumeInv, InLoop

\* A step takes it over too, or sets it.
LEMMA ResumeStepInstruction ==
  ASSUME ResumeInv, StepInstruction
  PROVE  ResumeInv'
<1>1. at' = "return"
  BY DEF StepInstruction
<1>2. \/ resume_past_breakpoint' = None
      \/ /\ resume_past_breakpoint' = pc
         /\ hit'.addr = pc
         /\ UNCHANGED hartVars
  BY DEF StepInstruction, Reported
<1> QED
  BY <1>1, <1>2 DEF ResumeInv, InLoop, hartVars

\* The resume invariant survives the steps inside run_slice.
LEMMA ResumeSlice ==
  ASSUME LoopTypeOK, BudgetInv, ResumeInv,
         OuterStop \/ Poll \/ ChunkDone \/ InnerHalted \/ InnerBreakpoint
           \/ InnerExecute \/ InnerTrap
  PROVE  ResumeInv'
<1>0. slice.executed \in Nat /\ slice.done \in Nat
  BY DEF LoopTypeOK, SliceType
<1>1. CASE OuterStop \/ InnerHalted
  <2>1. /\ InLoop
        /\ at' = "return"
        /\ UNCHANGED resume_past_breakpoint
    BY <1>1 DEF OuterStop, InnerHalted, EndSlice, InLoop
  <2> QED
    BY <2>1 DEF ResumeInv, InLoop
<1>2. CASE Poll
  <2>1. /\ at = "outer"
        /\ at' = "inner"
        /\ UNCHANGED <<resume_past_breakpoint, hit, debugVars>>
    BY <1>2 DEF Poll
  <2>2. slice.done = 0
    BY <2>1 DEF BudgetInv
  <2>3. /\ slice'.executed = slice.executed
        /\ slice'.done = 0
        /\ slice'.watch = slice.watch
        /\ slice'.skip = slice.skip
        /\ pc' = pc \/ slice'.took_irq = TRUE
        /\ slice.took_irq => slice'.took_irq
    BY <1>2, PollFields
  <2> QED
    BY <2>1, <2>2, <2>3 DEF ResumeInv, InLoop, debugVars
<1>3. CASE ChunkDone
  <2>1. /\ at = "inner"
        /\ at' = "outer"
        /\ UNCHANGED <<resume_past_breakpoint, hit, debugVars, pc>>
    BY <1>3 DEF ChunkDone, guestVars, hartVars
  <2>2. /\ slice'.executed + slice'.done = slice.executed + slice.done
        /\ slice'.watch = slice.watch
        /\ slice'.skip = slice.skip
        /\ slice'.took_irq = slice.took_irq
    BY <1>0, <1>3, ChunkFields
  <2> QED
    BY <2>1, <2>2 DEF ResumeInv, InLoop, debugVars
<1>4. CASE InnerBreakpoint
  <2>1. /\ at' = "return"
        /\ resume_past_breakpoint' = pc
        /\ hit'.addr = pc
        /\ pc' = pc
    BY <1>4 DEF InnerBreakpoint, EndSlice, Reported, guestVars, hartVars
  <2> QED
    BY <2>1 DEF ResumeInv, InLoop
<1>5. CASE InnerExecute
  <2>1. /\ at = "inner"
        /\ at' = "inner"
        /\ UNCHANGED <<resume_past_breakpoint, debugVars>>
    BY <1>5 DEF InnerExecute
  <2>2. /\ slice'.executed + slice'.done # 0
        /\ slice'.watch = slice.watch
        /\ slice'.watch => slice'.skip = None
    BY <1>0, <1>5, ExecuteFields DEF SkipUsed
  <2> QED
    BY <2>1, <2>2 DEF ResumeInv, InLoop, debugVars
<1>6. CASE InnerTrap
  <2>1. /\ at = "inner"
        /\ at' = "return"
        /\ UNCHANGED resume_past_breakpoint
    BY <1>6 DEF InnerTrap, EndSlice
  <2> QED
    BY <2>1 DEF ResumeInv, InLoop
<1> QED
  BY <1>1, <1>2, <1>3, <1>4, <1>5, <1>6

\* It survives the calls of the host, the returns and the device.
LEMMA ResumeHost ==
  ASSUME ResumeInv,
         ReturnSlice \/ ReturnRun \/ ReturnUntil \/ Calls \/ Settings
           \/ Device
  PROVE  ResumeInv'
<1>1. ASSUME at' = "idle", UNCHANGED <<resume_past_breakpoint, pc, hit>>
      PROVE  ResumeInv'
  BY <1>1 DEF ResumeInv, InLoop
<1>2. CASE ReturnSlice
  BY <1>1, <1>2 DEF ReturnSlice, EndCall, guestVars, hartVars
<1>3. CASE ReturnRun
  <2>1. UNCHANGED <<pc, hit, debugVars>>
    BY <1>3 DEF ReturnRun
  <2>2. \/ at' = "idle" /\ UNCHANGED resume_past_breakpoint
        \/ StartSlice(MaxBudget, breakpoints)
    BY <1>3 DEF ReturnRun, EndCall
  <2> QED
    BY <1>1, <2>1, <2>2, ResumeStart DEF debugVars
<1>4. CASE ReturnUntil
  <2>1. UNCHANGED <<pc, hit, debug_enabled>>
    BY <1>4 DEF ReturnUntil, guestVars, hartVars
  <2>2. \/ at' = "idle" /\ UNCHANGED resume_past_breakpoint
        \/ StartSlice(MaxBudget, breakpoints) /\ UNCHANGED breakpoints
    BY <1>4 DEF ReturnUntil, EndCall
  <2> QED
    BY <1>1, <2>1, <2>2, ResumeStart
<1>5. CASE Calls
  <2>1. ASSUME NEW b \in Budgets, CallSlice(b) PROVE ResumeInv'
    BY <2>1, ResumeStart DEF CallSlice, guestVars, hartVars, debugVars
  <2>2. ASSUME NEW fn, CallRun(fn) PROVE ResumeInv'
    BY <2>2, ResumeStart DEF CallRun, guestVars, hartVars, debugVars
  <2>3. ASSUME NEW fn, NEW a, RunTo(fn, a) PROVE ResumeInv'
    BY <2>3, ResumeStart DEF RunTo, guestVars, hartVars
  <2> QED
    BY <1>5, <2>1, <2>2, <2>3, ResumeStepInstruction DEF Calls, DebugStep,
       DebugStepOver, DebugStepOut
<1>6. CASE Settings
  <2>1. ASSUME NEW image \in Images, LoadBinary(image) PROVE ResumeInv'
    BY <2>1 DEF LoadBinary, ResumeInv, InLoop
  <2>2. ASSUME ~\E image \in Images : LoadBinary(image) PROVE ResumeInv'
    BY <1>1, <1>6, <2>2 DEF Settings, SetHasCustomSyscalls, SetDebugMode,
       SetBreakpoints, WriteRegister, WriteMemory, SetHook, PokeRa,
       PokeMemory, guestVars, hartVars
  <2> QED
    BY <2>1, <2>2
<1>7. CASE Device
  BY <1>7 DEF Device, RaiseIrq, EnableIrqs, ResumeInv, InLoop, debugVars,
     guestVars, hartVars
<1> QED
  BY <1>2, <1>3, <1>4, <1>5, <1>6, <1>7

\* The budget and resume invariants, which the proofs below start from.
LEMMA SliceInvariant == Spec => [](BudgetInv /\ ResumeInv)
<1>1. Init => BudgetInv /\ ResumeInv
  BY DEF Init, BudgetInv, ResumeInv, InLoop
<1>2. TypeOK /\ BudgetInv /\ ResumeInv /\ [Next]_vars
        => BudgetInv' /\ ResumeInv'
  <2> SUFFICES ASSUME TypeOK, BudgetInv, ResumeInv, [Next]_vars
               PROVE  BudgetInv' /\ ResumeInv'
    OBVIOUS
  <2>1. CASE Next
    <3>1. LoopTypeOK
      BY TypeSplit
    <3>2. ResumeInv'
      BY <2>1, <3>1, ResumeSlice, ResumeHost, SMTT(30) DEF Next, Running
    <3> QED
      BY <2>1, <3>1, <3>2, BudgetStep
  <2>2. CASE UNCHANGED vars
    BY <2>2 DEF vars, guestVars, hartVars, debugVars, BudgetInv, ResumeInv,
       InLoop
  <2> QED
    BY <2>1, <2>2
<1> QED
  BY <1>1, <1>2, TypeCorrect, PTL DEF Spec

\* The resume point a call leaves behind is the pc.
THEOREM ResumePointAlwaysPc == Spec => []ResumePointIsPc
<1>1. ResumeInv => ResumePointIsPc
  BY DEF ResumeInv, ResumePointIsPc
<1> QED
  BY <1>1, SliceInvariant, PTL

\* What a slice or a step reports, as it reports it.
LEMMA OutcomeStep ==
  ASSUME TypeOK, BudgetInv, ResumeInv, StatusTruthful, ContinueMakesProgress,
         Next
  PROVE  StatusTruthful' /\ ContinueMakesProgress'
<1> USE DEF StatusTruthful, ContinueMakesProgress
<1>0. /\ LoopTypeOK
      /\ slice.executed \in Nat
      /\ slice.budget \in Nat
      /\ pc # None
  BY TypeSplit, NoneIsNoAddr DEF LoopTypeOK, SliceType, HartTypeOK
<1>1. CASE OuterStop
  <2>1. /\ at = "outer"
        /\ UNCHANGED <<is_halted, slice>>
        /\ \/ is_halted /\ ret' = [status |-> "Halted", steps |-> slice.executed]
           \/ /\ ~is_halted
              /\ slice.executed >= slice.budget
              /\ ret' = [status |-> "Running", steps |-> slice.executed]
    BY <1>1 DEF OuterStop, EndSlice, guestVars, hartVars
  <2>2. slice.executed <= slice.budget
    BY <2>1 DEF BudgetInv
  <2> QED
    BY <1>0, <2>1, <2>2
<1>2. CASE InnerHalted
  <2>1. is_halted' /\ ret'.status = "Halted"
    BY <1>2 DEF InnerHalted, EndSlice, guestVars, hartVars
  <2> QED
    BY <2>1
<1>3. CASE InnerBreakpoint
  <2>1. /\ at = "inner"
        /\ ~is_halted'
        /\ slice.watch
        /\ pc \in breakpoints
        /\ slice.skip # pc
        /\ ret' = [status |-> "Breakpoint",
                   steps |-> slice.executed + slice.done]
        /\ UNCHANGED <<pc, breakpoints, debug_enabled, slice>>
    BY <1>3 DEF InnerBreakpoint, EndSlice, StopsHere, guestVars, hartVars,
       debugVars
  <2>2. debug_enabled
    BY <2>1 DEF ResumeInv, InLoop
  <2>3. slice.executed + slice.done = 0 /\ ~slice.took_irq
          => slice.skip = None
    BY <2>1 DEF ResumeInv, InLoop
  <2> QED
    BY <2>1, <2>2, <2>3
<1>4. CASE InnerTrap
  <2>1. is_halted' /\ trapped' /\ ret'.status = "Trapped"
    BY <1>4 DEF InnerTrap, EndSlice, Fault
  <2> QED
    BY <2>1
<1>5. CASE StepInstruction
  <2>1. CASE debug_enabled /\ pc \in breakpoints
               /\ resume_past_breakpoint # pc
    <3>1. /\ ret'.status = "Breakpoint"
          /\ call'.fn = "debug_step"
          /\ UNCHANGED <<pc, debugVars>>
      BY <1>5, <2>1 DEF StepInstruction, hartVars
    <3>2. slice'.skip = None
      BY <1>5, <2>1, StepFields DEF ResumeInv
    <3> QED
      BY <2>1, <3>1, <3>2 DEF debugVars
  <2>2. CASE ~(debug_enabled /\ pc \in breakpoints
                 /\ resume_past_breakpoint # pc)
    <3>1. \/ is_halted' /\ ret'.status = "Halted"
          \/ is_halted' /\ trapped' /\ ret'.status = "Trapped"
          \/ ~is_halted' /\ ret'.status = "Ok" /\ ret'.steps = 1
      BY <1>5, <2>2 DEF StepInstruction, hartVars, Fault
    <3>2. slice'.budget = 1
      BY <1>5, StepFields, SMTT(30)
    <3> QED
      BY <3>1, <3>2
  <2> QED
    BY <2>1, <2>2
<1>6. CASE Device
  BY <1>6 DEF Device, RaiseIrq, EnableIrqs, guestVars, hartVars, debugVars
<1>7. ASSUME at' # "return" PROVE StatusTruthful' /\ ContinueMakesProgress'
  BY <1>7
<1>8. CASE Poll \/ ChunkDone \/ InnerExecute
  BY <1>7, <1>8 DEF Poll, ChunkDone, InnerExecute
<1>9. CASE ReturnSlice \/ ReturnRun \/ ReturnUntil
  BY <1>7, <1>9 DEF ReturnSlice, ReturnRun, ReturnUntil, EndCall, StartSlice
<1>10. CASE Calls \/ Settings
  BY <1>5, <1>7, <1>10, HostShape DEF StartSlice
<1> QED
  BY <1>1, <1>2, <1>3, <1>4, <1>6, <1>8, <1>9, <1>10 DEF Next, Running

\* Both properties of outcomes are proved together.
LEMMA OutcomesHold == Spec => [](StatusTruthful /\ ContinueMakesProgress)
<1>1. Init => StatusTruthful /\ ContinueMakesProgress
  BY DEF Init, StatusTruthful, ContinueMakesProgress
<1>2. /\ TypeOK /\ BudgetInv /\ ResumeInv
      /\ StatusTruthful /\ ContinueMakesProgress
      /\ [Next]_vars
      => StatusTruthful' /\ ContinueMakesProgress'
  <2> SUFFICES ASSUME TypeOK, BudgetInv, ResumeInv, StatusTruthful,
                      ContinueMakesProgress, [Next]_vars
               PROVE  StatusTruthful' /\ ContinueMakesProgress'
    OBVIOUS
  <2>1. CASE Next
    BY <2>1, OutcomeStep
  <2>2. CASE UNCHANGED vars
    BY <2>2 DEF vars, guestVars, hartVars, debugVars, StatusTruthful,
       ContinueMakesProgress
  <2> QED
    BY <2>1, <2>2
<1> QED
  BY <1>1, <1>2, TypeCorrect, SliceInvariant, PTL DEF Spec

\* The status a slice or a step reports describes the machine it leaves.
THEOREM StatusAlwaysTruthful == Spec => []StatusTruthful
  BY OutcomesHold, PTL

\* A continue from a reported breakpoint makes progress unless an interrupt
\* is taken.
THEOREM ContinueAlwaysProgresses == Spec => []ContinueMakesProgress
  BY OutcomesHold, PTL

-----------------------------------------------------------------------------
(* What no step does.                                                      *)

\* The instruction counter moves in three places.
LEMMA CounterMoves ==
  ASSUME Next, step_counter' # step_counter
  PROVE  \/ InnerExecute
         \/ /\ StepInstruction
            /\ ~is_halted
            /\ ~(debug_enabled /\ pc \in breakpoints
                   /\ resume_past_breakpoint # pc)
         \/ \E image \in Images : LoadBinary(image)
<1>1. CASE Running
  BY <1>1 DEF Running, OuterStop, Poll, ChunkDone, InnerHalted,
     InnerBreakpoint, InnerTrap, ReturnSlice, ReturnRun, ReturnUntil
<1>2. CASE StepInstruction
  BY <1>2, SMTT(30) DEF StepInstruction
<1>3. CASE Calls
  BY <1>2, <1>3 DEF Calls, CallSlice, CallRun, DebugStep, DebugStepOver,
     DebugStepOut, RunTo
<1>4. CASE Settings
  BY <1>4 DEF Settings, SetHasCustomSyscalls, SetDebugMode, SetBreakpoints,
     WriteRegister, WriteMemory
<1>5. CASE Device
  BY <1>5 DEF Device, RaiseIrq, EnableIrqs
<1> QED
  BY <1>1, <1>3, <1>4, <1>5 DEF Next

\* No instruction at an active breakpoint executes without a report of the
\* breakpoint since it last executed.
THEOREM NoBreakpointMissed == Spec => NoMissedBreakpoint
<1>1. TypeOK /\ ResumeInv /\ [Next]_vars
        => [step_counter' # step_counter /\ debug_enabled'
              /\ pc \in breakpoints => hit.addr = pc]_vars
  <2> SUFFICES ASSUME TypeOK, ResumeInv, Next, step_counter' # step_counter,
                      debug_enabled', pc \in breakpoints
               PROVE  hit.addr = pc
    OBVIOUS
  <2>0. pc # None
    BY NoneIsNoAddr DEF TypeOK, HartTypeOK
  <2>1. CASE InnerExecute
    <3>1. at = "inner" /\ ~StopsHere /\ UNCHANGED debug_enabled
      BY <2>1 DEF InnerExecute, debugVars
    <3>2. slice.watch
      BY <3>1 DEF ResumeInv, InLoop
    <3>3. slice.skip = pc
      BY <3>1, <3>2 DEF StopsHere
    <3> QED
      BY <2>0, <3>1, <3>2, <3>3 DEF ResumeInv, InLoop
  <2>2. CASE /\ StepInstruction
             /\ ~(debug_enabled /\ pc \in breakpoints
                    /\ resume_past_breakpoint # pc)
    <3>1. UNCHANGED debug_enabled
      BY <2>2 DEF StepInstruction, debugVars
    <3> QED
      BY <2>0, <2>2, <3>1 DEF ResumeInv
  <2>3. CASE \E image \in Images : LoadBinary(image)
    BY <2>3 DEF LoadBinary
  <2> QED
    BY <2>1, <2>2, <2>3, CounterMoves
<1> QED
  BY <1>1, TypeCorrect, SliceInvariant, PTL DEF Spec, NoMissedBreakpoint

\* A halted machine stays as it is until a binary is loaded.
THEOREM HaltAlwaysFinal == Spec => HaltIsFinal
<1>1. TypeOK /\ HaltReported /\ [Next]_vars
        => [is_halted /\ is_halted' =>
              UNCHANGED <<pc, csr, exit_code, trapped, step_counter>>]_vars
  <2> SUFFICES ASSUME TypeOK, HaltReported, Next, is_halted, is_halted'
               PROVE  UNCHANGED <<pc, csr, exit_code, trapped, step_counter>>
    OBVIOUS
  <2>1. ASSUME NEW image \in Images PROVE ~ResetHart(image)
    BY DEF ResetHart
  <2>2. UNCHANGED <<pc, csr, exit_code, trapped>>
    <3>1. [GuestNext]_guestVars
      BY StepsRefine
    <3> QED
      BY <2>1, <3>1 DEF GuestNext, PokeRa, PokeMemory, SetHook, guestVars,
         hartVars
  <2>3. UNCHANGED step_counter
    BY <2>1, CounterMoves DEF InnerExecute, LoadBinary
  <2> QED
    BY <2>2, <2>3
<1> QED
  BY <1>1, TypeCorrect, HaltIsReported, PTL DEF Spec, HaltIsFinal

-----------------------------------------------------------------------------
(* Every instruction is counted.                                           *)

\* A number in range is its own remainder.
LEMMA ModSmall ==
  ASSUME NEW c \in 0 .. StepMod - 1
  PROVE  (c + 0) % StepMod = c
  BY SMT

\* A quotient and a remainder in range are the ones of division.
LEMMA ModUnique ==
  ASSUME NEW q \in Nat, NEW r \in 0 .. StepMod - 1
  PROVE  (StepMod * q + r) % StepMod = r
  BY SMT

\* A counter that wraps may be incremented before or after it wraps.
LEMMA ModSucc ==
  ASSUME NEW n \in Nat
  PROVE  ((n % StepMod) + 1) % StepMod = (n + 1) % StepMod
<1> DEFINE q == n \div StepMod
           r == n % StepMod
<1>1. n = StepMod * q + r /\ r \in 0 .. StepMod - 1 /\ q \in Nat
  BY SMT
<1> HIDE DEF q, r
<1>2. CASE r + 1 < StepMod
  <2>1. n + 1 = StepMod * q + (r + 1) /\ r + 1 \in 0 .. StepMod - 1
    BY <1>1, <1>2
  <2>2. (n + 1) % StepMod = r + 1
    BY <1>1, <2>1, ModUnique
  <2>3. (r + 1) % StepMod = r + 1
    BY <2>1
  <2> QED
    BY <2>2, <2>3 DEF r
<1>3. CASE r + 1 = StepMod
  <2>1. n + 1 = StepMod * (q + 1) + 0 /\ q + 1 \in Nat
    BY <1>1, <1>3
  <2>2. (n + 1) % StepMod = 0
    BY <2>1, ModUnique, SMTT(30)
  <2>3. (r + 1) % StepMod = 0
    BY <1>3
  <2> QED
    BY <2>2, <2>3 DEF r
<1> QED
  BY <1>1, <1>2, <1>3

\* step_counter keeps up with the count of the slice in every step.
LEMMA AccountStep ==
  ASSUME LoopTypeOK, BudgetInv, StepsAccounted, Next
  PROVE  StepsAccounted'
<1>0. /\ slice.executed \in Nat /\ slice.done \in Nat
      /\ slice.started \in 0 .. StepMod - 1
      /\ step_counter \in 0 .. StepMod - 1
  BY DEF LoopTypeOK, SliceType
<1> USE DEF StepsAccounted, StepsSoFar
<1>1. CASE OuterStop
  <2>1. /\ at = "outer" /\ at' = "return" /\ ret'.steps = slice.executed
        /\ UNCHANGED <<slice, step_counter>>
    BY <1>1 DEF OuterStop, EndSlice
  <2>2. slice.executed = slice.executed + slice.done
    BY <1>0, <2>1, SMTT(30) DEF BudgetInv
  <2> QED
    BY <2>1, <2>2
<1>2. CASE Poll
  <2>1. at = "outer" /\ at' = "inner" /\ UNCHANGED step_counter
    BY <1>2 DEF Poll
  <2>2. slice.done = 0 /\ slice'.done = 0
    BY <1>2, <2>1, PollFields DEF BudgetInv
  <2> QED
    BY <1>2, <2>1, <2>2, PollFields
<1>3. CASE ChunkDone
  <2>1. at = "inner" /\ at' = "outer" /\ UNCHANGED step_counter
    BY <1>3 DEF ChunkDone
  <2>2. slice'.executed + slice'.done = slice.executed + slice.done
    BY <1>0, <1>3, ChunkFields
  <2>3. slice'.started = slice.started
    BY <1>3, ChunkFields
  <2> QED
    BY <2>1, <2>2, <2>3
<1>4. CASE InnerHalted \/ InnerBreakpoint \/ InnerTrap
  <2>1. /\ at = "inner" /\ at' = "return"
        /\ ret'.steps = slice.executed + slice.done
        /\ UNCHANGED <<slice, step_counter>>
    BY <1>4 DEF InnerHalted, InnerBreakpoint, InnerTrap, EndSlice
  <2> QED
    BY <2>1
<1>5. CASE InnerExecute
  <2> DEFINE n == slice.started + (slice.executed + slice.done)
  <2>1. at = "inner" /\ at' = "inner"
        /\ step_counter' = (step_counter + 1) % StepMod
    BY <1>5 DEF InnerExecute, CountStep
  <2>2. step_counter = n % StepMod /\ n \in Nat
    BY <1>0, <2>1
  <2>3. slice'.started + (slice'.executed + slice'.done) = n + 1
    BY <1>0, <1>5, ExecuteFields
  <2> HIDE DEF n
  <2>4. step_counter' = (n + 1) % StepMod
    BY <2>1, <2>2, ModSucc
  <2> QED
    BY <2>1, <2>3, <2>4
<1>6. ASSUME NEW b \in 0 .. MaxBudget, NEW bps, StartSlice(b, bps),
             UNCHANGED step_counter
      PROVE  StepsAccounted'
  <2>1. /\ at' = "outer" /\ slice'.executed = 0 /\ slice'.done = 0
        /\ slice'.started = step_counter
    BY <1>6, StartSliceFields
  <2>2. slice'.executed + slice'.done = 0
    BY <2>1
  <2> QED
    BY <1>0, <1>6, <2>1, <2>2, ModSmall
<1>7. CASE ReturnSlice \/ ReturnRun \/ ReturnUntil
  <2>1. EndCall \/ StartSlice(MaxBudget, breakpoints)
    BY <1>7 DEF ReturnSlice, ReturnRun, ReturnUntil
  <2>2. UNCHANGED step_counter
    BY <1>7 DEF ReturnSlice, ReturnRun, ReturnUntil
  <2>3. CASE EndCall
    BY <2>3 DEF EndCall
  <2>4. MaxBudget \in 0 .. MaxBudget
    OBVIOUS
  <2> QED
    BY <1>6, <2>1, <2>2, <2>3, <2>4
<1>8. CASE StepInstruction
  <2>1. \/ ret'.steps = 0 /\ UNCHANGED step_counter
        \/ ret'.steps = 1 /\ step_counter' = (step_counter + 1) % StepMod
    BY <1>8 DEF StepInstruction, CountStep
  <2>2. at' = "return" /\ slice'.started = step_counter
    BY <1>8, StepFields
  <2> QED
    BY <1>0, <2>1, <2>2, ModSmall
<1>9. CASE Calls \/ Settings
  <2>1. \/ at' = "idle" \/ StepInstruction
        \/ UNCHANGED step_counter
    BY <1>9 DEF Calls, CallSlice, CallRun, DebugStep, DebugStepOver,
       DebugStepOut, RunTo, Settings, LoadBinary, SetHasCustomSyscalls,
       SetDebugMode, SetBreakpoints, WriteRegister, WriteMemory
  <2> QED
    BY <1>6, <1>8, <1>9, <2>1, HostShape
<1>10. CASE Device
  BY <1>10 DEF Device, RaiseIrq, EnableIrqs
<1> QED
  BY <1>1, <1>2, <1>3, <1>4, <1>5, <1>7, <1>9, <1>10 DEF Next, Running

\* The steps every slice and every step report are those step_counter moved
\* by, for every width of the counter.
THEOREM EveryStepCounted == Spec => []StepsAccounted
<1>1. Init => StepsAccounted
  BY DEF Init, StepsAccounted
<1>2. TypeOK /\ BudgetInv /\ StepsAccounted /\ [Next]_vars => StepsAccounted'
  <2> SUFFICES ASSUME TypeOK, BudgetInv, StepsAccounted, [Next]_vars
               PROVE  StepsAccounted'
    OBVIOUS
  <2>1. CASE Next
    BY <2>1, TypeSplit, AccountStep
  <2>2. CASE UNCHANGED vars
    BY <2>2 DEF vars, StepsAccounted, StepsSoFar
  <2> QED
    BY <2>1, <2>2
<1> QED
  BY <1>1, <1>2, TypeCorrect, SliceInvariant, PTL DEF Spec
=============================================================================
