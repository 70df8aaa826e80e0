SPECIFICATION Spec
CONSTANTS
  AddrSpace = 6
  Images <- ControlImages
  Patches <- ExitPatch
  Irqs = {}
  None = None
  BreakAddrs = {2, 4, 5}
  PokeAddrs = {2}
  RaValues = {1}
  Hooks = {TRUE, FALSE}
  Budgets = {0, 1, 3}
  MaxBudget = 3
  Delays = {1, 9}
  DefaultDelay = 2
  StepMod = 3
INVARIANTS
  TypeOK
  SliceWithinBudget
  StepsAccounted
  StatusTruthful
  ResumePointIsPc
  TempBreakpointsRemoved
  TrapIsFailure
PROPERTIES
  NoMissedBreakpoint
  HaltIsFinal
  GuestSpec
