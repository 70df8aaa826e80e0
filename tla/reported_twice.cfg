SPECIFICATION Spec
CONSTANTS
  AddrSpace = 6
  Images <- LoopImages
  Patches = {}
  Irqs = {}
  None = None
  BreakAddrs = {2}
  PokeAddrs = {}
  RaValues = {}
  Hooks = {}
  Budgets = {0, 3}
  MaxBudget = 3
  Delays = {2}
  DefaultDelay = 2
  StepMod = 1
INVARIANTS
  BreakpointReportedOnce
