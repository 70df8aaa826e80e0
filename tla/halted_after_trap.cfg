SPECIFICATION Spec
CONSTANTS
  AddrSpace = 6
  Images <- ControlImages
  Patches = {}
  Irqs = {}
  None = None
  BreakAddrs = {}
  PokeAddrs = {}
  RaValues = {}
  Hooks = {}
  Budgets = {3}
  MaxBudget = 3
  Delays = {2}
  DefaultDelay = 2
  StepMod = 1
INVARIANTS
  HaltedIsNotATrap
