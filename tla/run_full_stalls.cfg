SPECIFICATION FairSpec
CONSTANTS
  AddrSpace = 5
  Images <- EndingImages
  Patches = {}
  Irqs = {1}
  None = None
  BreakAddrs = {2}
  PokeAddrs = {}
  RaValues = {}
  Hooks = {}
  Budgets = {}
  MaxBudget = 3
  Delays = {2}
  DefaultDelay = 2
  StepMod = 1
PROPERTIES
  BreakpointDoesNotStall
