SPECIFICATION Spec
CONSTANTS
  AddrSpace = 5
  Images <- ZeroImages
  Patches = {}
  Irqs = {1}
  None = None
  BreakAddrs = {}
  PokeAddrs = {}
  RaValues = {}
  Hooks = {}
  Budgets = {3}
  MaxBudget = 3
  Delays = {2}
  DefaultDelay = 2
  StepMod = 1
PROPERTIES
  MretReturnsToMepc
