SPECIFICATION FairSpec
CONSTANTS
  AddrSpace = 7
  Images <- InterruptImages
  Patches = {}
  Irqs = {1}
  None = None
  BreakAddrs = {2, 4}
  PokeAddrs = {}
  RaValues = {}
  Hooks = {}
  Budgets = {0, 2}
  MaxBudget = 3
  Delays = {0, 1}
  DefaultDelay = 2
  StepMod = 2
INVARIANTS
  InterruptStateKept
  ContinueMakesProgress
PROPERTIES
  NoMissedBreakpoint
  GuestSpec
  SliceReturns
  InterruptIsPolled
  RunFullReturns
