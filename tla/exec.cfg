\* What instructions compute, on words of six bits.  A program ends when the
\* pc leaves it.
SPECIFICATION Spec
CONSTANTS
  Width = 6
  HalfWidth = 4
  ByteWidth = 2
  Single <- MCSingle
  Double <- MCDouble
  Regs = {0, 1, 2, 3, 4}
  FRegs = {1, 2, 3, 4}
  Cells = {4, 8}
  Csrs = {0}
  Tasks <- AllTasks
  Transfers <- Copies
INVARIANTS
  TypeOK
  PairsExact
  SequencesAgree
  OperandsReadFirst
  NoLostUpdate
  FloatsKept
  FormatsAgree
  NaNsCanonical
CHECK_DEADLOCK FALSE
