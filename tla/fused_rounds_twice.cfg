\* FMADD rounds the product and then the sum.
SPECIFICATION Spec
CONSTANTS
  Width = 6
  HalfWidth = 4
  ByteWidth = 2
  Single <- MCSingle
  Double <- MCDouble
  Regs = {0, 1, 2, 3, 4}
  FRegs = {1, 2, 3, 4}
  Cells = {4, 8}
  Csrs = {0}
  Tasks <- FusedTasks
  Transfers = {}
INVARIANT FusedRoundsOnce
CHECK_DEADLOCK FALSE
