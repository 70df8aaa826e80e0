\* The disassembler, the executor and the call test on all 49152 compressed
\* halfwords and on about fifty thousand words.  Both readers are done after
\* one step, so the behaviours end.
SPECIFICATION Spec
CONSTANT Insts <- WellShown
INVARIANTS
  TextTellsEffect
  LinkIsCall
  ImmediatesWellPlaced
CHECK_DEADLOCK FALSE
