\* A compressed instruction that is no call is stepped over as one.
SPECIFICATION Spec
CONSTANT Insts <- AllHalfwords
INVARIANT CallIsLink
CHECK_DEADLOCK FALSE
