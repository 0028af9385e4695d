\* A constant stored to memory or tested by CBZ.
SPECIFICATION Spec
CONSTANTS
  WLog = 1
  LR = 1
  MaxSlots = 2
  X0Values <- MCX0Values
  SPValues <- MCSPValues
  States <- MCStates
  Insts <- MCFew
INVARIANT OptimizerKeepsBlocks
CHECK_DEADLOCK FALSE
