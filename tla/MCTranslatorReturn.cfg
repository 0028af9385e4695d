\* A return through X0, which is not the link register.
SPECIFICATION FairSpec
CONSTANTS
  WLog = 1
  LR = 1
  MaxSlots = 3
  X0Values <- MCX0Values
  SPValues <- MCSPValues
  States <- MCStates
  Insts <- MCReturn
PROPERTY ExitsLikeArm
CHECK_DEADLOCK FALSE
