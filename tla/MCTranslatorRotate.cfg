\* A 32-bit rotation by a register, with and without known operands.
SPECIFICATION FairSpec
CONSTANTS
  WLog = 1
  LR = 1
  MaxSlots = 3
  X0Values <- MCX0Values
  SPValues <- MCSPValues
  States <- MCStates
  Insts <- MCRotate
PROPERTY ExecutesArm
CHECK_DEADLOCK FALSE
