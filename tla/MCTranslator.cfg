\* Every block of up to three instructions of the supported set.
SPECIFICATION Spec
CONSTANTS
  WLog = 1
  LR = 1
  MaxSlots = 3
  X0Values <- MCX0Values
  SPValues <- MCSPValues
  States <- MCStates
  Insts <- MCInsts
INVARIANTS TypeOK ConstantsSound OnlyConstantsRefused
PROPERTIES ExecutesArm ExitsLikeArm
CHECK_DEADLOCK FALSE
