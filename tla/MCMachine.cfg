\* Every program of two instructions and a branch, each block compiled in
\* both ways, at any time and again, and run as often as it comes around.
SPECIFICATION Spec
CONSTANTS
  WLog = 1
  LR = 1
  ProgramLength = 3
  Insts <- MCInsts
  Programs <- MCPrograms
  States <- MCStates
INVARIANTS TypeOK
PROPERTIES RunsTheProgram
CHECK_DEADLOCK FALSE
