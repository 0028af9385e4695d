\* Two threads load any two of 92 files, or map memory for themselves, over
\* and over.
SPECIFICATION FairSpec
CONSTANTS
  AddrMod = 32
  WordBytes = 2
  Byte = {0, 1, 2}
  PageSize = 4
  StackSize = 4
  Slack = 4
  Loader = {l1, l2}
  Files <- MCFiles
  DirectSizes <- MCDirect
INVARIANTS TypeOK Exclusive
PROPERTIES ImplementsLoads LoadEnds OutsideOnlyEmpty
