\* Every program of three words over the small instruction set, run to its
\* end by the launcher with the code's own quantum of one block.
SPECIFICATION FairSpec
CONSTANTS
  MemWords = 4
  WordsPerFetch = 2
  HitMax = 2
  ExecutedMod = 4
  MaxBlocks = 3
  Quantum = 1
  XMax = 1
  Links = {2, 5}
  Branches <- MCBranches
  Stores = {3}
  Entries <- MCEntries
  Word <- MCWord
  ZeroWord <- MCZero
  GState <- MCGState
  Effect <- MCEffect
  Stored <- MCStored
  Taken <- MCTaken
  Link <- MCLink
  Images <- MCImages
INVARIANTS TypeOK BlockShape NeverMissing Control ZeroIsSentinel
PROPERTIES RunsTheGuest Terminates SentinelExits
CHECK_DEADLOCK FALSE
