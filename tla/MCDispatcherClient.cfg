\* Any sequence of MaxCalls compilations and runs over two PCs.
SPECIFICATION FairSpec
CONSTANTS
  MemWords = 1
  WordsPerFetch = 2
  HitMax = 2
  ExecutedMod = 4
  MaxCalls = 4
  Starts = {0, 1}
  Budgets = {0, 1, 3}
  Word <- MCWord
  ZeroWord <- MCZero
  GState <- MCGState
  Effect <- MCEffect
  Stored <- MCStored
  Taken <- MCTaken
  Link <- MCLink
  Images <- MCImages
  Slices <- MCSlices
INVARIANTS TypeOK CountersExact
PROPERTIES RunOutcome RunReturns
CHECK_DEADLOCK FALSE
