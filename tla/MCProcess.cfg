\* Eight images, and fetches from every PC of the address space.
SPECIFICATION ProcessSpec
CONSTANTS
  AddrMod = 32
  WordBytes = 2
  Byte = {0, 1, 2}
  PageSize = 4
  StackSize = 4
  Slack = 4
  Loader = {m}
  Files <- MCFiles
  DirectSizes = {}
  WordsPerFetch = 3
  SpGap = 2
  SpAlign = 2
INVARIANTS ProcessTypeOK FetchNeverFails WindowExact StackClear MemoryReturned
CHECK_DEADLOCK FALSE
