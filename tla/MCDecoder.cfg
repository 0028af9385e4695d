\* Instructions at both ends of every field, and 3072 words of any kind.
SPECIFICATION Spec
CONSTANTS
  WLog = 5
  LR = 30
  Samples <- MCSamples
  RawWords <- MCRawWords
  Pcs <- MCPcs
INVARIANTS FieldsExact ClaimsExact FieldsWellFormed
CHECK_DEADLOCK FALSE
