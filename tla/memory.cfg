SPECIFICATION Spec
CONSTANTS
  Readers = {r1, r2}
  Writer = w
  NumLocks = 2
  MaxShared = 3
  NumTables = 2
  Blocks = {a, b}
  MaxHeight = 2
  Limits <- MCLimits
INVARIANTS TablesConsistent ReadsAgree
PROPERTY WriterGetsIn
CHECK_DEADLOCK FALSE
