SPECIFICATION Spec
CONSTANTS
  MaxId = 2
  MaxDepth = 3
  MaxRevision = 4
  Values = {a, b, c}
  NoVal = NoVal
  Unique = TRUE
INVARIANTS TypeOK RollsBack RecordsFit SessionOwnsTop RevisionsConsecutive ClashesOnlyWithinSession
PROPERTY ImplementsStore
CHECK_DEADLOCK FALSE
