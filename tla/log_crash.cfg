SPECIFICATION Spec
CONSTANTS
  MaxBlock = 5
INVARIANTS TypeOK IndexLeadsToBlocks FlushedSurvives
CHECK_DEADLOCK FALSE
