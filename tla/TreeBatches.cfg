SPECIFICATION Spec
CONSTANTS
  Hash <- MCHash
  Full <- MCFull
  None <- MCNone
  MaxDepth = 6
  MaxLeaves = 36
  Tracked <- MCTracked
  MaxBatch = 36
INVARIANTS
  AssertionsHold
  RowExact
  TreeExact
  NoteWitnessesExact
  AdvanceReturns
CHECK_DEADLOCK FALSE
