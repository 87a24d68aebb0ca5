SPECIFICATION Spec
CONSTANTS
  NoRank = NoRank
  Tables <- MCTables
  SeatChoices <- MCSeatChoices
  Parties <- MCParties
  TieRanks <- MCTieRanks
\* A call returns.
CHECK_DEADLOCK FALSE
INVARIANTS AllocationIsBest RankIsPosition SameAsOriginal RefusalsAreRight
