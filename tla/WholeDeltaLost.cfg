\* The transport may drop every entry of a delta.
CONSTANTS
  grant = grant
  key = key
  forged = forged
  w1 = w1
  w2 = w2
  None = None
  Records <- MCRecords
  Verified <- MCVerified
  MaxLog = 3
  Workers <- OneWorker
  StartCursors <- FromTheStart
  LosesWholeDelta = TRUE
  PassesSyncedAt = TRUE
  MaxRestarts = 1
SPECIFICATION Spec
INVARIANT
  CursorCovers
