\* The cursor file may hold a position the feed has not reached.
CONSTANTS
  grant = grant
  key = key
  forged = forged
  w1 = w1
  w2 = w2
  None = None
  Records <- MCRecords
  Verified <- MCVerified
  MaxLog = 3
  Workers <- OneWorker
  StartCursors <- CorruptedToo
  LosesWholeDelta = FALSE
  PassesSyncedAt = TRUE
  MaxRestarts = 1
SPECIFICATION FairSpec
PROPERTY
  EventuallyRevoked
