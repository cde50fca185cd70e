\* A consumer that starts from nothing; no delta is lost whole.
CONSTANTS
  grant = grant
  key = key
  forged = forged
  w1 = w1
  w2 = w2
  None = None
  Records <- MCRecords
  Verified <- MCVerified
  MaxLog = 3
  Workers <- TwoWorkers
  StartCursors <- FromTheStart
  LosesWholeDelta = FALSE
  PassesSyncedAt = TRUE
  MaxRestarts = 1
SPECIFICATION FairSpec
INVARIANTS
  TypeOK
  CursorCovers
  FreshMeansComplete
PROPERTY
  EventuallyRevoked
