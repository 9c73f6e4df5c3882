CONSTANTS
  Files = 3
  Statements <- MCStatements
  Irreversible = {2}
  Steps = {0, 1, 2}
  MaxCalls = 3
  w1 = w1
  w2 = w2
  Work <- DefWork
  MaxRetries = 3
  h1 = h1
  h2 = h2
  k1 = k1
  c1 = c1
  c2 = c2
  None = None
  Handlers <- MCHandlers
  Clients <- MCClients
  Contents <- MCContents
  Versions = {1, 2}
  MaxPosts = 3
SPECIFICATION DatabaseSpec
SYMMETRY MCSymmetry
INVARIANT RecordAgrees
INVARIANT BatchesFollowCalls
INVARIANT AppliedAsAnswered
INVARIANT TransactionAnswers
INVARIANT OneLiveEntry
INVARIANT EntryHasTarball
INVARIANT InstallsWhatWasPublished
INVARIANT PublishedForGood
PROPERTY NoGaps
CHECK_DEADLOCK FALSE
