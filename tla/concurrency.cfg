CONSTANTS
  g1 = g1
  g2 = g2
  g3 = g3
  Proc <- MCProc
  Sizes = {0, 1}
  MaxSends <- TwoSenders
  c1 = c1
  c2 = c2
  c3 = c3
  j1 = j1
  j2 = j2
  Control <- ThreeControl
  Job <- TwoJobs
  Stoppers <- OneStopper
SPECIFICATION ConcurrencySpec
INVARIANT LateSendRefused
INVARIANT StoppedDoesNotRun
PROPERTY ImplementsClosableQueue
PROPERTY CloseReleasesAll
PROPERTY StopReturns
CHECK_DEADLOCK FALSE
