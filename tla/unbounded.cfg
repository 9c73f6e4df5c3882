CONSTANTS
  g1 = g1
  g2 = g2
  g3 = g3
  Proc <- MCProc
  MaxSends <- MCSends
SPECIFICATION FairSpec
INVARIANT NoLostWakeup
PROPERTY ImplementsClosableQueue
PROPERTY WaitingReceiverServed
PROPERTY CloseReleasesReceivers
CHECK_DEADLOCK FALSE
