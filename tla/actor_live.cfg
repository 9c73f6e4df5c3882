CONSTANTS
  c1 = c1
  Client <- OneClient
  MaxActors = 1
  Name = {"n"}
  NoName = "none"
  Capacity = 1
  MaxMsgs <- AllSend
  Patience = {"timed"}
SPECIFICATION FairSpec
PROPERTY CallsReturn
PROPERTY StoppedActorsExit
CHECK_DEADLOCK FALSE
