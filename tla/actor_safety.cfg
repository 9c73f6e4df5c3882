CONSTANTS
  c1 = c1
  Client <- OneClient
  MaxActors = 2
  Name = {"n"}
  NoName = "none"
  Capacity = 1
  MaxMsgs <- ClientsSend
  Patience = {"timed", "forever"}
SPECIFICATION Spec
INVARIANT OrderlyStopDrains
INVARIANT BindingsRegistered
INVARIANT LiveAreRegistered
PROPERTY LiveBindingKept
CHECK_DEADLOCK FALSE
