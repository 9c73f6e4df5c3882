CONSTANTS
  MaxRegions = 2
SPECIFICATION NarrowSpec
INVARIANT NarrowedIsT
CHECK_DEADLOCK FALSE
