CONSTANTS
  c1 = c1
  c2 = c2
  c3 = c3
  j1 = j1
  j2 = j2
  Control <- ThreeControl
  Job <- TwoJobs
  Stoppers <- OneStopper
SPECIFICATION CronSpec
INVARIANT StartedRuns
CHECK_DEADLOCK FALSE
