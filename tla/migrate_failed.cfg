CONSTANTS
  Files = 3
  Statements <- MCStatements
  Irreversible = {2}
  Steps = {0, 1, 2}
  MaxCalls = 1
SPECIFICATION Spec
INVARIANT FailedFileRolledBack
CHECK_DEADLOCK FALSE
