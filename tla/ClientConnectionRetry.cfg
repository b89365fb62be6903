SPECIFICATION Spec
CONSTANTS
  MaxConnects = 1
  MaxEvents = 4
INVARIANT RetryStartsAfresh
CHECK_DEADLOCK FALSE
