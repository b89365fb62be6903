SPECIFICATION Spec
CONSTANTS
  Threads = {a, b, c}
  Nobody = nobody
  MaxRemovals = 2
INVARIANTS ReopenedOncePerRemoval StreamOwned HarmNeedsReopening
CHECK_DEADLOCK FALSE
