SPECIFICATION Spec
CONSTANTS
  T = {a, b}
  Capacity = 4
  MaxInput = 5
  Inputs <- MCInputs
  Counts <- MCCounts
INVARIANT PositionsAgree
PROPERTY RefinesFifo
