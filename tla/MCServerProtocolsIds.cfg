SPECIFICATION ServerSpec
CONSTANTS
  MaxStarts = 1
  Base = 4
  Protocols = {echo, other}
  Ids = {1, 7}
  Packets <- MCPackets
INVARIANT IdsReadBack
CHECK_DEADLOCK FALSE
