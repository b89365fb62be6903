SPECIFICATION FairServerSpec
CONSTANTS
  MaxStarts = 2
  Base = 4
  Protocols = {echo, other}
  Ids = {1, 7}
  Packets <- MCPackets
INVARIANTS ServerTypeOK ClosedIsQuiet DestroyedIsQuiet ProtocolsAlive ProtocolsOwned
           MessagesRead
PROPERTIES CloseCompletes DestructorReturns
CHECK_DEADLOCK FALSE
