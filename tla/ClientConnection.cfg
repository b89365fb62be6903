SPECIFICATION FairSpec
CONSTANTS
  MaxConnects = 2
  MaxEvents = 4
INVARIANTS TypeOK ReconnectGoesOn ReadersFindCtx EventsAlternate FirstConnectTold
           CloseIsRemembered
PROPERTIES ServedCloseIsFinal CloseCompletes
CHECK_DEADLOCK FALSE
