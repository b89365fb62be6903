SPECIFICATION FairSpec
CONSTANTS
  Senders = {app, proc}
  LoopSenders = {proc}
  Talker = app
  Params <- MCParams
  BUFFER_SIZE = 3
  MAXLISTSIZE = 0
  MsgLens = {2}
  MaxMsgs <- MCMaxMsgs
INVARIANTS TypeOK NoLostWakeup Conservation EachSenderInOrder ParamsOwned
PROPERTIES SendReturnsUnlessLoopWaits CloseCompletes
CHECK_DEADLOCK FALSE
