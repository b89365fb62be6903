SPECIFICATION Spec
CONSTANTS
  Senders = {app, two}
  LoopSenders = {}
  Talker = app
  Params <- MCParams
  BUFFER_SIZE = 2
  MAXLISTSIZE = 0
  MsgLens = {1, 2}
  MaxMsgs <- MCMaxMsgs
INVARIANT FramesContiguous
CHECK_DEADLOCK FALSE
