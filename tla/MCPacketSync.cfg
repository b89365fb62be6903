SPECIFICATION FairSpec
CONSTANTS
  Byte = {0, 1, 2}
  HEAD = 1
  TAIL = 2
  HEADLEN = 2
  LongData = 3
  MaxChunk = 4
  BUFFER_SIZE = 3
  Legal <- MCLegal
  DataLen <- MCDataLen
  Intact <- MCIntact
  Chunks <- MCChunks
INVARIANTS TypeOK NoFrameWaits
PROPERTIES FindsFrames RecvdataReturns
