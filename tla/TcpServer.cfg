SPECIFICATION FairSpec
CONSTANTS
  Ctxs = {c1, c2}
  MAXLISTSIZE = 0
  MaxSid = 3
  MaxWrites = 1
INVARIANTS TypeOK CtxsOwned CallbacksFindTheirs ParamsConserved EndIsClean
PROPERTIES CallbacksInOrder CloseCompletes LossIsTold
CHECK_DEADLOCK FALSE
