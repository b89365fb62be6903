SPECIFICATION FairSpec
CONSTANTS
  Ctxs = {c1, c2}
  MAXLISTSIZE = 0
  MaxSid = 2
  MaxWrites = 1
PROPERTY CloseClosesAll
CHECK_DEADLOCK FALSE
