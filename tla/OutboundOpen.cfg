SPECIFICATION FairSpec
CONSTANTS
  Ids = {r1}
  DialRetry = 1
  UnknownRetry = 2
  DialDeadline = 3
  MetaDeadline = 1
  MaxUnread = 2
  MaxPcbs = 3
INVARIANT RequestInv
PROPERTY OpenSettles
PROPERTY ClientNoticed
