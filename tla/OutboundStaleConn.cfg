SPECIFICATION Spec
CONSTANTS
  Ids = {r1}
  DialRetry = 1
  UnknownRetry = 2
  DialDeadline = 2
  MetaDeadline = 1
  MaxUnread = 1
  MaxPcbs = 2
INVARIANT AnswerHasConn
