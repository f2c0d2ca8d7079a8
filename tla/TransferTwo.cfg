SPECIFICATION Spec
CONSTANTS
  short = short
  long = long
  Transfers = {t1, t2}
  Files = 1
  Targets = {0}
  Versions = {short, long}
  Length <- MCLength
  Inodes = {n1, n2, n3, n4}
  None = None
  Old = Old
  Room = 1
  MaxFaults = 0
  MaxChanges = 0
INVARIANT NeverMixed
