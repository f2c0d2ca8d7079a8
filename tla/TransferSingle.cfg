SPECIFICATION Spec
CONSTANTS
  short = short
  long = long
  Transfers = {t1}
  Files = 2
  Targets = {0, 2}
  Versions = {short, long}
  Length <- MCLength
  Inodes = {n1, n2, n3, n4}
  None = None
  Old = Old
  Room = 1
  MaxFaults = 0
  MaxChanges = 0
INVARIANT SuccessIsAll
