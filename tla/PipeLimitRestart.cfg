SPECIFICATION Spec
CONSTANTS
  Names = {a}
  Sanitize <- OwnFiles
  Fds = {f}
  None = None
  MaxLimit = 1
  MaxInst = 2
  MaxSerial = 1
INVARIANT LimitOverLifetime
