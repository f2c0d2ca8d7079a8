SPECIFICATION FairSpec
CONSTANTS
  Names = {a, b}
  Sanitize <- OwnFiles
  Fds = {f}
  None = None
  MaxLimit = 2
  MaxInst = 2
  MaxSerial = 2
INVARIANT CountersExact
INVARIANT LimitHeld
INVARIANT OwnerSocketUsed
INVARIANT OwnerCallbackFresh
INVARIANT OneStream
INVARIANT DiskInSync
PROPERTY RetiresOnlySpent
PROPERTY QuietOwnerNoticed
