SPECIFICATION Spec
CONSTANTS
  Leaders = {l1, l2, l3}
  Followers = {f1, f2}
  None = None
  InitialMax = 1
  HardMax = 2
  Cooldown = 1
  CodeTtl = 2
  MaxSessions = 2
SYMMETRY ThreadSymmetry
INVARIANT SessionLimit
INVARIANT SessionsAlive
INVARIANT QuietAfterRelease
PROPERTY HandoffNotLost
