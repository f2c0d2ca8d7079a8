SPECIFICATION PromptSpec
CONSTANTS
  Leaders = {l1, l2, l3}
  Followers = {f1}
  None = None
  InitialMax = 1
  HardMax = 2
  Cooldown = 1
  CodeTtl = 2
  MaxSessions = 3
SYMMETRY ThreadSymmetry
INVARIANT CodeStaysClaimable
