SPECIFICATION FairSpec
CONSTANTS
  Leaders = {l1, l2}
  Followers = {f1, f2}
  None = None
  InitialMax = 1
  HardMax = 2
  Cooldown = 1
  CodeTtl = 2
  MaxSessions = 2
PROPERTY ClaimResolved
PROPERTY LeadersEnd
PROPERTY RendezvousSpec
