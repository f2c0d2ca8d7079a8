SPECIFICATION FairSpec
CONSTANTS
  Leaders = {l1}
  Followers = {f1, f2}
  Ids = {i1, i2}
  Passwords = {a, b}
  Ulas = {u1, u2, u3}
  None = None
  MaxAttempts = 2
  MaxFaults = 1
INVARIANT ExchangeInv
INVARIANT RecordsFit
INVARIANT OnlySameCode
PROPERTY ExchangeEnds
