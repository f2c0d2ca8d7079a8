SPECIFICATION PortFairSpec
CONSTANTS
  Nonces = {n1, n2}
  Ports = {p1, p2}
  AskFast = 1
  FastTries = 1
  AskSlow = 2
  AnswerTime = 1
PROPERTY AcceptsRecent
PROPERTY Converges
