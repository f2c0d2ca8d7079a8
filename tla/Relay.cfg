SPECIFICATION FairSpec
CONSTANTS
  a1 = a1
  a2 = a2
  b1 = b1
  i1 = i1
  i2 = i2
  Addrs = {a1, a2, b1}
  Ips = {i1, i2}
  Ip <- MCIp
  Home <- MCHome
  Start <- MCStart
  Unsteady = {0}
  None = None
  Register = 1
  Whereami = 1
  WhereamiRefresh = 2
  Callme = 1
  CallmeDirect = 1
  Ttl = 2
  IpRate = 3
  IpBurst = 4
  GlobalRate = 6
  GlobalBurst = 6
  IdleAfter = 2
  MaxFaults = 2
INVARIANT RelayInv
PROPERTY Introduced
