SPECIFICATION Spec
CHECK_DEADLOCK FALSE
CONSTANTS
  Peers = {u1, u2}
  Names = {a, b}
  Pipes = {q}
  Procs = {p1}
  None = None
INVARIANT StartsClean
