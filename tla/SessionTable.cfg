SPECIFICATION Spec
CHECK_DEADLOCK FALSE
CONSTANTS
  Peers = {u1, u2}
  Names = {a, b}
  Pipes = {q}
  Procs = {p1, p2}
  None = None
SYMMETRY Symmetry
VIEW View
INVARIANT TableInv
INVARIANT NothingInherited
PROPERTY RenamedInPlace
