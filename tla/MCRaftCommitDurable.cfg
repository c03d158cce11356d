SPECIFICATION Spec
CONSTANTS
  Node = {n1, n2, n3}
  Command = {c1, c2}
  EmptyCommand = {}
  None = None
  MaxElections = 1
  MaxCrashes = 0
  MaxOutstanding = 2
SYMMETRY Symmetry
CHECK_DEADLOCK FALSE
PROPERTY CommitIsDurable
