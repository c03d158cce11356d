SPECIFICATION Spec
CONSTANTS
  Node = {n1, n2, n3}
  Command = {c1}
  EmptyCommand = {}
  None = None
  MaxElections = 1
  MaxCrashes = 0
  MaxOutstanding = 1
SYMMETRY Symmetry
CHECK_DEADLOCK FALSE
PROPERTY CommitHasMajority
