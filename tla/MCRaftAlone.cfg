SPECIFICATION FairSpec
CONSTANTS
  Node = {n1}
  Command = {c1, c2, e}
  EmptyCommand = {e}
  None = None
  MaxElections = 3
  MaxCrashes = 2
  MaxOutstanding = 0

CHECK_DEADLOCK FALSE
INVARIANT AloneIsDurable
PROPERTY AloneLeads
