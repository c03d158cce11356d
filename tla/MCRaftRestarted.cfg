SPECIFICATION RestartedSpec
CONSTANTS
  Node = {n1, n2}
  Command = {c1, c2, c3}
  EmptyCommand = {}
  None = None
  MaxElections = 3
  MaxCrashes = 3
  MaxOutstanding = 2
SYMMETRY Symmetry
CHECK_DEADLOCK FALSE
INVARIANT LogTermsAscend
INVARIANT OneSlotPerCommand
INVARIANT LeadersHoldTheirTerm
