SPECIFICATION Spec
CONSTANTS
  Node = {n1, n2, n3}
  Command = {}
  EmptyCommand = {}
  None = None
  MaxElections = 3
  MaxCrashes = 1
  MaxOutstanding = 0
SYMMETRY Symmetry
CHECK_DEADLOCK FALSE
INVARIANTS ElectionSafety OneBallotPerTerm VotesCountedOnce
PROPERTIES VotesAreFinal ImplementsElection
