SPECIFICATION Spec
CONSTANTS
  Node = {n1, n2, n3}
  Command = {c1, c2, e}
  EmptyCommand = {e}
  None = None
  MaxElections = 1
  MaxCrashes = 0
  MaxOutstanding = 2
SYMMETRY Symmetry
CHECK_DEADLOCK FALSE
INVARIANTS TypeOK FollowersTrailLeader PromiseSetOnce
