SPECIFICATION Spec
CONSTANTS
  Term <- MCTerm
  Voter = {n1}
  Data = {d1, d2}
  Absent = Absent
  LeftOver = LeftOver
  NoVote = NoVote
  Down = Down
  MaxSize = 2
INVARIANTS StoreTypeOK StoredLogIsComplete
PROPERTY ImplementsDurableStore
