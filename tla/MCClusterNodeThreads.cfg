SPECIFICATION Spec
CONSTANTS
  Command = {c1, c2}
  Remote = {r1}
  Caller = {a1}
  Executor = executor
  Recommits = TRUE
  Alone = {FALSE}
  OldEntries = TRUE
  PutMayFail = TRUE
  None = None
  MaxTerm = 3
  MaxLog = 1
SYMMETRY CommandSymmetry
INVARIANT OnlyLeadersServe
INVARIANT AnsweredOnce
