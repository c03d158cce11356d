SPECIFICATION Spec
CONSTANTS
  Command = {c1}
  Remote = {r1}
  Caller = {a1}
  Executor = executor
  Recommits = FALSE
  Alone = {FALSE}
  OldEntries = FALSE
  PutMayFail = FALSE
  None = None
  MaxTerm = 3
  MaxLog = 2
INVARIANT AnswerIsOwed
