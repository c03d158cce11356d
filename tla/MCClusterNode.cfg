SPECIFICATION FairSpec
CONSTANTS
  Command = {c1, c2}
  Remote = {r1}
  Caller = {}
  Executor = executor
  Recommits = FALSE
  Alone = {TRUE, FALSE}
  OldEntries = FALSE
  PutMayFail = FALSE
  None = None
  MaxTerm = 3
  MaxLog = 2
INVARIANT NodeTypeOK
INVARIANT LifecycleFollowsRaft
INVARIANT TimersFollowState
INVARIANT AnswerIsOwed
INVARIANT SuccessIsStored
INVARIANT SuccessIsOfLeader
INVARIANT CopyFollowsLog
PROPERTY AloneLeads
PROPERTY EveryCommitIsAnswered
