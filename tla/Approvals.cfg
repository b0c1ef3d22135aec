SPECIFICATION FairSpec
CONSTANTS
  Requests <- MCRequests
  IdOf <- MCIdOf
  Offered <- MCOffered
  MaxStarts = 2
  MaxEpoch = 1
  None = None
INVARIANTS TypeOK RightAnswer AnsweredOnce ResolvedIsClosed
PROPERTIES KillFence FollowsTable Published GoesOn
CHECK_DEADLOCK FALSE
