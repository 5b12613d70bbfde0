SPECIFICATION DashFairSpec
CONSTANTS
  t1 = t1
  t2 = t2
  Threads <- MCThreads
  NoThread = NoThread
  MaxSimulations = 2
CHECK_DEADLOCK FALSE
INVARIANTS DashTypeOK LedgerAgrees StatusesAreOfThePast AnswersOwnOrNewer OnlyFailuresLeaveChildren
PROPERTIES RequestsEnd PageCatchesUp
