SPECIFICATION FairSpec
CONSTANTS
  Requests = {m1, m2}
  m1 = m1
  m2 = m2
  MaxTurns = 2
  MaxCalls <- MCMaxCalls
  Ids <- MCIds
  CallId <- MCCallId
CHECK_DEADLOCK FALSE
INVARIANTS ToolTypeOK BudgetSpansSuspensions OnlyApprovedRun RoundsAnswered OnlyOverlapReplaces
PROPERTIES AnsweredRoundResumes
