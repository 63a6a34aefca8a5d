SPECIFICATION FairSpec
CONSTANTS
  Process = {p1, p2}
  Gateway = {p1}
  Call = {c1, c2}
  Nobody = nobody
  MaxQuestions = 2
  MaxRounds = 2
  MaxFaults = 1
  MaxCommands = 1
INVARIANTS AnswersAreSpentOnce QuestionsFollowTheTurn
PROPERTIES AnsweredIsResumed
CHECK_DEADLOCK FALSE
