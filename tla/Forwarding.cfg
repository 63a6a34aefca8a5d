SPECIFICATION FairForward
CONSTANTS
  Room = {r1}
  Terminal = {t1}
  Asks <- AllOne
  MaxQuestions = 1
  MaxCrashes = 1
INVARIANT TokenIsKept
PROPERTIES OutcomeIsTrue GrantIsWanted ToldInTheEnd
