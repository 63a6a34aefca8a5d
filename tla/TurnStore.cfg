SPECIFICATION FairSpec
CHECK_DEADLOCK FALSE
CONSTANTS
  Turn = {t1}
  Proc = {p1, p2}
  MaxResumes = 1
  MaxDead = 1
  MaxToken = 3
  MaxLease = 2
  MaxCalls = 1
  MaxCrash = 2
INVARIANTS OneDriver BooksAgree
PROPERTIES DoneIsFinal FencedTranscript ImplementsLifecycle CrashIsRecovered
