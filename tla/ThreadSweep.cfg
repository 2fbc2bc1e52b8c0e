SPECIFICATION FairSpec
CONSTANTS
  Threads = {t1, t2}
  Sweepers = {"loop", "operator"}
  Loop = "loop"
  MaxAge <- MCMaxAge
  Word = 8
  MaxHour = 2
  SetBacks = 1
  Crashes = 1
INVARIANT NoneForgotten
PROPERTIES FailedStaysListed EveryThreadIsSwept
CHECK_DEADLOCK FALSE
