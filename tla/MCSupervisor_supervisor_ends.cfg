SPECIFICATION FairSpec
CONSTANTS
  a1 = a1
  f1 = f1
  NoDraft = NoDraft
  Aspect <- MCAspect
  Field <- MCField
  ActiveLimit = 1
  MaxPerRound = 2
  MaxRounds = 1
  MaxReviews = 2
  MaxTurns = 2
  MaxRejections = 1
  MaxTask = 1
  MaxOps = 1
  MaxCrashes = 1
  Replies <- InPairs
  CrashPoints <- Anywhere
\* The run is over when the last round is.
CHECK_DEADLOCK FALSE
PROPERTY RoundEnds
