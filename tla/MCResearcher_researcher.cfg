SPECIFICATION FairSpec
CONSTANTS
  Query = {q1, q2}
  Candidate = {a, b}
  Quote = {1, 2}
  MaxQueries = 1
  ActiveLimit = 1
  ArchiveLimit = 2
  PerSource = 1
  BatchSize = 1
  MaxTurns = 5
  MaxRejections = 1
  MaxParallel = 2
  MaxAsked = 1
  MaxFaults = 1
  MaxExpiries = 1
\* The task is over.
CHECK_DEADLOCK FALSE
INVARIANT WithinLimits
INVARIANT ChannelsCatchUp
INVARIANT NothingLost
INVARIANT StopTellsTruth
PROPERTY TaskEnds
