SPECIFICATION FairSpec
CONSTANTS
  c1 = c1
  c2 = c2
  r1 = r1
  r2 = r2
  q1 = q1
  q2 = q2
  tavily = tavily
  baidu = baidu
  Caller = {c1, c2}
  Run = {r1, r2}
  Home <- TwoRuns
  Query = {q1, q2}
  Topic <- TwoTopics
  Provider = {tavily, baidu}
  Order <- TwoProviders
  Nobody = Nobody
  NoRow = NoRow
  Slots = 1
  MaxAttempts = 2
  Threshold = 2
  Base = 1
  Longest = 2
  Account = 2
  RateWindow = 1
  MaxCalls = 1
  MaxActive = 2
  MaxNow = 1
  MaxFaults = 1
\* Every caller has made its calls.
CHECK_DEADLOCK FALSE
INVARIANT FailuresCounted
INVARIANT BurstBounded
INVARIANT TriesAll
 
PROPERTY SearchesEnd
