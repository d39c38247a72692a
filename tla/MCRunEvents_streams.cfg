SPECIFICATION FairSpec
CONSTANTS
  run = run
  Runs = {run}
  Api = api
  Workers = {w1}
  Procs = {api, w1}
  Nobody = Nobody
  Readers = {i1}
  Keys = {}
  Budget = 5
  BatchMax = 2
  MaxClaims = 2
  Hazards = {"crash", "evict", "exhaust", "disconnect"}
CHECK_DEADLOCK FALSE
PROPERTY KeepsStream
PROPERTY StreamsEnd
