SPECIFICATION Spec
CONSTANTS
  run = run
  Runs = {run}
  Api = api
  Workers = {w1, w2}
  Procs = {api, w1, w2}
  Nobody = Nobody
  Readers = {}
  Keys = {"k"}
  Budget = 5
  BatchMax = 2
  MaxClaims = 2
  Hazards = {"db", "shutdown"}
CHECK_DEADLOCK FALSE
SYMMETRY Symmetry
INVARIANT OncePerKey
INVARIANT SeqDense
INVARIANT FramesKept
INVARIANT DoneTellsRow
INVARIANT DoneIsLast
