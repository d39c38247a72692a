SPECIFICATION Spec
CONSTANTS
  c1 = c1
  c2 = c2
  c3 = c3
  r1 = r1
  r2 = r2
  Caller = {c1, c2, c3}
  Run = {r1, r2}
  RunOf <- MCRunOf
  Slots = 2
  Rpm = 2
  Tpm = 3
  Window = 2
  Budget = 2
  Retries = 1
  Estimates = {1, 4}
  PerCall = 1
  MaxCalls = 2
  MaxFaults = 1
  MaxCancels = 1
\* The callers are through.
CHECK_DEADLOCK FALSE
SYMMETRY Symmetry
INVARIANT SlotsAccounted
INVARIANT NoOversleep
INVARIANT OvershootBounded
