SPECIFICATION Spec
CONSTANTS
  Handler = {h1, h2}
  User = {u1}
  RunId = {r1, r2, r3}
  RequestKey = {k}
  NoKey = NoKey
  NoHandler = NoHandler
  MaxPerUser = 2
  MaxQueued = 1
  Reopens = 1
\* The ids run out.
CHECK_DEADLOCK FALSE
SYMMETRY Symmetry
INVARIANT QuotasKept
INVARIANT AnswerableKeepsThread
