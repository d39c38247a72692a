SPECIFICATION FairSpec
CONSTANTS
  Runs = {r1}
  Workers = {w1, w2}
  Nobody = Nobody
  Deliveries = {d1, d2, d3}
  NoDelivery = NoDelivery
  NoMsg = NoMsg
  MaxDispatch = 1
  MaxAttempts = 3
  MaxRunning = 2
  PrefetchCap = 2
  MaxFaults = 3
  Hazards = {"crash", "shutdown", "db", "ack", "report"}
CHECK_DEADLOCK FALSE
INVARIANT NoOrphan
 
 
PROPERTY Progress
