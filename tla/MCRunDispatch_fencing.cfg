SPECIFICATION Spec
CONSTANTS
  Runs = {r1}
  Workers = {w1, w2}
  Nobody = Nobody
  Deliveries = {d1, d2}
  NoDelivery = NoDelivery
  NoMsg = NoMsg
  MaxDispatch = 2
  MaxAttempts = 2
  MaxRunning = 2
  PrefetchCap = 2
  MaxFaults = 2
  Hazards = {"crash", "shutdown", "db", "ack", "overstay", "renewal", "outage"}
CHECK_DEADLOCK FALSE
SYMMETRY Symmetry
INVARIANT UniqueHolder
PROPERTY ZombieIsHarmless
