SPECIFICATION FairBridge
CONSTANTS
  Launches = {l1, l2}
  Wrapped = {l2}
  Probes = {"p1", "p2"}
  Readers = {"loop"}
  Writers = {"page"}
  MaxLoads = 2
  MaxFailures = 1
  None = None
CHECK_DEADLOCK FALSE
INVARIANT WritesGoThrough
PROPERTIES ReadyStays GateSettles
