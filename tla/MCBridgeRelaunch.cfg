SPECIFICATION BridgeSpec
CONSTANTS
  Launches = {l1, l2}
  Wrapped = {}
  Probes = {"p1"}
  Readers = {"loop"}
  Writers = {"page"}
  MaxLoads = 2
  MaxFailures = 0
  None = None
CHECK_DEADLOCK FALSE
INVARIANT FreshLaunchTaken
