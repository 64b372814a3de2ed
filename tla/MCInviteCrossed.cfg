SPECIFICATION Spec
CONSTANTS
  alice = alice
  bob = bob
  carol = carol
  Peers = {alice, bob}
  Inviters = {alice, bob}
  Pairings <- SameMode
  MaxLinks = 2
  MaxQueues <- MCQueues
  MaxMishaps = 0
  MaxRemovals = 1
  None = None
CHECK_DEADLOCK FALSE
INVARIANT DeletedIsUnowned
