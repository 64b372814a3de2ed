SPECIFICATION Spec
CONSTANTS
  alice = alice
  bob = bob
  carol = carol
  Peers = {alice, bob}
  Inviters = {alice}
  Pairings <- AnonymousMode
  MaxLinks = 1
  MaxQueues <- MCQueues
  MaxMishaps = 0
  MaxRemovals = 0
  None = None
CHECK_DEADLOCK FALSE
INVARIANT RoutesHome
