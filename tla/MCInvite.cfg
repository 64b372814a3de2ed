SPECIFICATION Spec
CONSTANTS
  alice = alice
  bob = bob
  carol = carol
  Peers = {alice, bob, carol}
  Inviters = {alice}
  Pairings <- SameMode
  MaxLinks = 1
  MaxQueues <- MCQueues
  MaxMishaps = 1
  MaxRemovals = 1
  None = None
CHECK_DEADLOCK FALSE
INVARIANTS SingleUse SessionsAgree DeletedStaysDeleted NothingStranded
