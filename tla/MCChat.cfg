SPECIFICATION FairSpec
CONSTANTS
  ann = ann
  eve = eve
  Contacts = {ann, eve}
  Pending = {eve}
  Expiring = {ann}
  TTL = 1
  MaxTime = 2
  MaxWires = 1
  MaxSends = 1
  MaxFaults = 1
  None = None
CHECK_DEADLOCK FALSE
INVARIANTS LinesKept UnreadSound
PROPERTIES ShownSettles
