SPECIFICATION Spec
CONSTANTS
  ann = ann
  bob = bob
  cat = cat
  Peers = {ann, bob, cat}
  InitContacts <- MCInitContacts
  MaxTexts = 1
  MaxEdits = 1
  MaxLocal = 0
  MaxCrashes = 0
  MaxLosses = 0
  Mixed = FALSE
  None = None
CHECK_DEADLOCK FALSE
INVARIANT RemovalSticks
