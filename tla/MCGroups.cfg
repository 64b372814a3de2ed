SPECIFICATION Spec
CONSTANTS
  ann = ann
  bob = bob
  cat = cat
  Peers = {ann, bob, cat}
  InitContacts <- MCInitContacts
  MaxTexts = 1
  MaxEdits = 1
  MaxLocal = 1
  MaxCrashes = 1
  MaxLosses = 1
  Mixed = FALSE
  None = None
CHECK_DEADLOCK FALSE
INVARIANTS FanoutReaches Consent NoRosterLost UnreadCounts
