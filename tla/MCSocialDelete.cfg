SPECIFICATION SocialSpec
CONSTANTS
  Users = {ada, ben}
  Authors = {ada}
  Readers = {ben}
  Overlap = FALSE
  MaxActs = 3
  MaxFaults = 0
  MaxEvents = 5
  MaxNotes = 1
  Nothing = Nothing
CHECK_DEADLOCK FALSE
INVARIANTS DeleteReaches
