SPECIFICATION SocialSpec
CONSTANTS
  Users = {ada, ben}
  Authors = {}
  Readers = {ada, ben}
  Overlap = TRUE
  MaxActs = 2
  MaxFaults = 0
  MaxEvents = 5
  MaxNotes = 1
  Nothing = Nothing
CHECK_DEADLOCK FALSE
INVARIANTS FollowsAgree
