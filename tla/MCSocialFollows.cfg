SPECIFICATION SocialSpec
CONSTANTS
  Users = {ada, ben}
  Authors = {}
  Readers = {ada, ben}
  Overlap = FALSE
  MaxActs = 4
  MaxFaults = 1
  MaxEvents = 5
  MaxNotes = 1
  Nothing = Nothing
CHECK_DEADLOCK FALSE
INVARIANTS FollowsAgree
