SPECIFICATION FairSocial
CONSTANTS
  Users = {ada, ben}
  Authors = {ada}
  Readers = {ada, ben}
  Overlap = FALSE
  MaxActs = 3
  MaxFaults = 2
  MaxEvents = 3
  MaxNotes = 1
  Nothing = Nothing
CHECK_DEADLOCK FALSE
INVARIANTS NoTwins FollowsAgree
PROPERTIES HeadCatchesUp CatchesUp
