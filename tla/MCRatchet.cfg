SPECIFICATION Spec
CONSTANTS
  Inviter = inviter
  Accepter = accepter
  None = None
  MAX_SKIP = 2
  MAX_SKIPPED_KEYS = 1
  MaxSends = 3
  MaxTurns = 3
  MaxFailures = 1
  MaxWeeks = 1
  Overlap = FALSE
CHECK_DEADLOCK FALSE
INVARIANTS TypeOK NoKeyReuse NoDesync NoDuplicateLine HybridTurns
