SPECIFICATION Spec
CONSTANTS
  Inviter = inviter
  Accepter = accepter
  None = None
  MAX_SKIP = 1
  MAX_SKIPPED_KEYS = 1
  MaxSends = 2
  MaxTurns = 2
  MaxFailures = 0
  MaxWeeks = 0
  Overlap = TRUE
CHECK_DEADLOCK FALSE
INVARIANT NoKeyReuse
