SPECIFICATION Spec
CONSTANTS
  me = me
  peer = peer
  Topics = {q1}
  Consumers = {me}
  Senders = {me, peer}
  SkipOf <- MCSkipOf
  Tickets = {tk}
  Limit = 1
  KilledAnywhere = FALSE
  MaxAppends = 2
  MaxRestarts = 1
  Main = main
  Nobody = nobody
  None = None
CHECK_DEADLOCK FALSE
INVARIANT AckedSurvives
