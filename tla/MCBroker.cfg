SPECIFICATION Spec
CONSTANTS
  me = me
  peer = peer
  Topics = {q1, q2}
  Consumers = {me}
  Senders = {me, peer}
  SkipOf <- MCSkipOf
  Tickets = {tk}
  Limit = 1
  KilledAnywhere = TRUE
  MaxAppends = 2
  MaxRestarts = 1
  Main = main
  Nobody = nobody
  None = None
CHECK_DEADLOCK FALSE
INVARIANTS TypeOK SeqsDiffer NoGap Durable
