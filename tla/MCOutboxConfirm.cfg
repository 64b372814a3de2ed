SPECIFICATION FairSpec
CONSTANTS
  m1 = m1
  m2 = m2
  m3 = m3
  far = far
  near = near
  Msgs <- MCMsgs
  Topics <- MCTopics
  TopicOf <- MCTopicOf
  Remote <- MCRemote
  Workers = {w1}
  Poller = poller
  MAX_ITEMS = 2
  ATTEMPTS_MAX = 2
  Overlap = FALSE
  MaxPurges = 0
  MaxMishaps = 0
  NoMsg = NoMsg
  NoTopic = NoTopic
CHECK_DEADLOCK FALSE
PROPERTY ConfirmedReached
