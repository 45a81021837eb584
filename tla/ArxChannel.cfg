CONSTANTS
  a = a
  b = b
  c = c
  x = x
  y = y
  Keys <- MCKeys3
  Messages <- MCMessages
  QueueStyle = "LIFO"
  MaxQueueSize = 2
  PopsPerGc = 2
  MaxSenders = 2

SPECIFICATION FairSpec

CHECK_DEADLOCK FALSE
INVARIANTS
  NoLostWakeup
PROPERTIES
  ImplementsKeyedQueue
  ReceiverProgress
