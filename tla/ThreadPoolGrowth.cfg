SPECIFICATION Spec
CONSTANTS
  Workers <- Threads
  QueueSize = 2
  MaxQueue = 4
  MaxAdds = 3
INVARIANTS PendingInOrder
CHECK_DEADLOCK FALSE
