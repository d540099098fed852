SPECIFICATION Spec
CONSTANTS
  Workers <- Threads
  QueueSize = 3
  MaxQueue = 3
  MaxAdds = 8
INVARIANTS TypeOK PendingInOrder TakenOnce IdleWorkersAreWoken
PROPERTIES AcceptedTasksRun DestroyReturns
CHECK_DEADLOCK FALSE
