SPECIFICATION WaitSpec
CONSTANTS
  NumThreads = 1
  MaxJobs = 1
  MaxSpurious = 0
INVARIANT WaitAllWaits
CHECK_DEADLOCK FALSE
