SPECIFICATION FairSpec
CONSTANTS
  NumThreads = 2
  MaxJobs = 2
  MaxSpurious = 0
PROPERTY DestructorEnds
CHECK_DEADLOCK FALSE
