SPECIFICATION FairSpec
CONSTANTS
  NumThreads = 2
  MaxJobs = 4
  MaxSpurious = 1
INVARIANTS TypeOK MutualExclusion JobsAccountedFor FreedWhenQuiet
PROPERTIES BacklogNeverRecovers WakeupsServeJobs ImplementsJobPool
CHECK_DEADLOCK FALSE
