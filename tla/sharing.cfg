SPECIFICATION Spec
CONSTANTS
  Workers = {w1, w2}
  MaxUsers = 2
  MaxDirs = 1
  MaxFiles = 1
  NoRow = NoRow
INVARIANTS TypeOK ListsWhatStays
PROPERTIES NoLostUpdates CrashHasCause
SYMMETRY MCSymmetry
CHECK_DEADLOCK FALSE
