SPECIFICATION Spec
CONSTANTS
  Workers = {w1, w2}
  Base = 4
  Blocks = 2
  MaxUploads = 2
  MaxGarbled = 1
INVARIANTS TypeOK AckedStays DownloadFaithful ChecksumVerifies
SYMMETRY MCSymmetry
CHECK_DEADLOCK FALSE
