SPECIFICATION FairSpec
CONSTANTS
  MaxBlocks = 7
  MaxSent = 12
  MaxWindow = 2
  Asked = {0, 2}
  IdSpace = 5
  IntBlocks = 6
INVARIANTS TypeOK UploadFaithful AckedIsWritten LongUploadsNeverEnd DownloadFaithful
PROPERTY UploadEnds
CHECK_DEADLOCK FALSE
