SPECIFICATION ServerSpec
CONSTANTS
  Workers = {w1, w2}
  MaxRequests = 4
  MaxDescriptors = 3
INVARIANTS ServerTypeOK NeverAnOlderRequest LeaksOnlyUncreated
PROPERTIES SocketTakenByFailed AnsweredIsServed
CHECK_DEADLOCK FALSE
