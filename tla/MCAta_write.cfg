SPECIFICATION Spec
CONSTANTS
  POLLS = 2
  LastLba = 1
  MaxCount = 2
  LBA_LIMIT = 2
  Values = {"v"}
  Calls <- MCCalls
INVARIANT
  WriteSuccessMeansWritten
