SPECIFICATION FairSpec
CONSTANTS
  Pids = {1}
  MaxStarts = 1
  ExitCodes = {0, 1}
  MaxOut <- StderrOnly
  Job <- StderrOnly
  PipeCap = 1
PROPERTY CloseEnds
CHECK_DEADLOCK FALSE
