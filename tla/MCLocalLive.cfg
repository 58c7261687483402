SPECIFICATION FairSpec
CONSTANTS
  p1 = p1
  p2 = p2
  a = a
  b = b
  Proc <- MCProc
  Task <- MCTask
  File = {}
  Parents <- MCParents
  Inputs <- MCNothing
  Outputs <- MCNothing
  TaskOverwrite = {}
  MaxAttempt = 2
  TaskOrder <- MCTaskOrder
  Retries <- MCNoRetries
  Jobs = 1
  HasPostflight = FALSE
  InitialFiles <- MCInitialFiles
  Overwrite = {FALSE}
  MaxCommands = 2
  MaxKills = 0
PROPERTIES
  CommandsEnd
