SPECIFICATION Spec
CONSTANTS
  p1 = p1
  p2 = p2
  a = a
  Proc <- MCProc
  Job <- MCJob
  Submitter <- MCSubmitter
  Task <- MCTask
  File = {}
  Parents <- MCParents
  Inputs <- MCNothing
  Outputs <- MCNothing
  TaskOverwrite = {}
  MaxAttempt = 2
  TaskOrder <- MCTaskOrder
  Retries <- MCRetries
  PostflightName = "postflight"
  HasPostflight = TRUE
  InitialFiles <- MCInitialFiles
  Overwrite = {FALSE}
  MaxCommands = 2
  MaxKills = 0
SYMMETRY SubmitterSymmetry
INVARIANTS
  StartedBeforeRunning
  PendingWithdrawn
