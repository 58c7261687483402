SPECIFICATION Spec
CONSTANTS
  p1 = p1
  p2 = p2
  a = a
  b = b
  fb = fb
  Proc <- MCProc
  Task <- MCTask
  File <- MCFile
  Parents <- MCParents
  Inputs <- MCInputs
  Outputs <- MCOutputs
  TaskOverwrite = {}
  MaxAttempt = 3
  TaskOrder <- MCTaskOrder
  Retries <- MCNoRetries
  Jobs = 1
  HasPostflight = TRUE
  InitialFiles <- MCInitialFiles
  Overwrite = {TRUE, FALSE}
  MaxCommands = 3
  MaxKills = 0
SYMMETRY ProcSymmetry
INVARIANTS
  AttemptedAfterParentAttempts
  PostflightAfterAttempts
