SPECIFICATION Spec
CONSTANTS
  p1 = p1
  a = a
  b = b
  c = c
  d = d
  fa = fa
  fc = fc
  Proc <- MCProc
  Task <- MCTask
  File <- MCFile
  Parents <- MCParents
  Inputs <- MCInputs
  Outputs <- MCOutputs
  TaskOverwrite = {}
  MaxAttempt = 6
  TaskOrder <- MCTaskOrder
  Retries <- MCRetries
  Jobs = 2
  HasPostflight = TRUE
  InitialFiles <- MCInitialFiles
  Overwrite = {TRUE, FALSE}
  MaxCommands = 3
  MaxKills = 1
INVARIANTS
  LocalTypeOK
  CompletedHasOutputs
  SuccessIsComplete
  NeverStalled
  RunningHasWorker
PROPERTIES
  ImplementsLifecycle
