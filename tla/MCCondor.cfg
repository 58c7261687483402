SPECIFICATION CondorSpec
CONSTANTS
  p1 = p1
  r1 = r1
  r2 = r2
  a = a
  b = b
  fa = fa
  Proc <- MCProc
  Dag <- MCDag
  Submitter <- MCSubmitter
  Resumer <- MCResumer
  Task <- MCTask
  File <- MCFile
  Parents <- MCParents
  Inputs <- MCInputs
  Outputs <- MCOutputs
  TaskOverwrite = {}
  MaxAttempt = 2
  Retries <- MCRetries
  StartupRetries <- MCStartupRetries
  Wrapped = {a}
  InitialFiles <- MCInitialFiles
  Overwrite = {TRUE, FALSE}
  AskOverwrite = {FALSE}
  MaxCommands = 1
  MaxResumes = 2
  MaxKills = 1
SYMMETRY ResumerSymmetry
INVARIANTS
  CondorTypeOK
  EarlyNodesSeePolicy
  PayloadsCharged
  OneLiveNode
  PostflightFollowsAll
PROPERTIES
  RescueKeepsCompleted
