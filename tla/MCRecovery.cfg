SPECIFICATION RecoverySpec
CONSTANTS
  p1 = p1
  r1 = r1
  r2 = r2
  a = a
  b = b
  fa = fa
  Proc <- MCProc
  Job <- MCJob
  Submitter <- MCSubmitter
  Resumer <- MCResumer
  Task <- MCTask
  File <- MCFile
  Parents <- MCParents
  Inputs <- MCInputs
  Outputs <- MCOutputs
  TaskOverwrite = {}
  MaxAttempt = 3
  TaskOrder <- MCTaskOrder
  Retries <- MCRetries
  PostflightName = "postflight"
  HasPostflight = FALSE
  InitialFiles <- MCInitialFiles
  Overwrite = {TRUE}
  AskOverwrite = {FALSE}
  Backends = {"slurm", "pbs"}
  MaxCommands = 1
  MaxResumes = 2
  MaxKills = 1
SYMMETRY ResumerSymmetry
INVARIANTS
  RecoveryTypeOK
  LiveJobsKnown
  AttemptsFollowDependencies
PROPERTIES
  ImplementsQueuedCampaign
  UnconfirmedStops
