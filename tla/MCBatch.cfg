SPECIFICATION FairSpec
CONSTANTS
  p1 = p1
  a = a
  b = b
  fa = fa
  Proc <- MCProc
  Job <- MCJob
  Submitter <- MCSubmitter
  Task <- MCTask
  File <- MCFile
  Parents <- MCParents
  Inputs <- MCInputs
  Outputs <- MCOutputs
  TaskOverwrite = {}
  MaxAttempt = 2
  TaskOrder <- MCTaskOrder
  Retries <- MCRetries
  PostflightName = "postflight"
  HasPostflight = TRUE
  InitialFiles <- MCInitialFiles
  Overwrite = {TRUE, FALSE}
  MaxCommands = 2
  MaxKills = 1
INVARIANTS
  PostflightFollowsAll
  FailedSubmissionUnstarted
PROPERTIES
  CampaignEnds
