SPECIFICATION WorkerSpec
CONSTANTS
  p1 = p1
  p2 = p2
  p3 = p3
  a = a
  fa = fa
  fin = fin
  Proc <- MCProc
  Task <- MCTask
  File <- MCFile
  Parents <- MCParents
  Inputs <- MCInputs
  Outputs <- MCOutputs
  TaskOverwrite = {}
  MaxAttempt = 4
SYMMETRY ProcSymmetry
INVARIANTS
  WorkerTypeOK
  AttemptOwned
  AttemptsContiguous
  StateBackedByAttempt
  CallConsistent
PROPERTIES
  TerminalAttemptsKept
