SPECIFICATION AmendSpec
CONSTANTS
  p1 = p1
  q1 = q1
  q2 = q2
  a = a
  b = b
  fa = fa
  Proc <- MCProc
  Task <- MCTask
  File = {fa}
  Parents <- MCNothing
  Inputs <- MCNothing
  Outputs <- MCOutputs
  TaskOverwrite = {}
  MaxAttempt = 1
  Amender <- MCAmender
  Command = {"c1", "c2"}
  Frozen <- MCFrozen
  MaxAmend = 2
SYMMETRY MCSymmetry
INVARIANTS
  AmendTypeOK
  ChainApplies
  ProvenanceExplained
