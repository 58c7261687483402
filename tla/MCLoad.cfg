SPECIFICATION Spec
CONSTANTS
  MaxWalltime = 180000
  None = None
  Tables <- TablesValue
  Sources <- SourcesValue
INVARIANTS
  AcceptedGraphSound
  RowsCorrelated
  ParentsAreMatchingRows
  WalltimeKept
