CONSTANTS
  None = None
  cfg = cfg  la = la  lb = lb  pw = pw  ea = ea  eb = eb
  Paths <- MCPaths
  ConfigPath = cfg
  Files <- MCFiles
  BootDisks <- MCBootDisks
  MaxChanges = 1
SPECIFICATION Spec
INVARIANTS VerdictTrue SealedInOnePiece SealedFromProvenFiles LimitsFit
CHECK_DEADLOCK FALSE
