SPECIFICATION Spec
CONSTANTS
  t1 = t1  t2 = t2  w1 = w1  w2 = w2  w3 = w3  fk = fk
  Nobody = Nobody  Conn = Conn
  Handles <- TwoHandles
  Writes <- WritesAndBad
  BadWrites <- OnlyFk
  Names = {"_rusqlite_sp"}
  Faults = {"busy"}
  Options = {"default", "exclusive"}
  Drops = {"commit", "ignore"}
  Defaults = {}
  MaxDepth = 2
  MaxSavepoints = 0
  RawSql = FALSE
  TclInCallback = TRUE
SYMMETRY Interchangeable
INVARIANTS
  TypeOK OpenOwnsTransaction NothingDurableBeforeCommit CommitPersists
PROPERTIES
  FailedSavepointUndone HandleEndsOwnTransaction
