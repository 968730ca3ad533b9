SPECIFICATION Spec
CONSTANTS
  t1 = t1  t2 = t2  w1 = w1  w2 = w2  w3 = w3  fk = fk
  Nobody = Nobody  Conn = Conn
  Handles = {t1}
  Writes <- OneAndBad
  BadWrites <- OnlyFk
  Names = {"_rusqlite_sp"}
  Faults = {"busy", "io", "special"}
  Options = {"default"}
  Drops = {"commit", "ignore", "panic"}
  Defaults = {"immediate"}
  MaxDepth = 1
  MaxSavepoints = 2
  RawSql = TRUE
  TclInCallback = TRUE
INVARIANTS
  EngineInv NoOrphanTransaction
PROPERTIES
  CommitsAreFinal ImplementsStore
