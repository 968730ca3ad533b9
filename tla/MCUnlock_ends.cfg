SPECIFICATION FairSpec
CONSTANTS
  c1 = c1  c2 = c2  c3 = c3  main = main  t1 = t1  sch = sch
  Conns = {c1, c2}
  NoConn = NoConn
  Thread <- OwnThread
  Schema = sch
  Tables = {t1}
  Ops <- TwoWay
  Dropped = {c1}
INVARIANTS
  ListProperties
PROPERTIES
  WaitsEnd
