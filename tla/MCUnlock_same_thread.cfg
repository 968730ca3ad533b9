SPECIFICATION Spec
CONSTANTS
  c1 = c1  c2 = c2  c3 = c3  main = main  t1 = t1  sch = sch
  Conns = {c1, c2, c3}
  NoConn = NoConn
  Thread <- SharedThread
  Schema = sch
  Tables = {t1}
  Ops <- ThreeWay
  Dropped = {}
INVARIANTS
  ThreadsNotStuck
