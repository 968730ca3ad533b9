SPECIFICATION Spec
CONSTANTS
  a = a  b = b  Null = Null  Huge = Huge
  Statements = {s1}
  Temporary = Temporary
  NoStatement = NoStatement
  Values <- TwoValues
  Writes <- AllowedRows
  BadWrites <- OrphanRows
  Names = {}
  Faults = {"busy"}
  Parameters <- FewParameters
  Kinds = {"select", "insert"}
  Apis = {"execute", "query"}
PROPERTIES
  QueryReturnsEveryRow
