SPECIFICATION FairSpec
CONSTANTS
  a = a  b = b  Null = Null  Huge = Huge
  Statements = {s1}
  Temporary = Temporary
  NoStatement = NoStatement
  Values <- TwoValues
  Writes <- AllowedRows
  BadWrites <- OrphanRows
  Names = {}
  Faults = {"busy", "io", "special"}
  Parameters <- SomeParameters
  Kinds = {"select", "insert", "insert or ignore", "insert returning", "begin", "commit", "rollback"}
  Apis = {"execute", "insert", "query", "exists", "query_row", "query_one"}
INVARIANTS
  TypeOK IdleBetweenCalls BindingsAreParams InterruptDoesNotLeak
PROPERTIES
  InsertReturnsItsRowid ExecuteIsSqlInsert FailedCallUndone ReturnMeansDone
  ImplementsStore StepsRunOut CallsEnd
