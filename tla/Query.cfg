SPECIFICATION Spec
CONSTANTS
  N = 3
  Mtimes = {1, 2}
  Payload <- Payloads
  Queries <- SomeQueries
  Chunk = 2
  NoRow = NoRow
  NoLimit = NoLimit
  NoQuery = NoQuery
  MaxChanges = 1
INVARIANTS QuietPageIsExact EntriesWereStored RowsThatStayAreServed 
