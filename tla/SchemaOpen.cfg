SPECIFICATION Spec
CONSTANTS
  p1 = p1  p2 = p2  p3 = p3  n1 = n1  n2 = n2  x = x  y = y
  Process = {p1, p2}
  Databases <- All
  Requests = {"preserve", "delete"}
  Namespace = {n1, n2}
  Content = {x, y}
  UseLimit = 9
  MicrosPerSecond = 2
  NanosPerSecond = 10
  MtimeBound = 2
  MaxId = 6
SYMMETRY Symmetry
INVARIANTS IInv OpenMeansCurrent EntriesSurvive UseOrderKept MigrationsPassTheirChecks StaysRecognized JournalIsPreserved
PROPERTY IdsAreNotReused
