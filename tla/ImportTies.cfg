SPECIFICATION Spec
CONSTANTS
  e1 = e1  e2 = e2  e3 = e3  e4 = e4  n1 = n1  n2 = n2  a = a  b = b  c = c
  Engine = {e1, e2}
  Namespace = {n1}
  Path = {a, b}
  NamespaceOf <- OneNamespace
  MaxEntries <- BoundedAndNot
  Unbounded = Unbounded
  ReadOnly = {}
  NoEngine = NoEngine
  Clock = {0, 3}
  MaxId = 3
  UseLimit = 5
  MicrosPerSecond = 2
  StoreBatches <- Batches
  ImportBatches <- Imports
SYMMETRY Symmetry
INVARIANT ImportTiesFollowRecords
