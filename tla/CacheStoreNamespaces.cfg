SPECIFICATION Spec
CONSTANTS
  e1 = e1  e2 = e2  e3 = e3  e4 = e4  n1 = n1  n2 = n2  a = a  b = b  c = c
  Engine = {e1, e2, e3, e4}
  Namespace = {n1, n2}
  Path = {a, b}
  NamespaceOf <- TwoNamespaces
  MaxEntries <- BoundOne
  Unbounded = Unbounded
  ReadOnly = {e4}
  NoEngine = NoEngine
  Clock = {0, 3}
  MaxId = 4
  UseLimit = 5
  MicrosPerSecond = 2
  StoreBatches <- Singles
  ImportBatches <- NoImports
SYMMETRY Symmetry
INVARIANT IInv
PROPERTY OtherNamespacesKept
