SPECIFICATION FairSpec
CONSTANTS
  e1 = e1  e2 = e2  n1 = n1  n2 = n2  k1 = k1  k2 = k2
  raw = raw  zstd = zstd  s = s  t = t
  Engine = {e1, e2}
  NoEngine = NoEngine
  Namespace = {n1}
  NamespaceOf <- Together
  Path = {1, 2}
  Text = {s, t}
  Key = {k1, k2}
  NoKey = NoKey
  NoAad = NoAad
  Base = {raw, zstd}
  KnownBase = {raw}
  Absent = Absent
  PageRows = 1
  Foreign <- Exports
INVARIANTS IInv OwnEntriesReadable
PROPERTIES RotationSealsEveryEntry RotationEnds
