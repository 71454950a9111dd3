SPECIFICATION Spec
CONSTANTS
  e1 = e1  e2 = e2  c1 = c1  c2 = c2  c3 = c3  c4 = c4
  small = small  large = large  head = head  other = other  m1 = m1  m2 = m2
  Engine = {e1, e2}
  Contents = {c1, c2}
  Sizes = {small, large}
  Samples = {head, other}
  Size <- SizeOf
  Sample <- SampleOf
  Mtime = {m1, m2}
  NoHash = NoHash
  Gone = Gone
  NoRow = NoRow
  Configs <- Versions
  MaxId = 2
  MaxChanges = 2
SYMMETRY Symmetry
INVARIANT FreshHitsHaveTheVersion
CHECK_DEADLOCK FALSE
