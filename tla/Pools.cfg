SPECIFICATION Spec
CONSTANTS
  t1 = t1  t2 = t2  t3 = t3
  Task = {t1, t2, t3}
  Size = 3
  Kinds = {"pool", "sync", "async"}
  Workers = 2
  Wrap = 4
  MaxCalls = 5
  Nobody = Nobody
INVARIANTS EnginesAreUsedAlone SlotsAreAllTried
PROPERTY CallsReturn
CHECK_DEADLOCK FALSE
