SPECIFICATION Spec
CONSTANTS
  N = 3
  PageSize = 2
  Ttl = 2
  Clock = {0, 1, 2}
  NoRow = NoRow
INVARIANTS SweepMissesNothing SweepKeepsTheRest
PROPERTY SweepEnds
