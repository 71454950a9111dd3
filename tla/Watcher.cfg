SPECIFICATION Spec
CONSTANTS
  a = a  b = b
  Path = {a, b}
  Modes = {"immediate", "debounced"}
  Capacity = 1
  MaxChanges = 2
  NoRow = NoRow
  NoSet = NoSet
  Idle = Idle
INVARIANTS OutdatedEntriesAreCounted RemovalsAreAccountedFor
PROPERTY OutdatedEntriesGo
