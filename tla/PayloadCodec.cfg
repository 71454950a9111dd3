SPECIFICATION Spec
CONSTANTS
  Base = 4
  LenBytes = 1
  IndexBytes = 1
  IntBytes = 2
  UsizeMax = 2
  DepthLimit = 2
  Utf8Width <- Widths
  Chars <- TwoChars
  Unknown = Unknown
  Cases <- AllCases
  Types <- AllTypes
  Inputs <- SomeInputs
  Tails <- SomeTails
  NoValue = NoValue
  NoResult = NoResult
INVARIANTS WrittenIsReadBack ReadIsWhatIsThere WorkIsBounded
CHECK_DEADLOCK FALSE
