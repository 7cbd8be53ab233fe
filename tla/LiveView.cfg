CONSTANTS
  Addr = {a, b}
  RowAddr = {a}
  Type = {"U32", "FLOAT"}
  NoType = "none"
  Word = 2
  NoValue = noValue
  MaxUp = 2
  MaxDown = 1
SPECIFICATION Spec
INVARIANTS TypeOK
PROPERTIES RowFresh TreeShowsResults
