\* One address with rows and one that others freeze, two types, and one entry in
\* the freezer; one reconnection.
CONSTANTS
  Addr = {a, b}
  Others = {b}
  NullAddr = nullAddr
  Word = 1
  MaxEntries = 1
  Type = {"U32", "FLOAT"}
  NoType = "none"
  MaxConn = 2
  MaxUp = 3
SPECIFICATION FairSpec
INVARIANTS WatchListIsRows FrozenAsShown
PROPERTIES OrderTakesEffect
