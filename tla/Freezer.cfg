\* Three addresses for two entries: the table can be full.  Products of 1 and 3
\* modulo 4.  The thread may be stopped, which no caller in the project does.
CONSTANTS
  Addr = {a1, a2, a3}
  NullAddr = null
  Word = 4
  MaxEntries = 2
  Operands = {3}
  GameValues = {1}
  StopCalled = TRUE
SPECIFICATION FairSpec
INVARIANTS TypeOK UniqueAddresses SweepSeesTable
PROPERTIES ImplementsTable FrozenValueHeld NoEndlessScaling CallsReturn
