\* Three bytes: a U16 and the byte after it, or three U8.
SPECIFICATION Spec
CONSTANTS
  Size = 3
  UintModulus = 4
  Radix = 2
  Types = {0, 1}
  ScanValues = {1}
  Null = Null
  ScanKinds = {"EXACT", "UNKNOWN", "INCREASED"}
  Orders <- OverlappingOrders
  MaxEntries = 2
INVARIANTS TypeOK PreviousAsScanned OrderAsGiven SweepHolds FrozenIsFound
PROPERTIES SweepConfined
