\* Three addresses: a watchpoint, the one it replaces and the next.
CONSTANTS
  Addr = {a1, a2, a3}
  NoAddr = none
SPECIFICATION FairSpec
INVARIANTS FlagMatchesRegister ArmedIsKnown
PROPERTIES FaultReachesTarget
