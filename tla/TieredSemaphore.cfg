SPECIFICATION FairSpec
CONSTANTS
  Requests = {r1, r2, r3}
  Tiers <- MCTiers
  Slots <- MCSlots
  Multi <- MCMulti
  Patience = 2
  NoTier = NoTier
INVARIANTS PermitsConserved BusyInTime
PROPERTIES GateSpec EveryAcquireEnds
