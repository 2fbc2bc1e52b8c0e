SPECIFICATION Spec
CONSTANTS
  t1 = t1
  t2 = t2
  NoToken = NoToken
  Requests = {r1, r2}
  Tokens <- MCTokens
  InitialPool <- MCPool
  Names <- MCNames
  NameOf <- MCNameOf
  Deltas <- MCDeltas
  Rests <- MCRests
  ScoreCap = 1
  FailureThreshold = 2
  SuccessToClose = 2
  BaseCooldown = 1
  MaxCooldown = 4
  TripCap = 2
INVARIANT BreakerConsistent
PROPERTIES RestIsHonoured HealthSpec
