SPECIFICATION FairSpec
CONSTANTS
  t1 = t1
  t2 = t2
  NoToken = NoToken
  NoTier = NoTier
  r1 = r1
  r2 = r2
  Requests <- MCRequests
  Tokens <- MCTokens
  InitialPool <- MCPool
  Names <- MCNames
  NameOf <- MCNameOf
  Deltas <- MCDeltas
  Rests <- MCRests
  Tiers <- MCTiers
  Limit <- MCLimit
  Handler <- MCHandler
  Edited <- MCSubscriber
  Subscriber <- MCSubscriber
  Points <- MCPoints
  ScoreCap = 1
  FailureThreshold = 2
  SuccessToClose = 1
  BaseCooldown = 1
  MaxCooldown = 1
  TripCap = 1
  MaxAttempts = 2
INVARIANTS UpstreamWall FailureIsReported RowsOnce
PROPERTY EveryRequestEnds
