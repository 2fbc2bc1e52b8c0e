SPECIFICATION FairSpec
CONSTANTS
  Requests = {r1, r2}
  Convs = {k1}
  free = free
  sub = sub
  Creds <- MCCreds
  Tier <- MCTier
  Tiers <- MCCreds
  Limit <- MCLimit
  Threads = {t1, t2}
  NoThread = NoThread
  NoTier = NoTier
INVARIANTS OwnThread StreamsBounded
PROPERTIES PermitComesBack HeardIsListed GoneIsGivenUp
