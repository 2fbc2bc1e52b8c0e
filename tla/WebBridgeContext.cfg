SPECIFICATION Spec
CONSTANTS
  Requests = {r1}
  Convs = {k1, k2}
  free = free
  sub = sub
  Creds <- MCCreds
  Tier <- MCTier
  Tiers <- MCCreds
  Limit <- MCLimit
  Threads = {t1, t2}
  NoThread = NoThread
  NoTier = NoTier
INVARIANT SameConversation
