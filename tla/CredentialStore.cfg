CONSTANTS
  h1 = h1
  h2 = h2
  c1 = c1
  c2 = c2
  t1 = t1
  nobody = nobody
  Nobody <- nobody
  Handlers <- MCHandlers
  Credentials <- MCCredentials
  Cookies <- MCCookies
  Backup <- MCBackup
SPECIFICATION Spec
INVARIANTS
  TypeOK
  PoolsFollowFile
PROPERTIES
  AnswersHold
