SPECIFICATION WTSpec
CONSTANTS
  w1 = w1
  w2 = w2
  Creds = {c1, c2, c3}
  Writers <- MCWriters
  Files <- MCFiles
  NoFile = NoFile
  Cap = 2
  Ttl = 2
  MaxNow = 2
VIEW MCView
INVARIANTS WTTypeOK FileIsWhole SavedWhenOk
PROPERTY OldestGoFirst
