SPECIFICATION FairSpec
CONSTANTS
  t1 = t1
  t2 = t2
  w1 = w1
  w2 = w2
  a1 = a1
  a2 = a2
  NoThread = NoThread
  NoAddress = NoAddress
  Thread = {t1, t2}
  Word = {w1, w2}
  Address = {a1, a2}
  MaxDepth = 2
INVARIANTS
  LockSound
  NoLeak
PROPERTIES
  IsGameLock
  LockCallsReturn
