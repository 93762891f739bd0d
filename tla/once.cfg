SPECIFICATION FairSpec
CONSTANTS
  t1 = t1
  t2 = t2
  t3 = t3
  o1 = o1
  o2 = o2
  Thread = {t1, t2, t3}
  Control = {o1, o2}
INVARIANTS
  OnceSound
PROPERTIES
  OnceCallsReturn
