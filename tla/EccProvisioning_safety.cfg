SPECIFICATION Spec
CONSTANTS
  k1 = k1
  k2 = k2
  Wifis = {home}
  Keys = {k1, k2}
  None = None
  Unknown = Unknown
  Offers <- MCOffers
INVARIANTS TypeOK ToldIsKept FlagIsLast
PROPERTIES LockIsLast
