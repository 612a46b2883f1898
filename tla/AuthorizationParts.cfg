\* The parts of the authorization server, with every fault of their stores.
CONSTANTS
  None = None
  Tokens = {t1, t2}
  Ops = {o1, o2}
  StoreFaults = TRUE
  SignIns = {s1, s2, s3}
  Users = {u1, u2}
  Clients = {c1, c2}
  Trusted = {c2}
  WriteFaults = TRUE
  Requests = {r1, r2}
  CacheAge = 2
  STALE_MAX_AGE = 1
  LAST_GOOD_TTL = 4
  MaxLatency = 1
  MaxNow = 9
SPECIFICATION Spec
SYMMETRY Symmetry
INVARIANTS RevocationReaches GrantsJustified LoneSignInKeepsTokens OutageEnds
PROPERTIES ConsumedForGood
