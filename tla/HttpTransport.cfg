\* Sessions of two users, one of them with two grants, and entries of one of the
\* grants, with what ends them.
CONSTANTS
  g1 = g1
  g2 = g2
  g3 = g3
  r1 = r1
  r2 = r2
  s1 = s1
  e1 = e1
  e2 = e2
  u1 = u1
  u2 = u2
  None = None
  Grants = {g1, g2, g3}
  Owner <- MCOwner
  Writers = {g1}
  Modern = {g1}
  Reqs = {r1, r2}
  Sessions = {s1}
  Entries = {e1, e2}
SPECIFICATION FairSpec
INVARIANTS EntriesAccounted SessionsOfOneUser
PROPERTIES EntriesCloseForCause StreamsEndWithGrant
\* Once the last of these few grants has ended, no request can come any more.
CHECK_DEADLOCK FALSE
