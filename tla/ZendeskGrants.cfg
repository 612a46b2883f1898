\* One grant, and every order of its operations, to their end.
CONSTANTS
  g1 = g1
  g2 = g2
  o1 = o1
  o2 = o2
  o3 = o3
  None = None
  Refused = Refused
  Grants = {g1}
  Ops = {o1, o2, o3}
  MaxTokens = 2
  StoreFaults = TRUE
SPECIFICATION FairSpec
INVARIANTS OneRefreshPerGrant RemovedStaysRemoved
PROPERTIES OnlyRefusedDropped CredentialKept OperationsSettle RevocationCompletes
