\* One process, and what its event loop guarantees every caller.
CONSTANTS
  p1 = p1
  p2 = p2
  c1 = c1
  c2 = c2
  None = None
  Procs = {p1}
  Calls = {c1, c2}
  Background = {c2}
  ProcOf <- MCProcOf
  Slots = {1, 2}
  MaxGrants = 2
  Scopes = {"full"}
  DiskFaults = FALSE
SPECIFICATION FairSpec
INVARIANTS RefreshDiscipline SignInExcludesRefresh
PROPERTIES CallsReturn
