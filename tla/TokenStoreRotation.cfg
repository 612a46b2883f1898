\* One process and three grants: a token is rotated twice.
CONSTANTS
  p1 = p1
  p2 = p2
  c1 = c1
  c2 = c2
  None = None
  Procs = {p1}
  Calls = {c1, c2}
  Background = {c2}
  ProcOf <- MCProcOf
  Slots = {1, 2}
  MaxGrants = 3
  Scopes = {"full"}
  DiskFaults = FALSE
SPECIFICATION Spec
PROPERTIES NoReplacedTokenServed TokenNeverRegresses
