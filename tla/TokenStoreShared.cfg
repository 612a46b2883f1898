\* Two processes on one token file, on a disk that may fail.
CONSTANTS
  p1 = p1
  p2 = p2
  c1 = c1
  c2 = c2
  None = None
  Procs = {p1, p2}
  Calls = {c1}
  Background = {}
  ProcOf <- MCProcOf
  Slots = {1, 2}
  MaxGrants = 2
  Scopes = {"full", "narrow"}
  DiskFaults = TRUE
SPECIFICATION Spec
INVARIANTS DurableToken
PROPERTIES CredentialKept
