\* The other parts of a server.  A process ends and a call is answered: the
\* system stops there.
CONSTANTS
  None = None
  Processes = {p1, p2, p3}
  MaxCrashes = 1
  MaxEdits = 4
  MaxFaults = 2
  Catalog <- MCCatalog
  MaxTools = 2
  a = a
  b = b
  c = c
  Articles = {a, b, c}
  AutoOrder <- MCAutoOrder
  ConfirmThreshold = 2
  MaxPosition = 2
  MaxFailures = 1
SPECIFICATION FairSpec
INVARIANTS SweepsAreSafe ServedIsStored NoClash CleanlyIsClosed SurfaceHolds ReorderIsTrue
PROPERTIES ExpiredGoes EditsHaveTheirTurn ProcessEnds
CHECK_DEADLOCK FALSE
