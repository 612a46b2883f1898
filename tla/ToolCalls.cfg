\* Every tool, every failure of each request, three attempts.
CONSTANTS
  Tools <- ToolSet
  Brands = {"b1", "b2", "b3"}
  Listed = {"b1", "b2"}
  BySubdomain = {"b2"}
  PageCap = 3
  MaxRounds = 2
  MaxAttempts = 3
SPECIFICATION Spec
INVARIANTS ActsWithinItsLimits AnswersAreTrue AppliedOnce NotesAreTrue
PROPERTIES CallEnds
