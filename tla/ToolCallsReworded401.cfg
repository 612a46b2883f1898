\* The 401 that reorder_article rewords.
CONSTANTS
  Tools <- ToolSet
  Brands = {"b1", "b2", "b3"}
  Listed = {"b1", "b2"}
  BySubdomain = {"b2"}
  PageCap = 3
  MaxRounds = 2
  MaxAttempts = 3
SPECIFICATION Spec
INVARIANT EveryRefusedTokenDropped
