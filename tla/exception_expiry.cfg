SPECIFICATION Spec
CONSTANTS
  Controllers = {"source-controller"}
  Clean = {}
  MaxDays = 2
  Horizon = 2
  MaxEdits = 0
  MaxReviews = 0
  None = None
INVARIANTS ExpiredIsRefused
CHECK_DEADLOCK FALSE
