CONSTANTS
  Workers = {w1, w2}
  Kinds = {"roll"}
  IsOrganizer = FALSE
  Points = 24
  MaxRequests = 2
  MaxVerdicts = 0
  NoPart = NoPart
SPECIFICATION Spec
INVARIANTS BonusIsIdempotent
CHECK_DEADLOCK FALSE
