CONSTANTS
  w1 = w1  w2 = w2
  p1 = p1  p2 = p2
  Workers = {w1, w2}
  Problems = {p1, p2}
  PointsOf <- MCPointsOf
  Partial = {p1, p2}
  Penalty = 3
  CumTime = TRUE
  FirstBonus = 2
  TimeBonus = 2
  EndTime = 5
  Formats = {"default", "icpc", "atcoder", "ioi", "ioi16", "ecoo"}
  Outcomes <- Some
  Failures = {"CE"}
  MaxSubs = 2
  MayBeFor <- MCMayBeFor
  MaxRequests = 2
SPECIFICATION Spec
INVARIANTS RowIsCurrent BoardIsSound PointsFollowVerdicts DisqualificationHolds
CHECK_DEADLOCK FALSE
SYMMETRY Symmetry
