CONSTANTS
  w1 = w1  w2 = w2
  Workers = {w1, w2}
  Kinds = {"join", "leave", "roll", "organization"}
  IsOrganizer = FALSE
  Points = 14
  MaxRequests = 2
  MaxVerdicts = 2
  NoPart = NoPart
  ua = ua  ub = ub
  Rateable = {1, 2}
  Contestants = {ua, ub}
  Floor <- MCFloor
  Ceiling <- MCCeiling
  RateAll = {}
  NoLimit = NoLimit
  Unrated = Unrated
  MaxScore = 1
  Raters = {w1, w2}
  MaxRatings = 2
  MaxCorrections = 1
  Problems = {1, 2}
  PointsOf <- MCPointsOf
  Partial = {2}
  Penalty = 1
  CumTime = TRUE
  FirstBonus = 1
  TimeBonus = 2
  EndTime = 4
  Players = {1, 2, 3}
  Guests = {3}
  BoardFormats = {"default", "icpc", "ecoo"}
  Verdicts <- MCVerdicts
  Freezes = {3}
  Recent = 1
  MaxSent = 2
  MaxTime = 4
SPECIFICATION SiteSpec
INVARIANTS VirtualsAreNumbered LedgerHolds BarredIsOutside 
PROPERTIES EveryRequestEnds
CHECK_DEADLOCK FALSE
