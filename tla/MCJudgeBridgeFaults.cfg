CONSTANTS
  s1 = s1
  s2 = s2
  c1 = c1
  c2 = c2
  n1 = n1
  n2 = n2
  p1 = p1
  w1 = w1
  w2 = w2
  AnyJudge = AnyJudge
  NoSub = NoSub
  NoConn = NoConn
  Subs = {s1, s2}
  Conns = {c1}
  Names = {n1}
  NameOf <- MCSameName
  Problems = {p1}
  ProblemOf <- MCProblemOf
  Outcomes <- AllOutcomes
  LastPriority = 3
  HotReload = TRUE
  Webs = {w1}
  InContest = {}
  Wanted <- AnyOnly
  Declared <- AllDeclared
  NumCases = 1
  Verdicts = {"D"}
  WebOps = {"batch", "abort"}
  Faults = {"reset","shutdown","database","vanish","misack","crash","noabort","hangup"}
SPECIFICATION BridgeSpec
PROPERTIES UsesListAsSpecified
SYMMETRY Symmetry
CHECK_DEADLOCK FALSE
