CONSTANTS
  s1 = s1
  s2 = s2
  c1 = c1
  c2 = c2
  n1 = n1
  n2 = n2
  p1 = p1
  w1 = w1
  w2 = w2
  AnyJudge = AnyJudge
  NoSub = NoSub
  NoConn = NoConn
  Subs = {s1, s2}
  Conns = {c1, c2}
  Names = {n1}
  NameOf <- MCSameName
  Problems = {p1}
  ProblemOf <- MCProblemOf
  Outcomes <- OnlySent
  LastPriority = 3
  HotReload = FALSE
  Webs = {w1}
  InContest = {s1}
  Wanted <- AnyOnly
  Declared <- AllDeclared
  NumCases = 2
  Verdicts = {"D", "AB"}
  WebOps = {"abort"}
  Faults = {"hangup"}
SPECIFICATION FairBridgeSpec
INVARIANTS VerdictIsComplete MapAgrees
PROPERTIES ImplementsDispatching AbortHitsItsTarget EventuallyJudged EventuallyFree
CHECK_DEADLOCK FALSE
