CONSTANTS
  s1 = s1  s2 = s2  s3 = s3
  c1 = c1  c2 = c2
  n1 = n1  n2 = n2
  p1 = p1  p2 = p2
  Subs = {s1, s2}
  Conns = {c1, c2}
  Names = {n1, n2}
  NameOf <- MCNameOf
  Problems = {p1, p2}
  ProblemOf <- MCProblemOf2
  Outcomes <- AllOutcomes
  LastPriority = 1
  HotReload = TRUE
  AnyJudge = AnyJudge
  NoSub = NoSub
  NoConn = NoConn
  e1 = e1  e2 = e2
  Editors = {e1, e2}
  Last = 3
  Archive = "zip"
  Contents = {"f"}
  Database = TRUE
  MaxPosts = 2
  Tables <- MCTables
  Offered <- MCOffered
  Handed = {1, 2}
  Remarks = {3}
  ResultOf <- MCResultOf
  CodeOf <- MCCodeOf
  Forms <- MCForms
  Clients = {e1, e2}
  RateLimit = 1
  MaxOrders = 2
  MaxClock = 3
  MaxAccidents = 1
SPECIFICATION AllSpec
INVARIANTS QueueConsistent WorkConserving PoolIsHonest InitIsRight ExportHolds
CHECK_DEADLOCK FALSE
