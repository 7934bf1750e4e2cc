CONSTANTS
  s1 = s1
  s2 = s2
  c1 = c1
  c2 = c2
  n1 = n1
  n2 = n2
  p1 = p1
  w1 = w1
  w2 = w2
  AnyJudge = AnyJudge
  NoSub = NoSub
  NoConn = NoConn
  Subs = {s1}
  Conns = {c1, c2}
  Names = {n1}
  NameOf <- MCSameName
  Problems = {p1}
  ProblemOf <- MCProblemOf
  Outcomes <- OnlySent
  LastPriority = 3
  HotReload = FALSE
  Webs = {w1, w2}
  InContest = {}
  Wanted <- AnyOnly
  Declared <- AllDeclared
  NumCases = 1
  Verdicts = {"D", "CE", "IE", "AB"}
  WebOps = {"rejudge", "abort"}
  Faults = {"hangup", "crash", "noreply"}
  SizeBytes = 2
  MAX_ALLOWED_PACKET_SIZE = 3
  HeaderBytes = 5
  Streams <- MCStreams
  Machines = {1, 2, 3, 4}
  Followed = {1}
  Titles = {"g", "g.1", "g.2", "g.3"}
  Title <- MCTitle
  GroupOf <- MCGroup
  Sockets = {w1, w2}
  Reports <- MCReports
  MaxForms = 2
  Assignments <- MCAssignments
  CaseReports <- MCCaseReports
  CasePoints = 100
  CombineOver = 2
  Layouts <- MCLayouts
  MaxRuns = 2
SPECIFICATION WireSpec
INVARIANTS InProgressHasOwner CasesOfOneRun StatusIsTrue 
PROPERTIES MarksOnlyGrow
SYMMETRY Symmetry
CHECK_DEADLOCK FALSE
