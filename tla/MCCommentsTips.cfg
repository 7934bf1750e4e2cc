CONSTANTS
  w1 = w1  w2 = w2
  i1 = i1  i2 = i2
  c1 = c1  c2 = c2
  h1 = h1  h2 = h2  h3 = h3
  ann = ann  bob = bob
  NoCase = NoCase
  Procs = {w1, w2}
  Ids = {i1, i2}
  Cases = {c1, c2}
  PendingLimit = 2
  MaxSubmissions = 2
  AllowedTips = 1
  MaxRequests = 4
  Visitors = {h1, h2, h3}
  Voter <- MCVoter
  Solver = ann
  Topics = {topic}
  topic = topic
SPECIFICATION Spec
INVARIANTS TipsWithinLimit
SYMMETRY Symmetry
CHECK_DEADLOCK FALSE
