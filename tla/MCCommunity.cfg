CONSTANTS
  w1 = w1  w2 = w2
  i1 = i1  i2 = i2
  c1 = c1  c2 = c2
  h1 = h1  h2 = h2  h3 = h3
  ann = ann  bob = bob
  NoCase = NoCase
  Procs = {w1, w2}
  Ids = {i1, i2}
  Cases = {c1, c2}
  PendingLimit = 1
  MaxSubmissions = 1
  AllowedTips = 1
  MaxRequests = 4
  Visitors = {h1, h2, h3}
  Voter <- MCVoter
  Solver = ann
  Topics = {topic}
  topic = topic
  Users = {"ann", "bob"}
  Orgs = {"club", "town", "land"}
  Open = {"town", "land"}
  Slots <- MCSlots
  MaxPublic = 1
  EditAll = {}
  Asked = {i1, i2}
  Clerks = {w1, w2}
  Nobody = Nobody
  MaxVisits = 4
  Readers = {w1, w2}
  NoPiece = NoPiece
  MaxEdits = 2
  Things = {1, 2, 3}
  Fans = {1, 2, 3}
  PageSize = 1
  BoardSize = 2
  MaxPoints = 2
  MaxPages = 20
  MaxUpsets = 2
  NoSet = NoSet
  Verdicts = {i1, i2}
  Derivers = {w1, w2}
  Lookers = {1}
  MaxChanges = 4
  Tickets = {1, 2}
  People = {"ann", "bob"}
  Viewer = "ann"
  ManageAll = {}
  Muted = {}
  Subjects = {"p", "q"}
  Authors <- MCAuthors
  Editable <- MCEditable
  Accessible <- MCAccessible
  Servers = {w1, w2}
  Lists <- MCLists
  MaxMessages = 2
  MaxErrands = 2
  Exercises = {1, 2, 3}
  Sql = {2, 3}
  Divisible = {1}
  Exam = {1}
  Handouts = {"t", "u"}
  NoEntry = NoEntry
  PageLength = 1
  Entries = 2
  MaxWorks = 2
  MaxDeeds = 4
  Staff = {"ann", "bob", "cal"}
  Organizers = {"bob", "cal"}
  Holds <- MCHolds
  Desks = {w1, w2}
  MaxRuns = 2
  MaxDuties = 4
  Meets = {1, 2}
  Terms <- MCTerms
  NoLimit = NoLimit
  Limits = {2, NoLimit}
  Never = Never
  DayLength = 2
  WeekLength = 2
  MonthLength = 3
  MaxNow = 12
SPECIFICATION CommunitySpec
INVARIANTS OneHintPerSubmission ScoreIsTally
   PiecesAreFresh  StandingIsRight 
PROPERTIES EachIsALimit
SYMMETRY CommunitySymmetry
CHECK_DEADLOCK FALSE
