SPECIFICATION Spec
CONSTANTS
  u1 = u1
  b1 = b1
  b2 = b2
  q1 = q1
  q2 = q2
  a1 = a1
  m1 = m1
  o1 = o1
  o2 = o2
  Category = {1, 2, 3}
  Hour = 1
  Day = 4
  MaxTime = 11
  User = {u1}
  Button = {b1, b2}
  Request = {q1, q2}
  DailyVoteLimit = 2
  Cooldown = 2
  WatchCap = 1
  ToggleWindow = 1
  ToggleLimit = 2
  MaxClicks = 3
  MaxVoteFaults = 1
  Uri = {"u1"}
  Image = {"i1"}
  Operator = {o1, o2}
  MaxIconFaults = 1
  MaxChanges = 1
  MaxDecisions = 2
  PageSize = 1
  TopSize = 2
  FirstSize = 1
  Reporter = {a1}
  Moderator = {m1}
  ReportWindow = 2
  LimitPerIp = 1
  LimitPerCategory = 1
  PageOfReports = 1
  MaxReports = 2
  MaxSends = 2
  MaxReportFaults = 1
  HistogramDecimals = {0, 1}
  SupplyEdge <- Edges
  OwnerSize = 2
  OfferSize = 1
  MinOwners = 2
  RankSize = 2
  ShareBadge = 10
  MinTop = 2
  Global = 60
  BuyFee <- Fees
  SellFee <- Fees
  Key = {"grid", "leaders", "movers"}
  FreshFor <- FreshTicks
  StaleFor <- StaleTicks
  SlowQuery = 1
  MaxMemoFaults = 1
  MaxLoads = 4
  MaxTyped = 2
  MaxGridFaults = 1
  First <- FirstStates
  Buttons <- TwoButtons
  Served <- ServedFirst
  Horizon <- Clocks
  MaxModerations = 1
SYMMETRY Same
CHECK_DEADLOCK FALSE
INVARIANTS
  
  
  
  GridMatchesUrl
  BlockStands
