CONSTANTS
  m1 = m1
  m2 = m2
  e1 = e1
  c1 = c1
  c2 = c2
  pass1 = pass1
  pass2 = pass2
  k1 = k1
  Nobody = Nobody
  NoKey = NoKey
  Never = Never
  Member = {m1, m2}
  Event = {e1}
  Clerk = {c1, c2}
  Pass = {}
  Referrer <- Invited
  ServiceKey = {}
  Amount = {}
  EventPoints = {60}
  ReferralPoints = 80
  Day = {0, 1}
  MonthOf <- Months
  MaxRows = 2
  MaxTickets = 2
  Guest = {g1}
  Clock = {424, 785, 791}
  FirstYear = 2027
  Window = 10
  MaxPaid = 2
  MaxCuts = 1
  Limited = {"global", "route"}
  Maximum <- Maxima
  Span <- Spans
  Sweep = 1
  Keep = 3
  Visitor = {v1, v2}
  Login = {h1, h2, h3}
  MaxEmail = 2
  MaxIp = 3
  LockEmail = 2
  LockIp = 4
  AttemptSpan = 2
  EndOfTime = 6
  Profile = {p1, p2}
  Account = {a1}
  Post = {x1}
  MaxUpdates = 3
  MaxSecond = 2
  MaxRepeats = 1
  Person = {y1, y2}
  MaxLinks = 3
  Poll = {q1}
  Option = {o1, o2}
  Source = {w1, w2}
  Url = {u1, u2}
  MaxNews = 2
  MaxRefresh = 3
  Text = {z1, z2}
  Short = z0
  PageSize = 1
  Pages = 2
  MaxRecords = 3
  MaxPosts = 4
  MaxChanges = 1
SPECIFICATION MembersSpec
INVARIANTS
  CreditsAreDue
  CacheFollowsLedger
  RemindersMatchFlags
  PaidYearsLast
  LimitsAreKept
  ReactionsFollow
  NoUpdateIsSkipped
  FriendsAgree
  ResultsStand
  NewsFollowInbox
  FeedIsWhole
CHECK_DEADLOCK FALSE
