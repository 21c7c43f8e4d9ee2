CONSTANTS
  m1 = m1
  m2 = m2
  e1 = e1
  c1 = c1
  c2 = c2
  pass1 = pass1
  pass2 = pass2
  k1 = k1
  Nobody = Nobody
  NoKey = NoKey
  Never = Never
  Member = {m1}
  Event = {}
  Clerk = {}
  Pass = {pass1, pass2}
  Referrer <- Uninvited
  ServiceKey = {k1}
  Amount <- Credits
  EventPoints = {60}
  ReferralPoints = 80
  Day = {0, 30, 31, 58, 61}
  MonthOf <- Months
  MaxRows = 3
  MaxTickets = 2
SPECIFICATION Spec
PROPERTY DecayIsFair
CHECK_DEADLOCK FALSE
