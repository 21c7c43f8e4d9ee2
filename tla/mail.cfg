CONSTANTS
  u1 = u1
  None1 = None1
  h1 = h1
  d1 = d1
  d2 = d2
  Mail = {1, 2, 3}
  User = {u1}
  None = None1
  Owner <- OldOfficeNew
  Unnamed = {1}
  Request = {h1}
  Drain = {d1, d2}
  MaxAttempts = 2
  Limit = 2
  MaxStops = 1
SPECIFICATION FairSpec
INVARIANTS
  OneSender
  ErasedAreLeftAlone
PROPERTY MailIsSettled
CHECK_DEADLOCK FALSE
