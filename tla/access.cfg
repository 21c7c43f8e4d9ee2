CONSTANTS
  m1 = m1
  m2 = m2
  m3 = m3
  e1 = e1
  e2 = e2
  t1 = t1
  h1 = h1
  h2 = h2
  j1 = j1
  j2 = j2
  None = None
  Member = {m1, m2, m3}
  Email = {e1}
  Telegram = {}
  Handler = {h1, h2}
  Jti = {j1, j2}
  Legacy = {m1}
  OldEmail <- OldAddress
  Kind = {}
  Ruling = {"verified"}
  MaxVersion = 2
SPECIFICATION Spec
SYMMETRY Alike
INVARIANTS
  OneAccountPerEmail
  ResetLinksAreSpent
PROPERTIES
  RefinesAccess
CHECK_DEADLOCK FALSE
