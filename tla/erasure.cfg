CONSTANTS
  m1 = m1
  m2 = m2
  m3 = m3
  e1 = e1
  e2 = e2
  t1 = t1
  h1 = h1
  h2 = h2
  j1 = j1
  j2 = j2
  None = None
  Member = {m1}
  Email = {e1}
  Telegram = {}
  Handler = {h1}
  Jti = {}
  Legacy = {m1}
  OldEmail <- OldAddress
  Kind = {"profile", "push", "orders"}
  Ruling = {"pending", "verified"}
  MaxVersion = 2
SPECIFICATION Spec
INVARIANT ErasureIsFinal
CHECK_DEADLOCK FALSE
