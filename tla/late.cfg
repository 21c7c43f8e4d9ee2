CONSTANTS
  m1 = m1
  m2 = m2
  m3 = m3
  e1 = e1
  e2 = e2
  t1 = t1
  h1 = h1
  h2 = h2
  j1 = j1
  j2 = j2
  None = None
  Member = {m1, m2}
  Email = {e1, e2}
  Telegram = {t1}
  Handler = {h1}
  Jti = {j1}
  Legacy = {m1, m2}
  OldEmail <- OldAddresses
  Kind = {"link", "photo", "votes"}
  Ruling = {"pending", "verified"}
  MaxVersion = 2
SPECIFICATION Spec
INVARIANTS
  OneProfilePerTelegram
  ErasedStayOut
CHECK_DEADLOCK FALSE
