CONSTANTS
  o1 = o1
  o2 = o2
  q1 = q1
  h1 = h1
  h2 = h2
  p1 = p1
  p2 = p2
  NoOrder = NoOrder
  NoPayment = NoPayment
  Order = {o1}
  Product = {q1}
  Payment = {p1}
  Handler = {h1}
  Cart <- OneCart
  InitialStock <- OneUnit
  MaxStock = 1
  Payable = {o1}
  OfficeStatus = {"new", "in_progress", "done", "canceled"}
  KeyLapses = FALSE
SPECIFICATION FairSpec
PROPERTIES
  OverdueIsSettled
  SuccessIsRecorded
CHECK_DEADLOCK FALSE
