CONSTANTS
  o1 = o1
  o2 = o2
  q1 = q1
  h1 = h1
  h2 = h2
  p1 = p1
  p2 = p2
  NoOrder = NoOrder
  NoPayment = NoPayment
  Order = {o1, o2}
  Product = {q1}
  Payment = {p1}
  Handler = {h1}
  Cart <- SharedCarts
  InitialStock <- TwoUnits
  MaxStock = 2
  Payable = {o1}
  OfficeStatus = {"done", "canceled"}
  KeyLapses = FALSE
SPECIFICATION Spec
INVARIANT ReservedProductsExist
PROPERTIES
  RefinesLedger
  NothingReopens
CHECK_DEADLOCK FALSE
