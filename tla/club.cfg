CONSTANTS
  File = {f1}
  Offsite = TRUE
  Revision = {1, 2}
  MaxSnap = 2
  Sync = {s1, s2}
  Card <- Cards
  MinCards = 1
  MaxPrograms = 3
  MaxEdits = 2
  Image = {i1, i2, i3}
  Reader = {r1, r2}
  Workers = 1
  MaxPending = 2
  MaxEntries = 2
  MaxBytes = 2
  Bytes = {1, 2}
  MaxLost = 1
  Tab = {t1, t2}
  Dpo = {d1}
  Merch = {k1, k2}
  MaxLines = 2
  MaxQty = 2
  Price = {1, 2}
  Stock = {1, 2}
  MaxUnits = 2
  MaxAltered = 1
  Task = {l1, l2, l3}
  Connections = 3
  Session = {b1, b2}
  Member = {m1}
  Order = {n1, n2}
  MaxProduct = 2
  Frame = {j1, j2}
  Public = {g1, g2, g3}
  Private = {z1}
  Pinned = {g1}
  MaxPages = 2
  MaxStops = 1
SYMMETRY Alike
SPECIFICATION ClubSpec
INVARIANTS
  ApiMeetsItsModels
  BackupsCanBeRestored
  PreviewsGiveBack
  OrdersTakeTheCart
  NoCircleOfProducts
  CopiesStayBounded
PROPERTY CatalogFollowsSource
CHECK_DEADLOCK FALSE
