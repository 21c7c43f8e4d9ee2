CONSTANTS
  f1 = f1
  f2 = f2
  f3 = f3
  m1 = m1
  m2 = m2
  p1 = p1
  p2 = p2
  None1 = None1
  File = {f1, f2, f3}
  Item = {i1}
  Member = {m1, m2}
  None = None1
  Process = {p1, p2}
  FirstPhoto <- OldPhoto
  MaxChanges = 2
  MaxStops = 1
SPECIFICATION Spec
SYMMETRY Symmetry
INVARIANTS
  FilesResolve
  PhotosFollowMembers
  NothingLeftBehind
CHECK_DEADLOCK FALSE
