CONSTANTS
  r1 = r1  r2 = r2
  Runs = {r1, r2}
  w1 = w1  w2 = w2
  Writers = {w1, w2}
  file = file
  Files = {file}
  Bundle = Bundle  Declaration = Declaration  Lib = Lib  Index = Index
  Own = Own
  t1 = t1  t2 = t2  t3 = t3
  Lookalike = Lookalike
  Temps = {t1, t2, t3, Lookalike}
  User = User  Earlier = Earlier
  Nobody = Nobody  Free = Free  NoTemp = NoTemp  NoPath = NoPath
  Position <- Listing
  Choices <- SomeChoices
  Scenarios <- AloneOrTwo
  MaxFaults = 1
SYMMETRY Symmetry
SPECIFICATION Spec
INVARIANTS
  WorkIsProtected
  DebrisIsExplained
  IndexIsExact
  AtomicUnlessFormatted
PROPERTIES
  UsersFilesAreSpared
CHECK_DEADLOCK FALSE
