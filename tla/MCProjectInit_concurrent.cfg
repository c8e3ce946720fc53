CONSTANTS
  readme = readme  spec = spec  package = package
  above = above  root = root  api = api
  Inits = {i1, i2}
  Templates <- PlannedFiles
  Package = package
  Dirs = {above, root, api}
  Root = root
  Within <- FileDirs
  Depth <- DirDepth
  User = User
  Absent = Absent
  NoFile = NoFile
  MaxFaults = 0
SPECIFICATION InitSpec
INVARIANTS
  SuccessIsComplete
CHECK_DEADLOCK FALSE
