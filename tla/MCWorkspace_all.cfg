CONSTANTS
  readme = readme  spec = spec  package = package
  above = above  root = root  api = api
  Inits = {i1}
  Templates <- PlannedFiles
  Package = package
  Dirs = {above, root, api}
  Root = root
  Within <- FileDirs
  Depth <- DirDepth
  User = User
  Absent = Absent
  NoFile = NoFile
  MaxFaults = 3
  Scaffolds = {s1, s2}
  TemplateFiles = 2
  Owner = Owner
  Nobody = Nobody
  MaxFailures = 1
  Names = {"a", "b", "spec"}
  Trees <- AllTrees
  Commands <- AllCommands
  MaxLinks = 2
SPECIFICATION Spec
INVARIANTS
  OriginalsSurvive
  FailureRestores
  ScaffoldIsExclusive
  CleanSparesTheWorkspace
CHECK_DEADLOCK FALSE
