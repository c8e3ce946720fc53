CONSTANTS
  a = a  b = b  c = c  absent = absent
  g1 = g1  g2 = g2
  plain = plain  scoped = scoped  other = other  double = double
  Alphabet <- Alphabetically
  NoIssue = NoIssue
  Gens = {g1, g2}
  Plugins = {plain, scoped, other, double}
  NameOf <- PluginNames
  Scoped = {scoped, other}
  Scenarios <- Together
  NoPlugin = NoPlugin
  NoScope = NoScope
  MaxWrites = 1
  YieldsOnLeaving = TRUE
SPECIFICATION Spec
INVARIANTS
  ScopesAreClosed
CHECK_DEADLOCK FALSE
