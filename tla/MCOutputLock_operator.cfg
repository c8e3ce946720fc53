CONSTANTS
  p1 = p1  p2 = p2  p3 = p3
  r1 = r1  r2 = r2  r3 = r3
  t1 = t1  t2 = t2  t3 = t3
  Procs = {p1, p2, p3}
  Pids = {1, 2, 3}
  PidOf <- ReusedPid
  Runs = {r1, r2, r3}
  NoRun = NoRun
  ProcOf <- ThreeRuns
  Tokens = {t1, t2, t3}
  NoToken = NoToken
  Absent = Absent
  Unpublished = Unpublished
  NoInfo = NoInfo
  MaxFaults = 1
  OperatorRemovesPublished = TRUE
CONSTRAINT InTurn
SPECIFICATION FairSpec
INVARIANTS
  RememberedIsAbandoned
PROPERTIES
  FinalizerSparesReplacement
  StaleLockIsReclaimed
CHECK_DEADLOCK FALSE
