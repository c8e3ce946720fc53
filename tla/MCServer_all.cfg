CONSTANTS
  Pending = Pending  NoLimit = NoLimit  NoLength = NoLength  NoStatus = NoStatus
  MaxSent = 3
  Limits = {0, 1, 2}
  Depths = {0, 1, 2}
  NodeRequests <- AllRequests
  NodeConfigs <- LimitedApps
  FetchConfigs <- AllApps
  FetchBodies <- SomeBodies
SPECIFICATION Spec
INVARIANTS
  HandlerRunsOnce
  StateFlowsDown
  ErrorsAreAccountedFor
  OnlyDeclaredResponses
  BodiesAreWholeAndCapped
  AnswerPrecedesDestruction
PROPERTIES
  SlowClientsAreBounded
CHECK_DEADLOCK FALSE
