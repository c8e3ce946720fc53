\* Every chapter of a contract's life, one per behaviour.
CONSTANTS
  ResponseNames = {"a", "b", "c"}
  Handwritten <- Literals
  MaxObjects = 3
  NoDerived = NoDerived
  Routers <- AllRouters
  Embedding <- SomeEmbedding
  Separators = {"a/b", ".", ".."}
  Malformed = {"%zz"}
  Contracts <- AllContracts
  Undeclared = Undeclared
  Unsupported = {"class", "default"}
  SomeContract <- OneContract
  Methods <- MethodOrder
  Alphabet <- Alphabetical
  Requests <- Paths
  Values = {"x", "export", "a/b", "a b", "", ".."}
  DotSegments = {".", ".."}
  Escaped = {"a/b", "a b"}
  Calls <- AllCalls
  KnownCodes = {"ECONNRESET"}
  FetchCodes = {"ECONNRESET", "EPIPE"}
  Reasons = {"AbortError", "TimeoutError", "Error", "string"}
  Answers <- AllAnswers
  Invocations <- AllInvocations
  Handlings = {q1, q2}
  Closers = {d1, d2}
  Operations <- SomeOperations
  Schemas <- AllSchemas
  NoSchema = "none"
  LowerCase <- SomeLowerCase
  HeaderSchemas <- SomeHeaderSchemas
  Essence <- Essences
  JsonTypes = {"application/json", "application/problem+json"}
  TextTypes = {"text/plain"}
  MediaTypes <- SomeMediaTypes
  JsonLike = {"application/json", "application/problem+json", "application/json-seq"}
  TextLike = {"text/plain", "text/plain;charset=UTF-8", "application/octet-stream;of=text/csv"}
  HeaderSets <- SomeHeaderSets
  Trim <- SomeTrim
  Spaced <- SomeSpaced
  Empty = ""
  JsonTexts = {"{}", "{n}"}
  Decoded <- SomeDecoded
  Stringified <- SomeStringified
SPECIFICATION Spec
INVARIANTS
  NormalizationIsExact
  DispatchIsBest
  RoutesAreServed
  ErrorNamesItsCause
  ExitCodeTellsTheOutcome
  CredentialsMeetTheContract
  ShutdownWaitsForRelease
  MapperSeesOnlyFailures
  MessagesAreReadAsSent
  MessagesAreDocumented
PROPERTIES
  WaitsEnd
CHECK_DEADLOCK FALSE
