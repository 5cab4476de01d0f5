SPECIFICATION PartsSpec
CONSTANTS
  Parts = {"routes", "components", "members", "parameters", "binding", "body",
           "constraints", "token", "address", "commandLine", "events", "web", "errors"}
  Methods = {"GET", "HEAD", "TRACE"}
  Paths = {"p", "q"}
  Origins = {"site", "other"}
  Entries <- MCEntries
  CorsConfigs <- MCConfigs
  MaxRoutes = 3
  Slots = {"GET", "HEAD", "OPTIONS"}
  MemberNames = {"m1", "m2"}
  MaxDepth = 3
  MaxMembers = 4
  Structs = {"ta", "tb", "d", "e"}
  TypeName <- MCTypeName
  Properties <- MCProperties
  Required <- MCRequired
  ComponentNames <- MCNames
  Declared <- MCDeclared
  Suffixed <- MCSuffixed
  RouteUses <- MCRouteUses
  WebhookUses <- MCWebhookUses
  Fields = {"port", "size", "wait"}
  Kind <- MCKind
  Values = {"v", "w"}
  Tags <- MCTags
  Lines <- MCLines
  Envs <- MCEnvs
  CommandNames = {"serve"}
  Cases <- MCCases
  MaxInt = 6
  Cap = 3
  DefaultCap = 2
  Sizes = {0, 1, 2, 3, 4, 5}
  Limits = {1, 4, 6}
  MaxBounds = 3
  Words <- MCWords
  EmptyWord = ""
  Bytes <- MCBytes
  Characters <- MCCharacters
  ValueText = "value"
  FieldsOf <- MCFieldsOf
  Call <- MCCall
  PrefixPairs <- MCPrefixPairs
  SubstringPairs <- MCSubstringPairs
  Claims <- MCClaims
  AuthCases <- MCAuthCases
  DocPath <- MCDocPath
  SchemeSets <- MCSchemeSets
  RequestTypes <- MCRequestTypes
  AnswerTypes <- MCAnswerTypes
  MaxOptions = 3
  Hosts = {"h1", "h2"}
  Proxies = {"p1", "p2"}
  MaxHops = 3
  Chars <- MCChars
  Messages <- MCMessages
  Generated <- MCGenerated
  MaxSends = 3
  RoutePaths <- MCRoutePaths
  Applications <- MCApplications
  Files <- MCFiles
  URLs <- MCURLs
  Statuses = {400, 500}
  OddStatuses = {400}
CHECK_DEADLOCK FALSE
INVARIANTS
  OptionsAnswered
  DocumentsServing
  ComponentsFaithful
  DocumentsSerialized
  ConfigPrecedence
  BoundAsSaid
  BodyBounded
  DocumentedIsEnforced
  EnoughToPass
  FollowingSuffices
  ClientSeen
  EventsAsSent
  CausesKept
  IndexForOwnPaths
