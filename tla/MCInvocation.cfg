CONSTANTS
  Scenes = {"trust", "config", "reuse", "callback", "secrets", "fanout", "redaction"}
  None = None
  Admins = {a1, a2}
  Cwd <- MCCwd
  NameLength <- MCNameLength
  Worlds <- MCWorlds
  MaxCommands = 2
  Torn = Torn
  Documents <- MCDocuments
  MaxSources = 3
  LowerCase <- MCLowerCase
  Destinations = {"url", "loop"}
  AbsolutePaths = {"/k", "/k2"}
  ReservedHeaders = {"host"}
  Contexts <- MCContexts
  Expansion <- MCExpansion
  a = a
  b = b
  c = c
  Requests = {r1, r2}
  Providers = {a, b, c}
  LSPs = {a, b}
  Asks <- MCAsks
  Versions = {1, 2}
  ExecutionOf <- MCExecutionOf
  Snapshots = {1, 2}
  SecretsOf <- MCSecretsOf
  MaxGeneration = 1
  Callbacks = {1, 2, 3}
  MaxFlows = 2
  StoresOf <- MCStoresOf
  AgeKeys = {"k1", "k2"}
  Environment <- MCEnvironment
  EnvNames = {"E", "F"}
  Namings <- MCNamings
  ContentOf <- MCContentOf
  Unreadable = Unreadable
  Absent = 0
  MaxUpdates = 1
  p = p
  q = q
  s = s
  Matches <- MCMatches
  ScopeOf <- MCScopeOf
  Languages = {"go", "mod"}
  Answers <- MCAnswers
  Protected = {"secret"}
  Alphabet = {"a", "b"}
  Mask = "*"
  SecretSets <- MCSecretSets
  Chunks <- MCChunks
  MaxInput = 5
SPECIFICATION Spec
SYMMETRY Interchangeable
CHECK_DEADLOCK FALSE
INVARIANTS
  AcknowledgedStands
  SourcesTrusted
  ComposedAsDocumented
  ServedAsCaptured
  OneConfiguration
  FreshAfterReload
  FlowsKeptApart
  ResolvedAsCaptured
  AnswerComplete
  SecretsWithheld
