SPECIFICATION PartsSpec
CONSTANTS
  Intent = {"i1", "i2"}
  Call = {"c1", "c2"}
  Governed = TRUE
  Limit = 1
  Window = 2
  Ttl = 1
  MaxClock = 2
  MaxFaults = 1
  Instance = {"x", "y"}
  TagSets <- TheTags
  Required = "disposable"
  ContractTtl = 1
  SessionTtl = 2
  MaxCloudClock = 2
  MaxAllowed = 1
  AllowHighRisk = FALSE
  Target = "x"
  Question = {"e1", "e2", "e3"}
  AllowPack = "safe-default"
  Packs <- ThePacks
  Denies <- PacksDenying
  MaxRestarts = 1
  Command = {"c1", "c2", "c3"}
  Blocks = 2
  Verb <- Verbs
  Candidates <- TheCandidates
  Config <- TheConfigs
  MaxEdits = 2
  Indents = {0, 2, 4}
  MaxLines = 4
  Key <- TheKeys
  MaxArgs = 4
  Id = {"a", "b", "n"}
  Mocks = {"a", "b"}
  Default = "a"
  Length <- TheLengths
  MaxRequests = 3
  Posts <- ThePosts
  Critical = "i-0000001"
  Tame = "i-0000016"
  NoInstance = "i-9"
  Proposal <- TheProposals
  Facts <- TheFacts
  Entity <- TheEntities
  GovernedFacts = {"r"}
  MaxFactClock = 3
INVARIANTS
  ConfiguredPolicyDecides
\* Everything submitted is answered, and the clock is at its bound.
CHECK_DEADLOCK FALSE
