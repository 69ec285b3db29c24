SPECIFICATION PageSpec

CONSTANTS
  Ids <- Named
  Majors = {0, 1}
  SUPPORTED_CONTRACT_MAJOR = 0
  Urls <- Addressed
  Absolute = {"https://cdn", "http://dev", "https://api"}
  Domains <- Hosts
  WithPort = {"localhost:5174"}
  Site <- Behind
  Self = "self"
  Null = "null"
  Registries <- MCRegistries
  Queries <- MCQueries
  None = None

INVARIANT
  PolicyInStep
