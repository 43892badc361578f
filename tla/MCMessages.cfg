\* Two responses on a connection that may take part of either; URIs with delimiters anywhere.
SPECIFICATION MCSpec
CONSTANTS
  Names <- MCNames
  Fold <- MCFold
  Values <- MCValues
  Pieces <- MCPieces
  Partial = {0, 1, 4}
  MaxContent = 2
  MaxCalls = 2
  MaxResponses = 2
  Schemes <- MCSchemes
  UserInfos <- MCUserInfos
  Hosts <- MCHosts
  Ports <- MCPorts
  Paths <- MCPaths
  Queries <- MCQueries
  Fragments <- MCFragments
INVARIANTS
  BodiesStayApart
  HeadersAreRead
  ReadsWhatItWrites
CHECK_DEADLOCK FALSE
