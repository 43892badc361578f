\* Two pipelined requests, and clients that break the connection.
SPECIFICATION FairSpec
CONSTANTS
  Streams <- MCPair
  SplitCRLF = FALSE
PROPERTY RefusedStartsOver
