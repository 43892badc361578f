\* Two pipelined requests, cut anywhere.
SPECIFICATION Spec
CONSTANTS
  Streams <- MCPair
  SplitCRLF = TRUE
INVARIANT WellFormedIsAccepted
