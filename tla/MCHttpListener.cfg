\* Pairs of pipelined requests, cut anywhere but between CR and LF.
SPECIFICATION FairSpec
CONSTANTS
  Streams <- MCStreams
  SplitCRLF = FALSE
INVARIANTS
  OneResponseEach
  WellFormedIsAccepted
  NothingLeftUnanswered
  ClosesOnRequest
  FreshRequest
  AnsweredAfterHead
  BodyWithinLength
PROPERTIES
  RequestIsAnswered
