\* Three threads, any requests; the log may stop for ever.
SPECIFICATION FairSpec
CONSTANTS
  Threads = {t1, t2, t3}
  None = None
INVARIANTS
  LinesAreWhole
PROPERTIES
  LogEndsWhenAbandoned
  KeepsAnswering
  FollowsChain

CHECK_DEADLOCK FALSE
