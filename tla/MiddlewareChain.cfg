\* Four middlewares.
SPECIFICATION FairSpec
CONSTANT N = 4
INVARIANTS
  ResumesInTheList
  ResumesWhereInterrupted
PROPERTIES
  ForwardOnly
  CompleteIsAnswered
