\* Two threads, any listener, exceptions included.
SPECIFICATION Spec
CONSTANTS
  Threads = {t1, t2}
  Conns = {c1, c2}
  Fds = {f1, f2}
  ListenFd = listenFd
  None = None
  MaxEvent = 2
  MaxData = 1
  SystemErrors = TRUE
  Outcomes = {"keep", "close", "throw"}
SYMMETRY Symmetry
\* The threads may all be blocked (AddClientNeverBlocks is violated) or gone.
CHECK_DEADLOCK FALSE
INVARIANTS
  Inv
  OneOwner
  NoDescriptorLeak
  ClientUnderItsDescriptor
  FreshEvents
PROPERTIES
  KeepsLifespan
