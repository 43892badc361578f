\* One thread, as main() runs it, with the listener of the HTTP server.
SPECIFICATION FairSpec
CONSTANTS
  Threads = {t1}
  Conns = {c1, c2}
  Fds = {f1, f2}
  ListenFd = listenFd
  None = None
  MaxEvent = 2
  MaxData = 2
  SystemErrors = FALSE
  Outcomes = {"keep", "close"}
INVARIANTS
  ListenerServesItsClient
  EventFindsClient
  IdleIsArmed
  KeepsRunning
  NoAbandonedLocker
PROPERTIES
  LockerContract
  DataIsRead
  HangUpIsReleased
  BacklogIsServed
