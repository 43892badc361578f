\* Three addresses, two servers and a third socket, three epoll instances.
SPECIFICATION StartupSpec
CONSTANTS
  N = 3
  Handles = {h1, h2, h3}
  NoHandle = NoHandle
  Servers = {s1, s2}
  Epolls = {e1, e2, e3}
  NoEpoll = NoEpoll
SYMMETRY Symmetry
INVARIANTS
  EachSocketHasAnOwner
  FirstThatWorks
  EachHasItsOwn
  InitializedServes
