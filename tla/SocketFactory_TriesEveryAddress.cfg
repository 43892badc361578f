\* Three addresses, enough descriptors to keep two sockets and try a third.
SPECIFICATION Spec
CONSTANTS
  N = 3
  Handles = {h1, h2, h3}
  NoHandle = NoHandle
INVARIANTS
  TriesEveryAddress
