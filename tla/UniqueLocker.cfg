\* Three threads contending for two lockers.
SPECIFICATION Contract
CONSTANTS
  Owners = {o1, o2, o3}
  Lockers = {l1, l2}
  Data = {d1, d2, d3}
  None = None
INVARIANTS
  OneOwner
  LockedIsEmpty
