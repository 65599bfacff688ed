CONSTANTS
  Processes = {p1, p2}
  Keys = {k1, k2}
  NoKey = NoKey
  Ttl = 1
  Inodes = {i1, i2, i3}
  NoInode = NoInode
  ReadFails = TRUE
  Crashes = 1
  MaxTime = 1
SPECIFICATION Spec
SYMMETRY Symmetry
INVARIANTS NoDoubleGrantInTurn GrantsOnDisk NoKeyBlockedPastTtl
PROPERTIES ValidLocksKept
