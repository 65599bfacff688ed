CONSTANTS
  Processes = {p1, p2}
  Keys = {k1, k2}
  NoKey = NoKey
  Ttl = 2
  Inodes = {i1, i2, i3}
  NoInode = NoInode
  ReadFails = FALSE
  Crashes = 0
  MaxTime = 4
SPECIFICATION Spec
SYMMETRY Symmetry
INVARIANTS NoDoubleGrant
