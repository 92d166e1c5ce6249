SPECIFICATION Spec
CONSTANTS
  Procs = {p1, p2}
  Inodes = {i1, i2, i3}
  TableSize = 2
  Found <- MCFound
  MaxFaults = 0
  NoInode = NoInode
INVARIANT CacheWritten
