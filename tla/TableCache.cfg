SPECIFICATION Spec
CONSTANTS
  Procs = {p1, p2, p3}
  Inodes = {i1, i2, i3, i4}
  TableSize = 2
  Found <- MCFound
  MaxFaults = 1
  NoInode = NoInode
INVARIANT LoadedTableIsBuilt
SYMMETRY Symmetry
