SPECIFICATION CachesSpec
CONSTANTS
  Threads = {t1, t2, t3}
  NoThread = NoThread
  RiverBoards = {river}
  RunoutBoards = {flop}
  Addresses = {a1, a2, a3, a4, a5}
  NoAddress = NoAddress
INVARIANT ReferencesAlive
SYMMETRY Symmetry
