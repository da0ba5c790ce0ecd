CONSTANTS
  v1 = v1
  v2 = v2
  v3 = v3
  Vectors <- MCVectors
  InitialPages = 4
  DiskPages = 16
  NOT_ALLOCATED = NOT_ALLOCATED
SPECIFICATION PoolSpec
SYMMETRY Symmetry
VIEW Seen
INVARIANTS FreeBlocksAreNotOccupied
