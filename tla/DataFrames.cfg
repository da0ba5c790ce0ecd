CONSTANTS
  c1 = c1
  c2 = c2
  d1 = d1
  d2 = d2
  a = a
  b = b
  Clients <- MCClients
  Names <- MCNames
  Strings <- MCStrings
  Uploads <- MCUploads
  MaxRows = 4
  MaxRequests = 5
  MaxCrashes = 1
  NULL = NULL
  GLOBAL = GLOBAL
  NoFrame = NoFrame
  CutString = CutString
  v1 = v1
  v2 = v2
  v3 = v3
  Vectors <- MCVectors
  InitialPages = 2
  DiskPages = 8
  NOT_ALLOCATED = NOT_ALLOCATED
  Active = {"requests", "pool"}
SPECIFICATION StoredSpec
SYMMETRY Symmetry
VIEW Seen
CONSTRAINT Bound
CHECK_DEADLOCK FALSE
INVARIANTS StoredTypeOK ReadersSeeWhatWasSent NeverAnotherString SavedFramesAreReadable
  FreeBlocksAreSorted PagesArePartitioned ContentsSurvive
