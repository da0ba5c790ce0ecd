SPECIFICATION PartSpec
CONSTANTS
  Active <- AllParts
  Order = 2
  KeyCapacity = 3
  ValueCapacity = 2
  ChildCapacity = 2
  Keys = {1, 2, 3, 4, 5, 6, 7}
  IndexSteps = 7
  RowCapacity = 1
  MaxRepeated = 1
  Texts <- MCTexts
  Hash <- MCHash
  NullText = NullText
  Nobody = Nobody
  NoRequest = NoRequest
  Names = {A, B}
  Tables <- FrameTables
  Additions <- FrameAdditions
  Views <- FrameViews
  MaxSteps = 3
  NoFrame = NoFrame
  Exprs <- ViewExprs
  ViewedColumns <- ViewColumns
  Horizon = 4
  MaxReads = 3
  NotANumber = NotANumber
  Cells <- MCValues
  Pairs <- MCPairs
  MaxRows = 4
  Frames <- ImportFrames
  BatchSizes = {0, 1}
  Formats_ <- ImportFormats
  DBFormats <- ImportFormats
  Limits = {0, 1}
  Layouts = {"dictionary", "typed", "chunks", "list"}
  MAX_CHUNKSIZE = 1
  INT64_MAX = 32767
  ULP = 1
  DIGIT = 4
  Digits <- PrintedDigits
  Decimals <- PrintedDecimals
  Micros <- CutMicros
  Nanos <- CutNanos
  Multiplied <- MultipliedTimes
  Threads = {"t1", "t2"}
  DBs <- DatabaseNames
  Dialect <- DatabaseDialect
  Connected <- DatabaseConnected
  Stored <- DatabaseTables
  Requests <- DatabaseRequests
  BulkSize = 2
  FetchSize = 2
INVARIANTS
  PartTypeOK
  IndexFindsItsRows
  EncodingAnswersAsInMemory
  FramesFindTheirRows
  FingerprintTellsContent
  ReadsFollowMeaning
  AggregationsAreRight
  CellsSurvive
  ReadsAreAllOrNothing
  IteratorsSeeOneTable
PROPERTY
  EveryRequestIsAnswered
CHECK_DEADLOCK FALSE
