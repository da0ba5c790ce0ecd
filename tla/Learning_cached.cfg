SPECIFICATION LearningSpec
CONSTANTS
  Active = {"calls"}
  NAN = NAN
  Scenarios <- HolderScenarios
  SortedWithNulls <- StableSort
  Instances <- FastInstances
  ComparisonUnits <- FastComparisonOnly
  time_stamp_unit <- FastTimeStampUnit
  num_threads = 2
  log_iter = 2
  batch_size = 7
  Inputs <- StagingInputs
  Objs <- FittingObjs
  FrameVersions <- FittingVersions
  Calls <- FittingCalls
  Outputs <- FittingOutputs
  MaxCalls = 2
  LearnedWeight <- FittingWeight
  FeatureColumn <- FittingFeatureColumn
  Selecting = TRUE
  Words <- PreparingWords
  Lower <- PreparingLower
  Upper <- PreparingUpper
  RawTables <- PreparingTables
  Commands <- PreparingCommands
  CheckedModel <- PreparingModel
  MaxSteps = 4
  MaxMatches = 3
  MaxDistinct = 10
  MaxMultirel = 20
  MaxRelmt = 40
  Predictions = {0, 1, 2, 3}
  TargetValues <- MetricTargets
  FeatureValues <- MetricFeatures
  Categories = {11, 12, 13}
  NumRows = {1, 2, 3}
  NumBins = {1, 2, 3}
  ONE = 4
  CurveLength = 2
  num_critical_values = 3
  MAX = 1000
  c1 = c1
  c2 = c2
  p1 = p1
  Clients <- ServedClients
  Names <- ServedNames
  MaxRequests = 4
  Absent = Absent
INVARIANT ResultsAreFresh
CHECK_DEADLOCK FALSE
