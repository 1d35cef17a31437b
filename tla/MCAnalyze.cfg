SPECIFICATION AnalyzeSpec
CONSTANTS
  Shapes <- MCShapes
  Samples = 2
  CompactDsts = 2
  Results <- MCResults
  Receivers = {1}
  Streams = {1, 2}
  CtaOf <- MCCtaOf
  ReceiveLoads = 2
  VBlocks = 2
  SourceShift = 2
  InvalidFlag = 16
  WordSize = 32
  Measured <- MCMeasured
  Polls = {1, 2}
  Processes = {1, 2, 3}
  RankOf <- MCRankOf
  WorkloadOf <- MCWorkloadOf
  RowsEach <- MCRowsEach
  Analyses = 2
  Grids <- MCGrids
  Slices = 2
  Capacity = 2
  WordRange = 3
  BinNs = 1
INVARIANTS
  OffsetsAlign
  CollectedIsMeasured
  AnalyzersAgree
  BytesAreOfTheRow
  NothingIsLost
  StreamsExact
  SummaryAddsUp
PROPERTIES
  AnalysisIsRepeatable
\* The launches and analyses of the model end.
CHECK_DEADLOCK FALSE
