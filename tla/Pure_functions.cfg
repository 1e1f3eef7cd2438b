CONSTANTS
  ByteSize = 4
  MinNgram = 3
  GramLengths <- MCGramLengths
  Fillers <- MCFillers
  Stopwords = {"the"}
  Threshold = 60
  Stop = Stop
  Gap = Gap
  Elements <- MCElements
  MaxLength <- MCMaxLength
  Configs <- MCConfigs
  Queries <- MCQueries
  Sizes <- MCSizes
  Thresholds <- MCThresholds
  KeptTurns <- MCKeptTurns
  MaxTurns = 8
  MaxCompactions = 5
SPECIFICATION Spec
INVARIANTS
  CodecIsExact
  StreamAgreesWithResponse
  EngineReadsWhatArrived
  HistoryIsKept
  PointersReachKeptText
  PassesOnlyDrop
  HistoryIsWhole
CHECK_DEADLOCK FALSE
