SPECIFICATION Spec
CONSTANTS
  Protocols <- EveryVersion
  MaxStreams = 2
  MaxRecords = 2
  FetchSizes = {1}
  MaxQueued = 3
  Packs <- Packing
  Codes <- Failures
INVARIANTS TypeOK HandlersMatchRequests RequestsFit RecordsInOrder WaitsOnlyForSent ReadyAtBothEnds
PROPERTIES OldResultsStayPut
