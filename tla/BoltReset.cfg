SPECIFICATION Spec
CONSTANTS
  Protocols <- Only5
  MaxStreams = 2
  MaxRecords = 2
  FetchSizes = {1}
  MaxQueued = 3
  Packs <- Packing
  Codes <- Failures
PROPERTY ResetRestores
