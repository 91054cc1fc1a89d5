SPECIFICATION Spec
CONSTANTS
  MaxChunk = 2
  TopK = 2
  Pool = 3
  Weight = 3
  Threshold = 2
  MaxLines = 4
  MaxRows = 4
  MaxScore = 2
  MaxTokens = 6
  MaxTemplate = 4
INVARIANTS BodyChunks RowsRanked RowsGate ReplyClean TemplateContext
CHECK_DEADLOCK FALSE
