SPECIFICATION RunningSpec
CONSTANTS
  Docs = {d1, d2, d3}
  Calls = {p1, p2, p3}
  Contents = {page1, page2}
  NumChunks <- MCNumChunks
  DocLimit = 1
  Sources = {s1}
  NoSource = NoSource
  NoDoc = NoDoc
  NoContent = NoContent
SYMMETRY Symmetry
INVARIANTS SyncTypeOK SourceDocIsOwn LiveBodyReviewed
