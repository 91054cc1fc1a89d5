SPECIFICATION SyncSpec
CONSTANTS
  Docs = {d1, d2}
  Calls = {p1, p2, p3}
  Contents = {page1, page2}
  NumChunks <- MCNumChunks
  DocLimit = 0
  Sources = {s1}
  NoSource = NoSource
  NoDoc = NoDoc
  NoContent = NoContent
INVARIANTS LiveIndexIsCurrent
