SPECIFICATION FairSyncSpec
CONSTANTS
  Docs = {d1, d2}
  Calls = {p1, p2}
  Contents = {page1, page2}
  NumChunks <- MCNumChunks
  DocLimit = 0
  Sources = {s1}
  NoSource = NoSource
  NoDoc = NoDoc
  NoContent = NoContent
PROPERTIES SyncSettles SyncCallsEnd
