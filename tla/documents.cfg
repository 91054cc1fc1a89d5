SPECIFICATION FairSpec
CONSTANTS
  Docs = {d1, d2}
  Calls = {p1, p2, p3}
  titles = titles
  page = page
  Contents = {titles, page}
  NumChunks <- MCNumChunks
  DocLimit = 1
  NoDoc = NoDoc
  NoContent = NoContent
INVARIANTS TypeOK WholeRuns IndexMatchesStatus
PROPERTIES SearchableKeepsChunks IngestSettles CallsEnd
