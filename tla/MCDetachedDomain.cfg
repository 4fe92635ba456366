SPECIFICATION ClientsSpec
CONSTANTS
  Repositories = {r1}
  Domains = {d1}
  note = note
  Texts <- MCTexts
  Similar <- MCSimilar
  Keys = {}
  Names = {}
  Remotes = {}
  NoRemote = NoRemote
  NoDescriptor = NoDescriptor
  NoId = NoId
  MaxId = 1
  MaxLedger = 0
  Processes = {p1}
  Nobody = Nobody
CONSTRAINT LedgerBound
INVARIANT RequiresAttachedDomain
