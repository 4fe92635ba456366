SPECIFICATION ClientsSpec
CONSTANTS
  Repositories = {r1, r2}
  Domains = {d1}
  note = note
  Texts <- MCTexts
  Similar <- MCSimilar
  Keys = {}
  Names = {}
  Remotes = {}
  NoRemote = NoRemote
  NoDescriptor = NoDescriptor
  NoId = NoId
  MaxId = 2
  MaxLedger = 0
  Processes = {p1, p2}
  Nobody = Nobody
CONSTRAINT LedgerBound
SYMMETRY Symmetry
INVARIANTS
  CheckedStillHolds
  AttachedDuring
