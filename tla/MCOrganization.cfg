SPECIFICATION OrganizationSpec
CONSTANTS
  Repositories = {r1}
  Domains = {d1}
  Texts <- MCTexts
  Similar = {}
  Keys = {k1}
  Names = {}
  Remotes = {}
  NoRemote = NoRemote
  NoDescriptor = NoDescriptor
  NoId = NoId
  MaxId = 2
  MaxLedger = 2
  MaxEarly = 1
  MaxReaders = 1
  MaxStamp = 4
  Agents = {v1, v2}
CONSTRAINT HistoryBound
SYMMETRY Symmetry
INVARIANTS
  ReferentialIntegrity
PROPERTIES
  AppliesAsReviewed
  MergesLoseNothing
CHECK_DEADLOCK FALSE
