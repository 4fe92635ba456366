SPECIFICATION Spec
CONSTANTS
  Repositories = {r1, r2}
  Domains = {d1}
  broad = broad
  narrow = narrow
  Texts <- MCTexts
  Similar <- MCSimilar
  Keys = {k1}
  Names = {}
  Remotes = {}
  NoRemote = NoRemote
  NoDescriptor = NoDescriptor
  NoId = NoId
  MaxId = 2
  MaxLedger = 2
CONSTRAINT LedgerBound
SYMMETRY Symmetry
INVARIANTS
  TypeOK
  ReferentialIntegrity
  ProvenanceLedgered
PROPERTIES
  ProvenanceImmutable
  HistoryStartsFresh
  TransferAtomic
CHECK_DEADLOCK FALSE
