SPECIFICATION RecoverySpec
CONSTANTS
  r1 = r1
  r2 = r2
  c1 = c1
  c2 = c2
  Repositories = {r1, r2}
  Domains = {d1}
  note = note
  Texts <- MCTexts
  Similar = {}
  Keys = {k1}
  Names = {}
  Remotes = {}
  NoRemote = NoRemote
  NoDescriptor = NoDescriptor
  NoId = NoId
  MaxId = 2
  Clients = {c1, c2}
  Transfers <- MCTransfers
CONSTRAINTS
  FewWrites
  OneOfEach
INVARIANTS
  CommittedTruthful
  OneEffect
  HandleFinds
  ReceiptFailureFinal
PROPERTIES
  OnlySilenceHangs
CHECK_DEADLOCK FALSE
