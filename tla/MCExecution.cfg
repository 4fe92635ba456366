SPECIFICATION ExecutionSpec
CONSTANTS
  r1 = r1
  text = text
  n1 = n1
  m1 = m1
  m2 = m2
  k1 = k1
  Repositories = {r1}
  Domains = {}
  Texts = {text}
  Similar = {}
  Keys = {k1}
  Names = {n1}
  Remotes = {m1, m2}
  NoRemote = NoRemote
  NoDescriptor = NoDescriptor
  NoId = NoId
  MaxId = 3
  Processes = {p1, p2}
  Calls <- MCCalls
  NoKey = NoKey
  NoCall = NoCall
  Never = Never
  ReadCap = 1
  WriteCap = 1
  Retention = 0
  MaxClock = 2
INVARIANTS
  EventsTruthful
  KeepsNewest
  CommittedReported
  LocationLatest
PROPERTIES
  IdentityStable
CHECK_DEADLOCK FALSE
