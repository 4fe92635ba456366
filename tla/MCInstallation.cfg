SPECIFICATION MCSpec
CONSTANTS
  s1 = s1
  s2 = s2
  i1 = i1
  i2 = i2
  c1 = c1
  Scopes = {s1, s2}
  Versions <- MCVersions
  Installers = {i1, i2}
  Openers = {i1, i2, c1}
  InitialDatabases <- MCDatabases
  Missing = Missing
  Empty = Empty
  None = None
  Requests <- MCRequests
  MaxRuns = 3
  MaxNotes = 1
SYMMETRY Interchangeable
INVARIANTS
  PolicyPresent
  ScopesMatchCLI
  Resumable
PROPERTIES
  EditsRetained
  OpenersAgree
CHECK_DEADLOCK FALSE
