SPECIFICATION Spec
CONSTANTS
  Repositories = {r1, r2}
  Domains = {d1, d2, d3}
  NoReference = NoReference
INVARIANTS
  PositionsDense
  RowsAdmissible
PROPERTY
  ImplementsStack
