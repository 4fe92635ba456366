SPECIFICATION PluginSpec
CONSTANTS
  s1 = s1
  s2 = s2
  r1 = r1
  r2 = r2
  Nothing = Nothing
  Sessions = {s1, s2}
  Working = {s1}
  Repositories = {r1, r2}
  Home <- MCHome
  Transforms = {1, 2}
  Calls = {c1}
  Tools <- MCTools
  Slots <- MCSlots
  Objects = {1, 2, 3, 4, 5, 6, 7, 8}
  MaxSessions = 1
  MaxMessages = 2
  MaxPending = 3
  MaxEvents = 1
INVARIANTS
  NeverSilent
  WritesGranted
  OutcomeTruthful
PROPERTIES
  InjectedFresh
  ApprovalsHold
CHECK_DEADLOCK FALSE
