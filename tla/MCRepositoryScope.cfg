SPECIFICATION ScopeSpec
CONSTANTS
  top = top
  worktree = worktree
  p1 = p1
  p2 = p2
  Host = Host
  host = host
  team = team
  local = local
  NoUrl = NoUrl
  Unset = Unset
  Malformed = Malformed
  Runs = {p1, p2}
  Directories = {top, worktree}
  Places = {"here", "there"}
  RemoteNames = {"origin", "fork"}
  Urls <- MCUrls
  Lower <- MCLower
  Unsupported = {local}
  InitialIds <- MCInitialIds
  MaxChanges = 1
INVARIANTS
  RunsAgree
  MigrationFinished
PROPERTIES
  StoredOnce
  SpellingIrrelevant
SYMMETRY Symmetry
