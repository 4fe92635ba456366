SPECIFICATION StackSpec
CONSTANTS
  r1 = r1
  r2 = r2
  d1 = d1
  d2 = d2
  deploy = deploy
  release = release
  plain = plain
  topic = topic
  Repositories = {r1, r2}
  Domains = {d1, d2}
  Texts <- MCTexts
  Similar = {}
  Keys = {}
  Names = {}
  Remotes = {}
  NoRemote = NoRemote
  NoDescriptor = NoDescriptor
  NoId = NoId
  MaxId = 2
  Topic <- MCTopic
  NoTopic = NoTopic
  Hits <- MCHits
  Width <- MCWidth
  Calls <- MCCalls
  NoPlacement = NoPlacement
  NoBudget = NoBudget
  Stacks <- MCStacks
  MaxCommits = 1
INVARIANTS
  AnswerBetween
  AnswerCut
CHECK_DEADLOCK FALSE
