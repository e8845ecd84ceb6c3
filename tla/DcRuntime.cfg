SPECIFICATION FairSpec
CONSTANTS
  Url <- MCUrl
  Jsx = {"panel"}
  Exports <- MCExports
  Defines <- MCDefines
  Scripts = {"DS.Tile", "torn"}
  NoUrl = NoUrl
  PollLimit = 2
  Name = {"page", "card"}
  Root = "page"
  Template <- MCTemplate
  Source <- MCSource
  Pages <- MCPages
  File <- MCFile
  PushHtml <- MCPushHtml
  PushJs <- MCPushJs
  Knobs = {1}
  NoTemplate = NoTemplate  NoSource = NoSource
  NoFile = NoFile  NoScript = NoScript
INVARIANTS TypeOK ShownIsCurrent PushWins LifecycleBalanced NoTornScript
PROPERTIES StreamsNotAsked ImportsSettle GlobalsNoticed
CHECK_DEADLOCK FALSE
