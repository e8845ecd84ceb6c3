SPECIFICATION Spec
CONSTANTS
  Url <- MCUrl
  Jsx = {"panel"}
  Exports <- MCExports
  Defines <- MCDefines
  Scripts = {"DS.Tile", "torn"}
  NoUrl = NoUrl
  PollLimit = 2
  Name = {"page", "card"}
  Root = "page"
  Template <- MCTemplate
  Source <- MCSource
  Pages <- Fragile
  File <- MCFile
  PushHtml <- CrashHtml
  PushJs <- NoJs
  Knobs = {}
  NoTemplate = NoTemplate  NoSource = NoSource
  NoFile = NoFile  NoScript = NoScript
INVARIANTS PageStaysMounted
CHECK_DEADLOCK FALSE
