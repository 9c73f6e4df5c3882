SPECIFICATION Spec
CONSTANTS
  Order <- DefOrder
  Major <- DefMajor
  Offered <- DefOffered
  Needs <- DefNeeds
  GoNeeds <- DefGoNeeds
  GoMajor <- DefGoMajor
  Inside <- DefInside
  Mislabelled <- DefMislabelled
  Flags <- DefFlags
  MaxCommands = 4
  x = x
  Names = {x}
  MaxSteps = 8
  MaxDepth = 2
  Depths = 4
  Methods = {"m"}
  LibKinds = {"func", "private func", "const", "class"}
  HereKinds = {"func", "private func", "class"}
  Values = {1, 2}
  MaxStmts = 7
  MaxNesting = 4
  Contents <- DefContents
  MainImports <- DefMainImports
  Extends <- DefExtends
  MaxEdits = 2
  MaxBuilds = 2
  MaxVisits = 9
  MaxRegions = 2
  Paths = {"p", "q"}
  Texts = {"first", "second"}
CHECK_DEADLOCK FALSE
INVARIANTS
  DemandsMet
  PinsMatchTrees
  FrozenRestores
  GoPinsCover
  ReadsAssigned
  NoFallOffEnd
  ViewsBehaveAsObject
  GoNamesApart
  ReferencesReachDefinitions
  ExitsAsAsked
  SkippedAreClean
  TextsAreFresh
  ImportsInitFirst
  NarrowedHolds
  ServerSeesEditor
