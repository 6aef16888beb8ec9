SPECIFICATION MCSpec
CONSTANTS
  c0 = c0
  c1 = c1
  Metas <- MCMetas
  Contexts <- MCContexts
  NoContext = c0
  Given <- MCGiven
  NoCallback = NoCallback
  Ids = {1, 2, 3}
  NoSpan = 0
  MaxStack = 6
  NoTarget = NoTarget
  NoName = NoName
  NoPattern = NoPattern
  Absent = Absent
  Watched = {1, 2}
  Threads = {11, 12}
  FieldTypes = {1, 2}
  Stacks <- MCStacks
  MaxClock = 2
  MaxRecords = 2
  MaxDepth = 2
  Tokens = {"i", "j"}
INVARIANTS
  AllSound
  DirectivesMeant
  MacrosMeant
  
  ConversionsKept
  LinesWhole
  TimesExact
PROPERTIES
  ImplementsContextOrder
  FlameExact
  TestsDecided
