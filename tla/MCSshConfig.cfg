SPECIFICATION ConfigSpec
CONSTANTS
  Aliases <- MCAliases
  Files <- MCFiles
  Main = "main"
  Directives <- MCDirectives
  Routes <- MCRoutes
  MaxDepth = 2
  MaxFiles = 3
  MaxDirectives = 4
  MaxRoute = 4
INVARIANTS FirstValueWins ChainFollowsTheJumps
CHECK_DEADLOCK FALSE
