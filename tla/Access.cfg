SPECIFICATION AccessSpec
CONSTANTS
  NULL = NULL
  AT_FDCWD = AT_FDCWD
  Program <- nginx
  Files <- FlatFiles
  Directories <- FlatDirectories
  Configs <- FlatConfigs
  Names <- TheNames
  Bases <- TheBases
INVARIANTS TypeOK RulesAsAsked NothingSkipped RightRuleInPlace
PROPERTY Loads
