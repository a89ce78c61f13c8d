SPECIFICATION AccessSpec
CONSTANTS
  NULL = NULL
  AT_FDCWD = AT_FDCWD
  Program <- nginx
  Files <- DeepFiles
  Directories <- DeepDirectories
  Configs <- DeepConfigs
  Names <- TheNames
  Bases <- TheBases
INVARIANT RulesAsAsked
