SPECIFICATION FairSpec
CONSTANTS
  Paths <- MCPaths
  Files <- MCFiles
  FilePath <- MCFilePath
  Basename <- MCBasename
  Guess <- MCGuess
  Components = {1, 2}
INVARIANTS RegistryIsSound LongestMatch ComponentsBelongToAgents DirListsOnce SweepRegistersEverything
PROPERTY CommandsEnd
