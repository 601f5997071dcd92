CONSTANTS
  Name <- MCName
  a = a
  b = b
  Up = Up
  NoName = NoName
  PathSet <- MCPaths
  Services = {TRUE, FALSE}
  FirstTree <- MCTree
  MaxNodes = 4
  MaxObjects = 5
  MaxFailures = 1
SPECIFICATION Spec
CHECK_DEADLOCK FALSE
PROPERTY OnlyEmptyFoldersAreTrashed
