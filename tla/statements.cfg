SPECIFICATION Spec
CONSTANTS
  Nodes <- MCNodes
  Kind <- MCKind
  Kids <- MCKids
  Cases <- MCCases
  Root = "file"
PROPERTIES JumpsReachTheirDestination BlocksComplete
