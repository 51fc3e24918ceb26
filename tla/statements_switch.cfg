SPECIFICATION Spec
CONSTANTS
  Nodes <- MCNodes
  Kind <- MCKind
  Kids <- MCKids
  Cases <- MCCases
  Root = "file"
PROPERTY SwitchCompletes
