SPECIFICATION Spec
CONSTANTS
  Functions <- RecFunctions
  Undefined = {"h"}
  Blocks <- RecBlocks
  Builtins = {"foreach"}
  Root = "file"
  Body <- RecBody
  Inner <- RecInner
  Nodes <- RecNodes
  PtrNodes = {"pointer"}
  At <- RecAt
  Callee <- RecCallee
  Vars <- RecVars
  Scope <- RecScope
  RefParams = {"p"}
  Values = {v1}
  Unset = Unset
  Limit = 2
  MaxDepth = 8
  MaxSaved = 1
INVARIANTS SavedValuesMatchActivations RunningMatchesActivations BacktraceMatchesCalls
PROPERTY ImplementsFrames
