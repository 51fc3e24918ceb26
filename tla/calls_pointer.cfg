SPECIFICATION Spec
CONSTANTS
  Functions <- FpFunctions
  Undefined = {}
  Blocks <- FpBlocks
  Builtins = {}
  Root = "file"
  Body <- FpBody
  Inner = {}
  Nodes <- FpNodes
  PtrNodes = {"pointer"}
  At <- FpAt
  Callee <- FpCallee
  Vars <- FpVars
  Scope <- FpScope
  RefParams = {}
  Values = {v1}
  Unset = Unset
  Limit = 3
  MaxDepth = 10
  MaxSaved = 1
INVARIANT PointerCallsItsFunction
