CONSTANTS
  LongLongBits = 8
  IntBits = 4
  handle1 = handle1
  handle2 = handle2
SYMMETRY Symmetry
SPECIFICATION Spec
INVARIANTS  CompiledReadsAsWritten HandlesShowTheirOwn 
PROPERTIES  TypesAreSound
CHECK_DEADLOCK FALSE
