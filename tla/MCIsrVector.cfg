CONSTANTS
  Vectors = {2, 14, 17, 32}
  ErrorCodes = {0, 2, 14}
  MaxDepth = 1
SPECIFICATION Spec
INVARIANT HandlerSeesVector
