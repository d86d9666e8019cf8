SPECIFICATION Spec
CONSTANTS
  Order <- MCOrder
  Defs <- MCDefs
  Pkg <- MCPkg
  Hash <- MCHash
  ImtIndex <- MCImtIndex
  ImtSize = 2
  MaxCalls = 2
INVARIANT TranslationMoved
