\* Expected to fail: encode sorts the roles by name, decode keeps document order.
\* A decode returns after at most MaxRoles + 1 steps: a finished decode is
\* a final state, not a deadlock.
CONSTANTS
  Names <- MCNames
  KeyIds <- MCKeyIds
  Paths <- MCPaths
  MaxRoles = 2
  MaxLen = 2
SPECIFICATION Spec
INVARIANT RoundTripKeepsPrecedence
CHECK_DEADLOCK FALSE
