\* A decode returns after at most MaxRoles + 1 steps: a finished decode is
\* a final state, not a deadlock.
CONSTANTS
  Names <- MCNames
  KeyIds <- MCKeyIds
  Paths <- MCPaths
  MaxRoles = 2
  MaxLen = 2
SPECIFICATION Spec
INVARIANTS TypeOK EncodingCanonical DecodeFaithful
CHECK_DEADLOCK FALSE
