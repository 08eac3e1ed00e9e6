\* A decode returns after at most MaxLen + 1 steps: a finished decode is a
\* final state, not a deadlock.
CONSTANTS
  KeyIds <- MCKeyIds
  MaxLen = 4
SPECIFICATION Spec
INVARIANTS TypeOK KeyIdsCounted EncodedRoundTrip
CHECK_DEADLOCK FALSE
