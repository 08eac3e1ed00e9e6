\* The decoder returns after at most MaxEntries + 1 steps: a finished
\* decode is a final state, not a deadlock.
CONSTANTS
  k1 = k1
  k2 = k2
  v1 = v1
  v2 = v2
  Keys <- MCKeys
  Values <- MCValues
  Malformed = Malformed
  Absent = Absent
  MaxEntries = 3
SPECIFICATION Spec
INVARIANTS TypeOK DecodeExact
CHECK_DEADLOCK FALSE
