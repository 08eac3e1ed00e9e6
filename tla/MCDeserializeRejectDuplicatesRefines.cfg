\* The loop under weak fairness implements the one-step decoder of
\* DecodeMapAbstract, liveness included.
CONSTANTS
  k1 = k1
  k2 = k2
  v1 = v1
  v2 = v2
  Keys <- MCKeys
  Values <- MCValues
  Malformed = Malformed
  Absent = Absent
  MaxEntries = 3
SPECIFICATION FairSpec
PROPERTIES ImplementsDecodeMap
CHECK_DEADLOCK FALSE
