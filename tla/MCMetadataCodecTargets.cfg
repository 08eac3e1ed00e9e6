\* Expected to fail: serde's default BTreeMap visitor keeps the last of a repeated target path.
CONSTANTS
  i1 = i1
  i2 = i2
  p1 = p1
  p2 = p2
  t1 = t1
  t2 = t2
  d1 = d1
  d2 = d2
  KeyIds <- MCKeyIds
  PubKeys <- MCPubKeys
  KeyIdOf <- MCKeyIdOf
  PathStrings <- MCPathStrings
  Paths <- MCPaths
  TargetPaths <- MCTargetPaths
  Descs <- MCDescs
  KeyRank <- MCKeyRank
  Malformed = Malformed
  Absent = Absent
  MaxEntries = 2
SPECIFICATION Spec
INVARIANT TargetsRejectDuplicates
CHECK_DEADLOCK FALSE
