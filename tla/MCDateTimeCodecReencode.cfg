\* Expected to fail: a timestamp accepted with an offset can land outside
\* the four-digit years once moved to UTC, and its canonical text no longer
\* parses.
CONSTANTS
  YearMax = 1
  SecondsPerYear = 3
  Offsets <- MCOffsets
  NoValue = NoValue
SPECIFICATION Spec
INVARIANT CodecTextDecodes
