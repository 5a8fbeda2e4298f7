SPECIFICATION Spec
CONSTANTS
  r1 = r1
  r2 = r2
  s1 = s1
  k1 = k1
  short = short
  long = long
  huge = huge
  NoBlob = NoBlob
  Runs = {r1, r2}
  Steps = {s1}
  Blobs = {short, long, huge}
  Bytes <- Lengths
  Values <- SlotValues
  Readers = {k1}
  InFlightLimit = 5
  OutputLimit = 3
  RowMax = 1
  MaxFails = 1
INVARIANTS
  CachesSound
  ReadIsSnapshot
SYMMETRY Alike
CHECK_DEADLOCK FALSE
