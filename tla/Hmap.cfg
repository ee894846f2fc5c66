\* Additions, replacements and deletions that leave an entry in the bucket,
\* three sizes of the map and allocations that fail.
SPECIFICATION Spec

CONSTANTS
  k1 = k1  k2 = k2  k3 = k3  k4 = k4
  Key = {k1, k2, k3, k4}
  Hash <- Crc
  InitSize = 1
  SizeLimit = 4
  EmptiesBuckets = FALSE

INVARIANTS
  EntriesAreExact
PROPERTIES
  IsAMap
