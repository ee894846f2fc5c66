\* The deletions of test_hmap.c: a bucket may be emptied.
SPECIFICATION Spec

CONSTANTS
  k1 = k1  k2 = k2  k3 = k3  k4 = k4
  Key = {k1, k2, k3, k4}
  Hash <- Crc
  InitSize = 1
  SizeLimit = 4
  EmptiesBuckets = TRUE

INVARIANT
  NoFreedArrayUsed
