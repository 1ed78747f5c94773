SPECIFICATION Spec
CONSTANTS
  Heaps <- MCHeaps
  Buckets = 1
INVARIANTS GraphPreserved CopiedOnce EphemeronsKept
PROPERTY CollectionEnds
