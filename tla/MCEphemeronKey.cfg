SPECIFICATION Spec
CONSTANTS
  Heaps <- SharedKeys
  Buckets = 2
INVARIANT GraphPreserved
