\* Two operations and one digest, nothing else.
CONSTANTS
  Operations = {o1, o2}
  Contents = 1
  Hosts = {h1}
  Grace = 2
  Interval = 2
  Backoff = 1
  MaxScan = 1
  MaxDelete = 1
  MaxTries = 2
  MaxMishaps = 0

SPECIFICATION ArtifactStoreSpec
SYMMETRY OperationSymmetry

INVARIANTS
  ReferencedRetained
