\* Two operations that may render the same bytes, three digests on pages of two.
CONSTANTS
  Operations = {o1, o2}
  Contents = 3
  Hosts = {h1}
  Grace = 2
  Interval = 2
  Backoff = 1
  MaxScan = 2
  MaxDelete = 1
  MaxTries = 1
  MaxMishaps = 1

SPECIFICATION FairArtifactStoreSpec

INVARIANTS
  PromptCommitKept

PROPERTIES
  OrphansCollected
