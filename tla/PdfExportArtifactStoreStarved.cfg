\* Two digests on pages of one, one of which decays.
CONSTANTS
  Operations = {o1}
  Contents = 2
  Hosts = {h1}
  Grace = 2
  Interval = 2
  Backoff = 1
  MaxScan = 1
  MaxDelete = 1
  MaxTries = 2
  MaxMishaps = 1

SPECIFICATION FairArtifactStoreSpec

PROPERTIES
  NoOrphanStarved
