\* Three calls, two of which can meet in either of two services, two requests.
CONSTANTS
  Callers = {c1, c2, c3}
  Services = {s1, s2}
  Requests = {r1, r2}
  Unbound = unbound
  Nobody = nobody
  MaxFaults = 2

SPECIFICATION FairSpec

PROPERTIES
  KeepsKeyPromise
  CallsEnd
