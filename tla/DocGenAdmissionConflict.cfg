\* One call at a time cannot meet another; two calls in one service are enough.
CONSTANTS
  Callers = {c1, c2}
  Services = {s1}
  Requests = {r1, r2}
  Unbound = unbound
  Nobody = nobody
  MaxFaults = 1

SPECIFICATION Spec

PROPERTIES
  ConflictMeansBound
