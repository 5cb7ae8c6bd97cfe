\* Four interchangeable paths and room for two of them: every order of hits,
\* misses, updates and evictions, with two distinguishable offsets.
CONSTANTS
  Paths = {p1, p2, p3, p4}
  MaxTracked = 2
  MaxOffset = 2
SPECIFICATION Spec
INVARIANT TypeOK
INVARIANT BoundedAndConsistent
INVARIANT RecentlyUsedSurvives
