CONSTANTS
  k1 = k1
  k2 = k2
  v1 = v1
  v2 = v2
  Erased = Erased
  NULL = NULL
  Key = {k1, k2}
  Val = {v1, v2}
  Room = 3
  MaxSeq = 3
  MaxFail = 1

SPECIFICATION Spec

SYMMETRY Interchangeable

CHECK_DEADLOCK FALSE

INVARIANT
  RestartFindsCurrent

PROPERTIES
  KeepsPromise
  ProgramsErased
