\* A batch that names an alias twice.
SPECIFICATION Spec
CONSTANTS
  SecretIds = {i1, i2}
  Aliases = {a1}
  Clients = {p1}
  Workers = {w1, w2}
  MaxBatch = 2
  Ops = {"create"}
  MaxCrashes = 0
  Nil = Nil
SYMMETRY LifecycleSymmetry
INVARIANT BatchIsAtomic
CHECK_DEADLOCK FALSE
