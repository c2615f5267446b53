\* Two clients that overlap, one death of the process.
SPECIFICATION Spec
CONSTANTS
  SecretIds = {i1, i2}
  Aliases = {a1, a2}
  Clients = {p1, p2}
  Workers = {w1, w2}
  MaxBatch = 2
  Ops = {"create", "update", "remove", "export"}
  MaxCrashes = 1
  Nil = Nil
SYMMETRY LifecycleSymmetry
INVARIANT TypeOK
INVARIANT SettledSecretIsWhole
INVARIANT PlaintextHasRow
INVARIANT CheckedBatchIsWritten
INVARIANT ExportIsComplete
PROPERTY RemovalIsFinal
CHECK_DEADLOCK FALSE
