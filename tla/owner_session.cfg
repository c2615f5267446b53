\* Two updates of the profile and the creation of the vault, one session with
\* one call that waits and others that do not, one death.
SPECIFICATION FairSpec
CONSTANTS
  n1 = n1  n2 = n2  x1 = x1  f1 = f1  f2 = f2  u0 = u0  u1 = u1  u2 = u2
  Nicks = {n1, n2}
  Others = {x1}
  Fields = {f1, f2}
  Args <- Arguments
  Updates = {u1, u2}
  Creator = u0
  Users = {w1}
  MaxReloads = 1
  Scenes <- CrashOrReload
  MaxCrashes = 1
  Nil = Nil
  NotGiven = NotGiven
INVARIANT TypeOK
INVARIANT ProfileIsReadable
INVARIANT FieldsAreKept
INVARIANT ListTellsNickname
INVARIANT OneVaultPerReload
INVARIANT ClientNotOlder
INVARIANT ReloadTellsNickname
PROPERTY CallsReturn
CHECK_DEADLOCK FALSE
