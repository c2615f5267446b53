\* Two deliveries at a time, windows of two ticks, one death of the process.
SPECIFICATION Spec
CONSTANTS
  Requests <- GuardDeliveries
  Slots = {s1, s2}
  Skew = 2
  Ttl = 2
  MaxDelay = 1
  MaxClock = 8
  MaxCrashes = 1
  Nil = Nil
SYMMETRY GuardSymmetry
INVARIANT AcceptancesFarApart
INVARIANT SignedOnce
PROPERTY ImplementsSeenGuard
CHECK_DEADLOCK FALSE
