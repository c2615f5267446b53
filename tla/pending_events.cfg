\* Two requests, one consumer that may leave and come back, one death.
SPECIFICATION FairSpec
CONSTANTS
  Requests = {1, 2}
  Decidable = {1}
  Subscribers = {s1}
  ReplayLimit = 3
  MaxTime = 1
  MaxLog = 1
  MaxCrashes = 1
  Other = Other
  Nil = Nil
INVARIANT TypeOK
INVARIANT PendingIsHeard
INVARIANT RepeatsOnlyByReplay
PROPERTY PendingReachesOwner
CHECK_DEADLOCK FALSE
