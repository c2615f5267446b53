\* Two requests of one agent while an owner grants, decides and removes.
SPECIFICATION FairSpec
CONSTANTS
  a1 = a1  s1 = s1  d1 = d1  d2 = d2  w1 = w1  w2 = w2
  r1 = r1  r2 = r2  c1 = c1  c2 = c2
  Agents = {a1}
  Secrets = {s1}
  Domains = {d1}
  SiteIds = {w1}
  RequestIds = {r1, r2}
  Calls = {c1, c2}
  CallOf <- TwoRequests
  Owners = {p1}
  OwnerOps = {"approve", "grantAgent", "grantDest", "createSite", "removeSecret"}
  MaxCrashes = 0
  Expiry = FALSE
  Throwing = TRUE
  Nil = Nil
INVARIANT InProgressIsWorkedOn
PROPERTY GrantedDispatchIsExecuted
PROPERTY DispatchIsAnswered
CHECK_DEADLOCK FALSE
