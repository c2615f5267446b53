\* One delivery while an owner uses every operation, two sites, one death
\* of the process.
SPECIFICATION Spec
CONSTANTS
  a1 = a1  s1 = s1  d1 = d1  d2 = d2  w1 = w1  w2 = w2
  r1 = r1  r2 = r2  c1 = c1  c2 = c2
  Agents = {a1}
  Secrets = {s1}
  Domains = {d1, d2}
  SiteIds = {w1, w2}
  RequestIds = {r1}
  Calls = {c1}
  CallOf <- OneRequest
  Owners = {p1}
  OwnerOps = {"approve", "grantAgent", "revokeAgent", "grantDest", "revokeDest",
              "createSite", "updateSite", "deleteSite", "removeSecret"}
  MaxCrashes = 1
  Expiry = FALSE
  Throwing = FALSE
  Nil = Nil
INVARIANT NoGrantOutlivesSecret
INVARIANT GrantedSitesExist
PROPERTY FollowsRequestLife
CHECK_DEADLOCK FALSE
