\* Two owner calls approve the same request.
SPECIFICATION Spec
CONSTANTS
  a1 = a1  s1 = s1  d1 = d1  d2 = d2  w1 = w1  w2 = w2
  r1 = r1  r2 = r2  c1 = c1  c2 = c2
  Agents = {a1}
  Secrets = {s1}
  Domains = {d1}
  SiteIds = {}
  RequestIds = {r1}
  Calls = {c1}
  CallOf <- OneRequest
  Owners = {p1, p2}
  OwnerOps = {"approve"}
  MaxCrashes = 0
  Expiry = FALSE
  Throwing = FALSE
  Nil = Nil
INVARIANT ExecutedOnce
CHECK_DEADLOCK FALSE
