\* One request delivered twice, two owner calls at a time that decide it, a
\* replay guard that may forget, one death of the process.
SPECIFICATION Spec
CONSTANTS
  a1 = a1  s1 = s1  d1 = d1  d2 = d2  w1 = w1  w2 = w2
  r1 = r1  r2 = r2  c1 = c1  c2 = c2
  Agents = {a1}
  Secrets = {s1}
  Domains = {d1}
  SiteIds = {}
  RequestIds = {r1}
  Calls = {c1, c2}
  CallOf <- Redelivery
  Owners = {p1, p2}
  OwnerOps = {"approve"}
  MaxCrashes = 1
  Expiry = TRUE
  Throwing = TRUE
  Nil = Nil
SYMMETRY RedeliverySymmetry
INVARIANT TypeOK
INVARIANT OutcomeIsLogged
PROPERTY ImplementsLedger
CHECK_DEADLOCK FALSE
