SPECIFICATION FairSpec
CONSTANTS
  d1 = d1  q1 = q1  a1 = a1  s1 = s1  s2 = s2  x = x  y = y  t1 = t1  t2 = t2
  Dispatches = {d1}
  Reads = {q1}
  Agents = {a1}
  AgentOf <- OneAgent
  Secrets = {s1, s2}
  Aliases = {x, y}
  Tokens = {t1, t2}
  Starts <- Scenes
  Given <- NamesAndRequest
  MaxCopies <- DispatchTwice
  MaxOwnerCalls = 2
  MaxCrashes = 1
  Nil = Nil
INVARIANT TypeOK
INVARIANT NoRedirect
INVARIANT AnswersAgree
INVARIANT RefusedIsNotExecuted
INVARIANT DeadTokenDoesNothing
PROPERTY CallsReturn
CHECK_DEADLOCK FALSE
