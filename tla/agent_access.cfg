\* Two owner calls about two agents, one death of the process.
SPECIFICATION Spec
CONSTANTS
  Agents = {a1, a2}
  Secrets = {s1}
  Sites = {w1}
  Tokens = {t1, t2}
  Calls = {c1, c2}
  MaxCrashes = 1
  Nil = Nil
SYMMETRY AccessSymmetry
INVARIANT TypeOK
INVARIANT TokensDieWithAgent
INVARIANT SettledAgentIsWhole
INVARIANT DoomedSitesAreUnused
CHECK_DEADLOCK FALSE
