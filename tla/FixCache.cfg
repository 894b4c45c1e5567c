SPECIFICATION Spec
CONSTANTS
  Procs = {p1, p2}
  Skills = {s1, s2}
  Entries = {e1, e2}
  Requests = {r1, r2}
  Executing = {r1}
  Seed = {e1}
  MaxEdition = 2
  MaxEdits = 1
  MaxStarts = 2
INVARIANTS StaleHasACause CountsStayPlausible
SYMMETRY Symmetric
CHECK_DEADLOCK FALSE
