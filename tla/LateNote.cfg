SPECIFICATION Spec
CONSTANTS
  p1 = p1  p2 = p2  s1 = s1  s2 = s2
  Pings = {p1, p2}
  Sessions = {s1}
  Session <- Shared
  Open = {s1}
  Owned = {p1, p2}
  Here = {p1, p2}
  Tidy = TRUE
  Progress = TRUE
  None = None
INVARIANTS
  DiedKeepsItsPing
