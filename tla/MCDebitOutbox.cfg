\* Two deliveries, two passes at once, a link that changes, a process that dies.
CONSTANTS
  NULL = NULL
  c1 = c1
  k1 = k1
  w1 = w1
  d1 = d1
  d2 = d2
  Chats = {c1}
  Keys = {k1}
  Workers = {w1}
  Drains = {d1, d2}
  BatchLimit = 2
  MaxAttempts = 2
  MaxDeliveries = 2
  MaxLinks = 1
  MaxCrashes = 1
SPECIFICATION Spec
SYMMETRY MCSymmetry
INVARIANTS
  DebitedAtMostOnce
