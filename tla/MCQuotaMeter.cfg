\* Two processes meter one chat, up to two items a decision: a window that ends with
\* its day, two days, a ladder that moves and goes stale, a bonus.
CONSTANTS
  NULL = NULL
  Window = 0
  LadderStaleAfter = 0
  FallbackMonthly = 1
  FallbackDaily = 2
  Chats = {c1}
  Workers = {engine, service}
  Publications <- MCPublications
  Grants = {1}
  MaxItems = 2
  MaxDay = 1
  MaxCharges = 9
  MaxGrants = 1
SPECIFICATION Spec
SYMMETRY WorkerSymmetry
INVARIANTS
  ChargesAccountedFor
  DayCountNeverOverstated
  OnePublishedLadder
  OvershootBounded
PROPERTIES
  RefreshNeverClawsBack
  WindowNeverRestarted
