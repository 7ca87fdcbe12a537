\* A window that outlasts both follow-ups twice over, so that a sequence that
\* starts again ends in it, and time for a second window to open.
CONSTANTS
  NULL = NULL
  Window = 6
  Offsets <- MCOffsets
  LastDay = 8
  p1 = p1
  p2 = p2
  Passes = {p1, p2}
  MaxLinks = 3
  MaxOverlaps = 1
  MaxCrashes = 1
SPECIFICATION Spec
INVARIANTS
  NothingTwice
  SilencedByStampsOnly
  FollowsTheWall
CONSTRAINT Bounded
SYMMETRY Symmetry
