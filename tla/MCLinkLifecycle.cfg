\* Two chats, two links made, a crash; a link ends at the second denial a tick after the first.
\* The server may fail and recover for ever.
CONSTANTS
  NULL = NULL
  k1 = k1
  k2 = k2
  Keys = {k1, k2}
  Chats <- MCChats
  Blockers = {1}
  Grace = 1
  MinObservations = 2
  MaxLinks = 2
  MaxCrashes = 1
SPECIFICATION FairSpec
INVARIANTS
  ToldOncePerLapse
PROPERTIES
  PayingStreakHeld
  ExhaustedLinkEnds
