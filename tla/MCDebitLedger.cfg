\* One pass at a time, batches smaller than the outbox, every answer at every attempt.
CONSTANTS
  NULL = NULL
  c1 = c1
  k1 = k1
  k2 = k2
  w1 = w1
  d1 = d1
  Chats = {c1}
  Keys = {k1, k2}
  Workers = {w1}
  Drains = {d1}
  BatchLimit = 1
  MaxAttempts = 2
  MaxDeliveries = 2
  MaxLinks = 1
  MaxCrashes = 1
SPECIFICATION FairSpec
INVARIANTS
  OutcomeIsTrue
  OneMeterBarringFaults
  StrayBounded
PROPERTIES
  EveryDebitSettles
  KeepsLedger
