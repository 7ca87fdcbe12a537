\* A send is tried twice.
CONSTANTS
  NULL = NULL
  c1 = c1
  c2 = c2
  e1 = e1
  n1 = n1
  code = code
  w1 = w1
  w2 = w2
  Chats <- MCChats
  Groups <- MCGroups
  Digests <- MCDigests
  Showcases <- MCShowcases
  Notes <- MCNotes
  Codes <- MCCodes
  CodeOf <- MCCodeOf
  Workers <- MCWorkers
  SendMaxAttempts = 2
  MaxOccupied = 2
  MaxTurns = 1
  MaxTopics = 1
SPECIFICATION Spec
INVARIANTS
  NotTwice
  StampedWasTold
  BonusIsTheEngines
  StartMakesReachable
CONSTRAINT Bounded
SYMMETRY Symmetry
