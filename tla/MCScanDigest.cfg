\* Two processes of a release open a database with the scans of two chats, ranked in one
\* of two ways.  Then two subscribers of one scan: a group of two, and edits between its
\* members.
CONSTANTS
  NULL = NULL
  Chats = {c1, c2}
  Lenses = {oi}
  Ranks = {oi, nfr}
  Oi = oi
  Processes = {engine, service}
  a = a
  b = b
  Markets <- MCMarkets
  MaxCalls = 2
  MaxEdits = 2
  MaxFaults = 1
  MaxStops = 1
\* A release whose last scan was taken back has nothing left to do.
CHECK_DEADLOCK FALSE
SPECIFICATION ServiceSpec
INVARIANTS
  NoRepeat
  SigIsWhatWasSent
  ChargedAsSent
  UpgradeKeeps
PROPERTY
  ComesUp
