\* Three rows of two chats share a budget of two rows a tick: one fault, and
\* every way an attempt can end.
CONSTANTS
  anna = anna
  bo = bo
  a1 = a1
  a2 = a2
  b1 = b1
  NULL = NULL
  Watches = {a1, a2, b1}
  Chats = {anna, bo}
  Owner <- MCOwner
  Timeframe <- MCTimeframe
  Position <- MCPosition
  Budget = 2
  Types = {"calls"}
  Regimes = {bull}
  MaxAttempts = 2
  TicksPerBar = 1
  MaxBar = 1
  Faults = {"slow start", "no client", "row error", "unsure send", "crash"}
  MaxFaults = 1
  MaxEdits = 0
SPECIFICATION FairSpec
INVARIANT AccountComplete
PROPERTY DueRowSettles
