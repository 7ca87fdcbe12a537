\* One row in depth: every type, every way an attempt can end, a fault and
\* two edits of the row at any moment (it may go and come back under a tick).
CONSTANTS
  anna = anna
  bo = bo
  a1 = a1
  a2 = a2
  b1 = b1
  NULL = NULL
  Watches = {a1}
  Chats = {anna}
  Owner <- MCOwner
  Timeframe <- MCTimeframe
  Position <- MCPosition
  Budget = 1
  Types = {"calls", "regime", "both"}
  Regimes = {bull, bear}
  MaxAttempts = 2
  TicksPerBar = 1
  MaxBar = 3
  Faults = {"slow start", "no client", "row error", "unsure send", "crash"}
  MaxFaults = 1
  MaxEdits = 2
SPECIFICATION Spec
INVARIANTS
  StreakCountsBars
  RepeatsOnlyAfterFaults
  CallsPerBarBounded
