\* Six minutes, a budget of three rows, two faults; an alert for three ticks in a run or
\* for two bursts within four minutes.
CONSTANTS
  NULL = NULL
  anna = anna
  bo = bo
  carl = carl
  a1 = a1
  a2 = a2
  a3 = a3
  b1 = b1
  b2 = b2
  c1 = c1
  Watches = {a1, a2, a3, b1, b2, c1}
  Chats = {anna, bo, carl}
  Owner <- MCOwner
  Timeframe <- MCTimeframe
  Position <- MCPosition
  Budget = 3
  DueAt <- MCDue
  SaturationTicks = 3
  SaturationEpisodes = 2
  SaturationWindow = 4
  MaxMinute = 6
  MaxGap = 2
  MaxFaults = 2
SPECIFICATION TickSpec
CHECK_DEADLOCK FALSE
INVARIANTS
  SelectsScheduled
  PressureIsSaid
  NoSessionLeft
