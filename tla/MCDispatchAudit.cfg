\* More than five hours, of which the ledger keeps three and a tick; two troubles.  The run stops at its last tick.
CONSTANTS
  None = None
  fast = fast
  slow = slow
  Rows = {fast, slow}
  Settings = {"early", "late"}
  Period <- MCPeriod
  Shift <- MCShift
  Tick = 4
  Slack = 1
  Allowance = 2
  Execs <- MCExecs
  MaxAttempts = 2
  RealignBars = 2
  ChronicBars = 2
  Hour = 16
  Retention = 52
  Start = 56
  LastTime = 140
  FirstTrouble = 96
  MaxTrouble = 2
CONSTRAINT Bounded
CHECK_DEADLOCK FALSE
SPECIFICATION Spec
INVARIANTS
  DesignNeverPages
  DarkBarIsSeen
  TwiceIsSeen
