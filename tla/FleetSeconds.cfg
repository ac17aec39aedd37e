CONSTANTS
  Device <- TwoDevices
  Task = {t}
  Tag = {}
  Late = {}
  TicksPerSecond = 2
  MaxTick = 5
  MaxRestarts = 1
  MaxEntries = 0
  Absent = Absent
SPECIFICATION Spec
INVARIANT LastWriterWins
CHECK_DEADLOCK FALSE
