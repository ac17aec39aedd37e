CONSTANTS
  Device <- TwoDevices
  Task = {t}
  Tag = {g}
  Late = {g}
  TicksPerSecond = 1
  MaxTick = 4
  MaxRestarts = 1
  MaxEntries = 1
  Absent = Absent
SPECIFICATION FairSpec
INVARIANTS TypeOK SettledFleetAgrees LastWriterWins AdditionsSurvive TagsDoNotDangle MergeIsTheLoop
PROPERTIES NewestEditsArrive
CHECK_DEADLOCK FALSE
