SPECIFICATION ScheduleSpec
CONSTANTS
  Night <- MCRepeated
  Minute <- MCMinute
  Slice <- MCSlice
  NoSchedule = NoSchedule
  MaxResets = 1
INVARIANTS
  OutlivesTheHour
CHECK_DEADLOCK FALSE
