SPECIFICATION CronSpec
CONSTANTS
  MinutesPerHour = 2
  HoursPerDay = 3
  DaysPerWeek = 3
  Calendar <- MCCalendar
  LimitYears = 4
  Zones <- MCOffHour
  Specs <- MCHalfPastTwo
  Intervals = {1, 7}
  Start = 0
  LastCall = 60
INVARIANTS
  Earliest
CHECK_DEADLOCK FALSE
