SPECIFICATION CronSpec
CONSTANTS
  MinutesPerHour = 2
  HoursPerDay = 3
  DaysPerWeek = 3
  Calendar <- MCCalendar
  LimitYears = 4
  Zones <- MCTwoMidnights
  Specs <- MCMonthly
  Intervals = {1, 7}
  Start = 0
  LastCall = 60
INVARIANTS
  RunsTwice
CHECK_DEADLOCK FALSE
