SPECIFICATION Spec
CONSTANTS
  MaxDay = 3
  MonthOf <- NewYear
  Hours = {0, 9, 12, 21}
  MaxTickets = 2
  MaxFetches = 2
CHECK_DEADLOCK FALSE
INVARIANT TypeOK
INVARIANT UpcomingShown
INVARIANT ExpiredHiddenSameDay
INVARIANT FailsOnlyByToday
