\* An admin pauses a history while a page of it is being fetched.
CONSTANTS
  Pollers = {g1, g2}
  Posts = {1, 2, 3, 4}
  Archive = {1, 2, 3}
  PageSize = 2
  MaxDate = 2
  Calendars <- CalendarsOf
  MaxSourceFaults = 0
  MaxSourceRequests = 1
  NoPoller = NoPoller
SPECIFICATION SourcesFairSpec
PROPERTIES PauseHolds
CHECK_DEADLOCK FALSE
