\* Two polls of one source of four posts, three of which exist from the start.
CONSTANTS
  Pollers = {g1, g2}
  Posts = {1, 2, 3, 4}
  Archive = {1, 2, 3}
  PageSize = 2
  MaxDate = 2
  Calendars <- CalendarsOf
  MaxSourceFaults = 1
  MaxSourceRequests = 1
  NoPoller = NoPoller
SPECIFICATION SourcesFairSpec
INVARIANTS HistoryIsComplete
PROPERTIES FreshCredentials HistoryEnds
CHECK_DEADLOCK FALSE
