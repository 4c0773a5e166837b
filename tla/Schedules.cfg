CONSTANTS
  NoIncident = none
  MaxIncidents = 3
  MaxEvents = 3
SPECIFICATION ScheduleSpec
CHECK_DEADLOCK FALSE
PROPERTIES
  NoStartOverStop
  ScheduleGoesOn
