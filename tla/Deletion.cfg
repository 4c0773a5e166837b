CONSTANTS
  EndpointCount = 2
  BindingCount = 1
  RecordCount = 3
  Versions <- MCVersions
  MaxEvents = 3
  Settings <- MCSettings
  Switches <- BothWays
  Beginnings <- MCBeginnings
  Reached <- MCReached
  NoRow = NoRow
  Foreign = Foreign
SPECIFICATION FairSpec
CHECK_DEADLOCK FALSE
PROPERTIES
  DeletedIsUnpublished
