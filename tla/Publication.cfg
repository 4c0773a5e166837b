CONSTANTS
  EndpointCount = 2
  BindingCount = 1
  Addresses <- MCAddresses
  MaxEvents = 1
  Recovery = "automatic"
  Ttl = 2
  Grace = 1
SPECIFICATION FairSpec
CHECK_DEADLOCK FALSE
INVARIANT OldAddressesRest
PROPERTIES
  TerminatedIsNotPromoted
  IncidentsEnd
