CONSTANTS
  p1 = p1  p2 = p2  o1 = o1  o2 = o2
  NoPort = NoPort
  Pushers <- TwoPushers
  Ports <- TwoPorts
  RelayTimeouts = TRUE
SPECIFICATION CSpec
INVARIANT OneRelayPerPublisher
CHECK_DEADLOCK FALSE
