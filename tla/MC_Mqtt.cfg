SPECIFICATION FairSpec
CONSTANTS
  Clients = {c1, c2, c3}
  None = None
  LogOnMqtt = TRUE
INVARIANTS TypeOK FlagsAreBacked NoStaleCallback OneLink NoSelfReconnect
PROPERTIES CallsEnd ComesUp
