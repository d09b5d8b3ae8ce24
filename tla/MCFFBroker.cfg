CONSTANTS
  Conn = {c1, c2}
  InProc = {g}
  Name = {a}
  MaxAlloc = 3
  MaxInFlight = 1
SYMMETRY Symmetry
VIEW BrokerView
SPECIFICATION BrokerSpec
CHECK_DEADLOCK FALSE
INVARIANTS RegistryTypeOK SocketsAreTheirOwners ServicesAreRoutable NodesKeepTheirNames GoneAreForgotten
PROPERTY IdsAreNeverReused
