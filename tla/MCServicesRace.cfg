SPECIFICATION MCSpec
CONSTANTS
  Parts = {"sdk"}
  Clients = {c1, c2}
  Workers = {w1}
  TelemetryClients = {k1, k2}
  Dds = dds
  Nobody = nobody
  Options <- MCOptions
  Configurations <- MCConfigurations
  CallbackAtStart = FALSE
  Calls = {"Initialize", "StartCommunication", "StopCommunication"}
  MotorFaults = {}
  MaxAge = 3
PROPERTY
  WrapperStopReturns
